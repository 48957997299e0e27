-------------------------- MODULE ConfigPushProofs --------------------------
(***************************************************************************)
(* Proofs about ConfigPush, for every set of plugins and every number of   *)
(* retries.  The inductive invariant says, plugin by plugin, what the host *)
(* looks like before each command of each script.                          *)
(***************************************************************************)
EXTENDS ConfigPush, TLAPS

Content == {"none", "old", "new", "stale", "torn"}

HostState == [file : Content, backup : Content, live : Content]

TypeOK ==
  /\ plugin \in Plugin
  /\ good \in BOOLEAN
  /\ host \in HostState
  /\ orig \in HostState
  /\ had \in BOOLEAN
  /\ op \in {"none", "execute", "executed", "rolledBack", "uninstall", "uninstalled",
             "killed"}
  /\ attempt \in 0..Retries
  /\ found \in Content \cup {"never"}
  /\ blind \in BOOLEAN
  /\ outcome \in {"none", "failed", "success"}

\* Nothing was retried, and no ignored error hides a loss.
Fresh == attempt = 0 /\ ~blind

\* The configuration that was pushed is there and runs.
Pushed == host.file = "new" /\ host.live = "new" /\ good

Untouched == host.file = orig.file

\* had tells whether there was something, and if so it is saved.
Kept ==
  /\ had <=> orig.file # "none"
  /\ had => host.backup = orig.file

-----------------------------------------------------------------------------
(* The inductive invariant.                                                *)

\* What the operations leave behind, whatever the plugin.
Course ==
  /\ orig.file \in {"none", "old"}
  /\ op = "none" => host = orig /\ attempt = 0
  /\ op \in {"none", "execute", "executed", "rolledBack"} => found = "never"
  /\ op \in {"uninstall", "uninstalled"} => found # "never"
  /\ op \notin {"execute", "uninstall"} => todo = <<>>
  /\ todo = <<>> /\ op \in {"uninstall", "uninstalled"} /\ ~blind /\ plugin # "backup" =>
       host.file = "none" /\ (Stoppable(found) => host.live = "none")

NginxPlaces ==
  /\ op = "execute" =>
       \/ /\ todo \in {<<"forget", "probe", "save", "write", "test", "reload">>,
                       <<"probe", "save", "write", "test", "reload">>}
          /\ Fresh => Untouched
       \/ /\ todo = <<"save", "write", "test", "reload">>
          /\ Fresh => Untouched /\ had /\ orig.file # "none"
       \/ /\ todo = <<"write", "test", "reload">>
          /\ Fresh => Untouched /\ Kept
       \/ /\ todo = <<"test", "reload">>
          /\ host.file = "new"
          /\ Fresh => Kept
       \/ /\ todo = <<"reload">>
          /\ host.file = "new"
          /\ Fresh => Kept
       \/ /\ todo = <<>>
          /\ Pushed
  /\ op = "executed" /\ outcome = "success" => Pushed
  /\ op = "uninstall" =>
       \/ todo = <<"probeGone", "delete", "reloadQuietly">> /\ found = host.file
       \/ todo \in {<<"delete", "reloadQuietly">>, <<>>}
       \/ todo = <<"reloadQuietly">> /\ (~blind => host.file = "none")

SystemdPlaces ==
  /\ op = "execute" =>
       \/ /\ todo \in {<<"stage", "probe", "save", "move", "daemonReload", "enable", "restart">>,
                       <<"probe", "save", "move", "daemonReload", "enable", "restart">>}
          /\ Fresh => Untouched
       \/ /\ todo = <<"save", "move", "daemonReload", "enable", "restart">>
          /\ Fresh => Untouched /\ had /\ orig.file # "none"
       \/ /\ todo = <<"move", "daemonReload", "enable", "restart">>
          /\ Fresh => Untouched /\ Kept
       \/ /\ todo \in {<<"daemonReload", "enable", "restart">>, <<"enable", "restart">>,
                       <<"restart">>}
          /\ host.file = "new"
          /\ Fresh => Kept
       \/ /\ todo = <<>>
          /\ Pushed
  /\ op = "executed" /\ outcome = "success" => Pushed
  /\ op = "uninstall" =>
       \/ todo \in {<<"stop", "disable", "delete">>, <<>>}
       \/ todo \in {<<"disable", "delete">>, <<"delete">>} /\ (~blind => host.live = "none")

ContainerPlaces ==
  /\ op = "execute" =>
       \/ todo \in {<<"inspect", "pull", "stop", "rm", "run">>, <<"pull", "stop", "rm", "run">>,
                    <<"stop", "rm", "run">>, <<"rm", "run">>, <<"run">>}
       \/ todo = <<>> /\ Pushed
  /\ op = "executed" /\ outcome = "success" => Pushed
  /\ op = "uninstall" => todo \in {<<"rmForced">>, <<>>}

ComposePlaces ==
  /\ op = "execute" =>
       \/ /\ todo \in {<<"mkdir", "probe", "save", "write", "pull", "up">>,
                       <<"probe", "save", "write", "pull", "up">>}
          /\ Fresh => Untouched
       \/ /\ todo = <<"save", "write", "pull", "up">>
          /\ Fresh => Untouched /\ had /\ orig.file # "none"
       \/ /\ todo = <<"write", "pull", "up">>
          /\ Fresh => Untouched /\ Kept
       \/ /\ todo \in {<<"pull", "up">>, <<"up">>}
          /\ host.file = "new"
          /\ Fresh => Kept
       \/ /\ todo = <<>>
          /\ Pushed
  /\ op = "executed" /\ outcome = "success" => Pushed
  /\ op = "uninstall" =>
       \/ todo = <<"down", "delete">> /\ found = host.file
       \/ todo = <<"delete">> /\ (~blind /\ Stoppable(found) => host.live = "none")
       \/ todo = <<>>

\* had tells what was found, and what was found is saved.
Held ==
  /\ had => host.backup = orig.file
  /\ ~blind => (had <=> orig.file # "none")

BackupPlaces ==
  /\ op = "execute" =>
       \/ /\ todo \in {<<"mkdir", "probeDir", "tar">>, <<"probeDir", "tar">>}
          /\ Untouched
       \/ /\ todo = <<"tar">>
          /\ Untouched /\ had /\ orig.file # "none"
       \/ /\ todo = <<>>
          /\ Untouched /\ Held
  /\ op = "executed" /\ outcome = "success" => Held
  /\ op = "uninstall" => todo = <<>>

Inv ==
  /\ TypeOK
  /\ Course
  /\ OriginalSurvives
  /\ plugin = "nginx" => NginxPlaces
  /\ plugin = "systemd" => SystemdPlaces
  /\ plugin = "container" => ContainerPlaces
  /\ plugin = "compose" => ComposePlaces
  /\ plugin = "backup" => BackupPlaces

-----------------------------------------------------------------------------
(* Which action runs a command.                                            *)

LEMMA Dispatch ==
  ASSUME Command, todo # <<>>
  PROVE  /\ Head(todo) \in {"mkdir", "stage", "daemonReload", "enable", "pull"} => Prepare
         /\ Head(todo) = "forget" => Forget
         /\ Head(todo) = "probe" => Probe
         /\ Head(todo) = "save" => Save
         /\ Head(todo) = "inspect" => Inspect
         /\ Head(todo) = "write" => Write
         /\ Head(todo) = "move" => Move
         /\ Head(todo) = "test" => Test
         /\ Head(todo) = "reload" => Reload
         /\ Head(todo) = "restart" => Restart
         /\ Head(todo) = "stop" => Stop
         /\ Head(todo) = "rm" => Rm
         /\ Head(todo) = "run" => RunContainer
         /\ Head(todo) = "up" => Up
         /\ Head(todo) = "probeDir" => ProbeDir
         /\ Head(todo) = "tar" => Tar
         /\ Head(todo) = "probeGone" => ProbeGone
         /\ Head(todo) = "delete" => Delete
         /\ Head(todo) = "reloadQuietly" => ReloadQuietly
         /\ Head(todo) = "disable" => Disable
         /\ Head(todo) = "rmForced" => RmForced
         /\ Head(todo) = "down" => Down
  BY DEF Command, Is, Executed, Ended, Prepare, Forget, Probe, Save,
     Inspect, Write, Move, Test, Reload, Restart, Stop, Rm, RunContainer,
     Up, ProbeDir, Tar, ProbeGone, Delete, ReloadQuietly, Disable, RmForced, Down

LEMMA NothingLeft ==
  ASSUME Command, todo = <<>>
  PROVE  Executed \/ Ended
  BY DEF Command, Is, Prepare, Forget, Probe, Save,
     Inspect, Write, Move, Test, Reload, Restart, Stop, Rm, RunContainer,
     Up, ProbeDir, Tar, ProbeGone, Delete, ReloadQuietly, Disable, RmForced, Down

\* A step is a command, or the start or the end of an operation.
LEMMA Steps ==
  ASSUME [Next]_vars
  PROVE  Command \/ Execute \/ Overwrite \/ Rollback \/ Uninstall \/ Kill \/ UNCHANGED vars
  BY DEF Next

\* No step changes what the step was set up with.
LEMMA SettingKept ==
  ASSUME [Next]_vars
  PROVE  plugin' = plugin /\ good' = good /\ orig' = orig
  BY Steps DEF Command, Checked, Unchecked, RetryOrGiveUp, setting, vars,
     Execute, Executed, Ended, Overwrite, Rollback, Uninstall, Kill, Forget,
     Probe, Save, Inspect, Write, Move, Test, Reload, Restart, Stop, Rm,
     RunContainer, Up, ProbeDir, Tar, ProbeGone, Delete, ReloadQuietly,
     Disable, RmForced, Down, Prepare

-----------------------------------------------------------------------------
(* The types.                                                              *)

LEMMA StateFields ==
  ASSUME NEW f, NEW b, NEW l
  PROVE  State(f, b, l).file = f /\ State(f, b, l).backup = b /\ State(f, b, l).live = l
  BY DEF State

LEMMA HostFields ==
  ASSUME TypeOK
  PROVE  /\ host \in HostState
         /\ host.file \in Content /\ host.backup \in Content /\ host.live \in Content
  BY DEF TypeOK, HostState

LEMMA Contents ==
  /\ {"none", "old", "new", "stale", "torn"} \subseteq Content
  /\ \A f, b, l \in Content : State(f, b, l) \in HostState
  BY DEF Content, HostState, State

LEMMA CheckedType ==
  ASSUME TypeOK, NEW done \in SUBSET HostState, NEW halfway \in SUBSET HostState,
         Checked(done, halfway)
  PROVE  TypeOK'
<1>1. host' \in HostState
  BY DEF Checked, TypeOK
<1>2. attempt' \in 0..Retries
  BY ConfigPushAssumption DEF Checked, RetryOrGiveUp, result, setting, TypeOK,
     ConfigPushAssumption
<1> QED
  BY <1>1, <1>2 DEF Checked, RetryOrGiveUp, result, setting, TypeOK

LEMMA UncheckedType ==
  ASSUME TypeOK, NEW done \in SUBSET HostState, NEW halfway \in SUBSET HostState,
         Unchecked(done, halfway)
  PROVE  TypeOK'
<1>1. host' \in HostState
  BY DEF Unchecked, TypeOK
<1> QED
  BY <1>1 DEF Unchecked, result, setting, TypeOK

LEMMA NextType == TypeOK /\ [Next]_vars => TypeOK'
<1> SUFFICES ASSUME TypeOK, [Next]_vars PROVE TypeOK'
  OBVIOUS
<1> USE HostFields, Contents DEF With, Saved, Live
<1>1. CASE Prepare
  BY <1>1, CheckedType DEF Prepare
<1>2. CASE Forget
  BY <1>2, UncheckedType DEF Forget
<1>3. CASE Probe
  BY <1>3 DEF Probe, result, setting, TypeOK
<1>4. CASE Save
  BY <1>4, UncheckedType DEF Save
<1>5. CASE Inspect
  <2>1. host' \in HostState /\ had' \in BOOLEAN /\ blind' \in BOOLEAN
    BY <1>5 DEF Inspect
  <2> QED
    BY <1>5, <2>1 DEF Inspect, result, setting, TypeOK
<1>6. CASE Write
  BY <1>6, CheckedType DEF Write
<1>7. CASE Move
  BY <1>7, CheckedType DEF Move
<1>8. CASE Test
  BY <1>8, CheckedType DEF Test
<1>9. CASE Reload
  BY <1>9, CheckedType DEF Reload
<1>10. CASE Restart
  BY <1>10, CheckedType DEF Restart
<1>11. CASE Stop
  BY <1>11, UncheckedType DEF Stop
<1>12. CASE Rm
  BY <1>12, UncheckedType DEF Rm
<1>13. CASE RunContainer
  BY <1>13, CheckedType DEF RunContainer
<1>14. CASE Up
  BY <1>14, CheckedType DEF Up
<1>15. CASE ProbeDir
  BY <1>15 DEF ProbeDir, result, setting, TypeOK
<1>16. CASE Tar
  BY <1>16, CheckedType DEF Tar
<1>17. CASE ProbeGone
  BY <1>17 DEF ProbeGone, result, setting, TypeOK
<1>18. CASE Delete
  <2>1. CASE Unchecked({With("none")}, {With("torn")})
    BY <2>1, UncheckedType
  <2>2. CASE UNCHANGED <<setting, host, had, op, attempt, result>>
    BY <1>18, <2>2 DEF Delete, Unchecked, result, setting, TypeOK
  <2> QED
    BY <1>18, <2>1, <2>2 DEF Delete
<1>19. CASE ReloadQuietly
  BY <1>19, UncheckedType DEF ReloadQuietly
<1>20. CASE Disable
  BY <1>20, UncheckedType DEF Disable
<1>21. CASE RmForced
  BY <1>21, UncheckedType DEF RmForced
<1>22. CASE Down
  BY <1>22, UncheckedType DEF Down
<1>23. CASE Executed
  BY <1>23 DEF Executed, With, result, setting, TypeOK
<1>24. CASE Ended
  BY <1>24 DEF Ended, With, result, setting, TypeOK
<1>25. CASE Execute
  BY <1>25 DEF Execute, With, result, setting, TypeOK
<1>26. CASE Overwrite
  BY <1>26 DEF Overwrite, With, result, setting, TypeOK
<1>27. CASE Rollback
  BY <1>27 DEF Rollback, With, result, setting, TypeOK
<1>28. CASE Uninstall
  BY <1>28 DEF Uninstall, With, result, setting, TypeOK
<1>29. CASE Kill
  BY <1>29 DEF Kill, With, result, setting, TypeOK
<1>30. CASE UNCHANGED vars
  BY <1>30 DEF vars, result, setting, TypeOK
<1> QED
  BY <1>1, <1>2, <1>3, <1>4, <1>5, <1>6, <1>7, <1>8, <1>9, <1>10, <1>11,
     <1>12, <1>13, <1>14, <1>15, <1>16, <1>17, <1>18, <1>19, <1>20, <1>21,
     <1>22, <1>23, <1>24, <1>25, <1>26, <1>27, <1>28, <1>29, <1>30
     DEF Next, Command

-----------------------------------------------------------------------------
(* nginx_config.                                                           *)

LEMMA NginxTails ==
  /\ Tail(<<"forget", "probe", "save", "write", "test", "reload">>)
       = <<"probe", "save", "write", "test", "reload">>
  /\ Tail(<<"probe", "save", "write", "test", "reload">>)
       = <<"save", "write", "test", "reload">>
  /\ Tail(<<"save", "write", "test", "reload">>) = <<"write", "test", "reload">>
  /\ Tail(<<"write", "test", "reload">>) = <<"test", "reload">>
  /\ Tail(<<"test", "reload">>) = <<"reload">>
  /\ Tail(<<"probeGone", "delete", "reloadQuietly">>)
       = <<"delete", "reloadQuietly">>
  /\ Tail(<<"delete", "reloadQuietly">>) = <<"reloadQuietly">>
  OBVIOUS

LEMMA NginxFails ==
  ASSUME Inv, plugin = "nginx", op = "execute", RetryOrGiveUp,
         Fresh /\ orig.file # "none" => "old" \in {host'.file, host'.backup}
  PROVE  (Course /\ OriginalSurvives /\ NginxPlaces)'
  BY DEF Inv, TypeOK, Course, OriginalSurvives, NginxPlaces, Fresh, Untouched, RetryOrGiveUp,
         setting, ExecuteScript, NginxExecute

LEMMA NginxStep ==
  ASSUME Inv, TypeOK', [Next]_vars, plugin = "nginx"
  PROVE  (Course /\ OriginalSurvives /\ NginxPlaces)'
<1> USE StateFields, SettingKept, NginxTails
    DEF Inv, Course, OriginalSurvives, NginxPlaces, Fresh, Untouched, Kept, Held, Pushed,
        Stoppable, Valid, Checked, Unchecked, RetryOrGiveUp, setting, result, ExecuteScript,
        NginxExecute
<1>1. CASE Command /\ op = "execute" /\ todo # <<>>
  <2>1. CASE todo = <<"forget", "probe", "save", "write", "test", "reload">>
    <3>1. Forget
      BY <1>1, <2>1, Dispatch
    <3> QED
      BY <1>1, <2>1, <3>1 DEF Forget, With, Saved, Live
  <2>2. CASE todo = <<"probe", "save", "write", "test", "reload">>
    <3>1. Probe
      BY <1>1, <2>2, Dispatch
    <3> QED
      BY <1>1, <2>2, <3>1 DEF Probe
  <2>3. CASE todo = <<"save", "write", "test", "reload">>
    <3>1. Save
      BY <1>1, <2>3, Dispatch
    <3> QED
      BY <1>1, <2>3, <3>1 DEF Save, With, Saved, Live
  <2>4. CASE todo = <<"write", "test", "reload">>
    <3>1. Write
      BY <1>1, <2>4, Dispatch
    <3>2. CASE RetryOrGiveUp
      <4>1. host' \in {With("new"), With("torn"), host}
        BY <3>1 DEF Write, Checked
      <4>2. Fresh /\ orig.file # "none" => "old" \in {host'.file, host'.backup}
        BY <1>1, <2>4, <4>1 DEF With
      <4> QED
        BY <1>1, <3>2, <4>2, NginxFails
    <3>3. CASE todo' = Tail(todo) /\ op' = op
      BY <1>1, <2>4, <3>1, <3>3 DEF Write, With, Saved, Live
    <3> QED
      BY <3>1, <3>2, <3>3 DEF Write
  <2>5. CASE todo = <<"test", "reload">>
    <3>1. Test
      BY <1>1, <2>5, Dispatch
    <3>2. CASE RetryOrGiveUp
      <4>1. host' \in {host}
        BY <3>1 DEF Test, Checked
      <4>2. Fresh /\ orig.file # "none" => "old" \in {host'.file, host'.backup}
        BY <1>1, <2>5, <4>1
      <4> QED
        BY <1>1, <3>2, <4>2, NginxFails
    <3>3. CASE todo' = Tail(todo) /\ op' = op
      BY <1>1, <2>5, <3>1, <3>3 DEF Test
    <3> QED
      BY <3>1, <3>2, <3>3 DEF Test
  <2>6. CASE todo = <<"reload">>
    <3>1. Reload
      BY <1>1, <2>6, Dispatch
    <3>2. CASE RetryOrGiveUp
      <4>1. host' \in {Live(host.file), host}
        BY <3>1 DEF Reload, Checked
      <4>2. Fresh /\ orig.file # "none" => "old" \in {host'.file, host'.backup}
        BY <1>1, <2>6, <4>1 DEF Live
      <4> QED
        BY <1>1, <3>2, <4>2, NginxFails
    <3>3. CASE todo' = Tail(todo) /\ op' = op
      BY <1>1, <2>6, <3>1, <3>3 DEF Reload, With, Saved, Live
    <3> QED
      BY <3>1, <3>2, <3>3 DEF Reload
  <2> QED
    BY <1>1, <2>1, <2>2, <2>3, <2>4, <2>5, <2>6
<1>2. CASE Command /\ op = "uninstall" /\ todo # <<>>
  <2>1. CASE todo = <<"probeGone", "delete", "reloadQuietly">>
    <3>1. ProbeGone
      BY <1>2, <2>1, Dispatch
    <3>2. CASE todo' = <<>> /\ blind' = (blind \/ host.file # "none")
      BY <1>2, <2>1, <3>1, <3>2 DEF ProbeGone
    <3>3. CASE todo' = Tail(todo) /\ blind' = blind
      BY <1>2, <2>1, <3>1, <3>3 DEF ProbeGone
    <3> QED
      BY <3>1, <3>2, <3>3 DEF ProbeGone
  <2>2. CASE todo = <<"delete", "reloadQuietly">>
    <3>1. Delete
      BY <1>2, <2>2, Dispatch
    <3> QED
      BY <1>2, <2>2, <3>1 DEF Delete, With, Saved, Live
  <2>3. CASE todo = <<"reloadQuietly">>
    <3>1. ReloadQuietly
      BY <1>2, <2>3, Dispatch
    <3> QED
      BY <1>2, <2>3, <3>1 DEF ReloadQuietly, With, Saved, Live
  <2> QED
    BY <1>2, <2>1, <2>2, <2>3
<1>3. CASE Command /\ todo = <<>>
  <2>1. CASE Executed
    BY <1>3, <2>1 DEF Executed
  <2>2. CASE Ended
    BY <1>3, <2>2 DEF Ended
  <2> QED
    BY <1>3, <2>1, <2>2, NothingLeft
<1>4. CASE Execute
  BY <1>4 DEF Execute
<1>5. CASE Overwrite
  BY <1>5 DEF Overwrite, With
<1>6. CASE Rollback
  BY <1>6 DEF Rollback
<1>7. CASE Uninstall
  <2>1. found' = host.file /\ host.file \in Content /\ "never" \notin Content
    BY <1>7, HostFields DEF Uninstall, Content
  <2> QED
    BY <1>7, <2>1 DEF Uninstall, UninstallScript, NginxUninstall
<1>8. CASE Kill
  BY <1>8 DEF Kill
<1>9. CASE UNCHANGED vars
  BY <1>9 DEF vars
<1>10. todo # <<>> => op \in {"execute", "uninstall"}
  OBVIOUS
<1> QED
  BY Steps, <1>1, <1>2, <1>3, <1>4, <1>5, <1>6, <1>7, <1>8, <1>9, <1>10

-----------------------------------------------------------------------------
(* systemd_service.                                                        *)

LEMMA SystemdTails ==
  /\ Tail(<<"stage", "probe", "save", "move", "daemonReload", "enable", "restart">>)
       = <<"probe", "save", "move", "daemonReload", "enable", "restart">>
  /\ Tail(<<"probe", "save", "move", "daemonReload", "enable", "restart">>)
       = <<"save", "move", "daemonReload", "enable", "restart">>
  /\ Tail(<<"save", "move", "daemonReload", "enable", "restart">>)
       = <<"move", "daemonReload", "enable", "restart">>
  /\ Tail(<<"move", "daemonReload", "enable", "restart">>)
       = <<"daemonReload", "enable", "restart">>
  /\ Tail(<<"daemonReload", "enable", "restart">>) = <<"enable", "restart">>
  /\ Tail(<<"enable", "restart">>) = <<"restart">>
  /\ Tail(<<"stop", "disable", "delete">>) = <<"disable", "delete">>
  /\ Tail(<<"disable", "delete">>) = <<"delete">>
  OBVIOUS

LEMMA SystemdFails ==
  ASSUME Inv, plugin = "systemd", op = "execute", RetryOrGiveUp,
         Fresh /\ orig.file # "none" => "old" \in {host'.file, host'.backup}
  PROVE  (Course /\ OriginalSurvives /\ SystemdPlaces)'
  BY DEF Inv, TypeOK, Course, OriginalSurvives, SystemdPlaces, Fresh, Untouched, RetryOrGiveUp,
         setting, ExecuteScript, SystemdExecute

LEMMA SystemdStep ==
  ASSUME Inv, TypeOK', [Next]_vars, plugin = "systemd"
  PROVE  (Course /\ OriginalSurvives /\ SystemdPlaces)'
<1> USE StateFields, SettingKept, SystemdTails
    DEF Inv, Course, OriginalSurvives, SystemdPlaces, Fresh, Untouched, Kept, Held, Pushed,
        Stoppable, Valid, Checked, Unchecked, RetryOrGiveUp, setting, result, ExecuteScript,
        SystemdExecute
<1>1. CASE Command /\ op = "execute" /\ todo # <<>>
  <2>1. CASE todo = <<"stage", "probe", "save", "move", "daemonReload", "enable", "restart">>
    <3>1. Prepare
      BY <1>1, <2>1, Dispatch
    <3>2. CASE RetryOrGiveUp
      <4>1. host' \in {host}
        BY <3>1 DEF Prepare, Checked
      <4>2. Fresh /\ orig.file # "none" => "old" \in {host'.file, host'.backup}
        BY <1>1, <2>1, <4>1
      <4> QED
        BY <1>1, <3>2, <4>2, SystemdFails
    <3>3. CASE todo' = Tail(todo) /\ op' = op
      BY <1>1, <2>1, <3>1, <3>3 DEF Prepare
    <3> QED
      BY <3>1, <3>2, <3>3 DEF Prepare
  <2>2. CASE todo = <<"probe", "save", "move", "daemonReload", "enable", "restart">>
    <3>1. Probe
      BY <1>1, <2>2, Dispatch
    <3> QED
      BY <1>1, <2>2, <3>1 DEF Probe
  <2>3. CASE todo = <<"save", "move", "daemonReload", "enable", "restart">>
    <3>1. Save
      BY <1>1, <2>3, Dispatch
    <3> QED
      BY <1>1, <2>3, <3>1 DEF Save, With, Saved, Live
  <2>4. CASE todo = <<"move", "daemonReload", "enable", "restart">>
    <3>1. Move
      BY <1>1, <2>4, Dispatch
    <3>2. CASE RetryOrGiveUp
      <4>1. host' \in {With("new"), With("torn"), host}
        BY <3>1 DEF Move, Checked
      <4>2. Fresh /\ orig.file # "none" => "old" \in {host'.file, host'.backup}
        BY <1>1, <2>4, <4>1 DEF With
      <4> QED
        BY <1>1, <3>2, <4>2, SystemdFails
    <3>3. CASE todo' = Tail(todo) /\ op' = op
      BY <1>1, <2>4, <3>1, <3>3 DEF Move, With, Saved, Live
    <3> QED
      BY <3>1, <3>2, <3>3 DEF Move
  <2>5. CASE todo = <<"daemonReload", "enable", "restart">>
    <3>1. Prepare
      BY <1>1, <2>5, Dispatch
    <3>2. CASE RetryOrGiveUp
      <4>1. host' \in {host}
        BY <3>1 DEF Prepare, Checked
      <4>2. Fresh /\ orig.file # "none" => "old" \in {host'.file, host'.backup}
        BY <1>1, <2>5, <4>1
      <4> QED
        BY <1>1, <3>2, <4>2, SystemdFails
    <3>3. CASE todo' = Tail(todo) /\ op' = op
      BY <1>1, <2>5, <3>1, <3>3 DEF Prepare
    <3> QED
      BY <3>1, <3>2, <3>3 DEF Prepare
  <2>6. CASE todo = <<"enable", "restart">>
    <3>1. Prepare
      BY <1>1, <2>6, Dispatch
    <3>2. CASE RetryOrGiveUp
      <4>1. host' \in {host}
        BY <3>1 DEF Prepare, Checked
      <4>2. Fresh /\ orig.file # "none" => "old" \in {host'.file, host'.backup}
        BY <1>1, <2>6, <4>1
      <4> QED
        BY <1>1, <3>2, <4>2, SystemdFails
    <3>3. CASE todo' = Tail(todo) /\ op' = op
      BY <1>1, <2>6, <3>1, <3>3 DEF Prepare
    <3> QED
      BY <3>1, <3>2, <3>3 DEF Prepare
  <2>7. CASE todo = <<"restart">>
    <3>1. Restart
      BY <1>1, <2>7, Dispatch
    <3>2. CASE RetryOrGiveUp
      <4>1. host' \in {Live(host.file), Live("none"), host}
        BY <3>1 DEF Restart, Checked
      <4>2. Fresh /\ orig.file # "none" => "old" \in {host'.file, host'.backup}
        BY <1>1, <2>7, <4>1 DEF Live
      <4> QED
        BY <1>1, <3>2, <4>2, SystemdFails
    <3>3. CASE todo' = Tail(todo) /\ op' = op
      BY <1>1, <2>7, <3>1, <3>3 DEF Restart, With, Saved, Live
    <3> QED
      BY <3>1, <3>2, <3>3 DEF Restart
  <2> QED
    BY <1>1, <2>1, <2>2, <2>3, <2>4, <2>5, <2>6, <2>7
<1>2. CASE Command /\ op = "uninstall" /\ todo # <<>>
  <2>1. CASE todo = <<"stop", "disable", "delete">>
    <3>1. Stop
      BY <1>2, <2>1, Dispatch
    <3> QED
      BY <1>2, <2>1, <3>1 DEF Stop, With, Saved, Live
  <2>2. CASE todo = <<"disable", "delete">>
    <3>1. Disable
      BY <1>2, <2>2, Dispatch
    <3> QED
      BY <1>2, <2>2, <3>1 DEF Disable
  <2>3. CASE todo = <<"delete">>
    <3>1. Delete
      BY <1>2, <2>3, Dispatch
    <3> QED
      BY <1>2, <2>3, <3>1 DEF Delete, With, Saved, Live
  <2> QED
    BY <1>2, <2>1, <2>2, <2>3
<1>3. CASE Command /\ todo = <<>>
  <2>1. CASE Executed
    BY <1>3, <2>1 DEF Executed
  <2>2. CASE Ended
    BY <1>3, <2>2 DEF Ended
  <2> QED
    BY <1>3, <2>1, <2>2, NothingLeft
<1>4. CASE Execute
  BY <1>4 DEF Execute
<1>5. CASE Overwrite
  BY <1>5 DEF Overwrite, With
<1>6. CASE Rollback
  BY <1>6 DEF Rollback
<1>7. CASE Uninstall
  <2>1. found' = host.file /\ host.file \in Content /\ "never" \notin Content
    BY <1>7, HostFields DEF Uninstall, Content
  <2> QED
    BY <1>7, <2>1 DEF Uninstall, UninstallScript, SystemdUninstall
<1>8. CASE Kill
  BY <1>8 DEF Kill
<1>9. CASE UNCHANGED vars
  BY <1>9 DEF vars
<1>10. todo # <<>> => op \in {"execute", "uninstall"}
  OBVIOUS
<1> QED
  BY Steps, <1>1, <1>2, <1>3, <1>4, <1>5, <1>6, <1>7, <1>8, <1>9, <1>10

-----------------------------------------------------------------------------
(* docker_container.                                                       *)

LEMMA ContainerTails ==
  /\ Tail(<<"inspect", "pull", "stop", "rm", "run">>)
       = <<"pull", "stop", "rm", "run">>
  /\ Tail(<<"pull", "stop", "rm", "run">>) = <<"stop", "rm", "run">>
  /\ Tail(<<"stop", "rm", "run">>) = <<"rm", "run">>
  /\ Tail(<<"rm", "run">>) = <<"run">>
  OBVIOUS

LEMMA ContainerFails ==
  ASSUME Inv, plugin = "container", op = "execute", RetryOrGiveUp
  PROVE  (Course /\ OriginalSurvives /\ ContainerPlaces)'
  BY DEF Inv, TypeOK, Course, OriginalSurvives, ContainerPlaces, Fresh, Untouched, RetryOrGiveUp,
         setting, ExecuteScript, ContainerExecute

LEMMA ContainerStep ==
  ASSUME Inv, TypeOK', [Next]_vars, plugin = "container"
  PROVE  (Course /\ OriginalSurvives /\ ContainerPlaces)'
<1> USE StateFields, SettingKept, ContainerTails
    DEF Inv, Course, OriginalSurvives, ContainerPlaces, Fresh, Untouched, Kept, Held, Pushed,
        Stoppable, Valid, Checked, Unchecked, RetryOrGiveUp, setting, result, ExecuteScript,
        ContainerExecute
<1>1. CASE Command /\ op = "execute" /\ todo # <<>>
  <2>1. CASE todo = <<"inspect", "pull", "stop", "rm", "run">>
    <3>1. Inspect
      BY <1>1, <2>1, Dispatch
    <3> QED
      BY <1>1, <2>1, <3>1 DEF Inspect
  <2>2. CASE todo = <<"pull", "stop", "rm", "run">>
    <3>1. Prepare
      BY <1>1, <2>2, Dispatch
    <3>2. CASE RetryOrGiveUp
      BY <1>1, <3>2, ContainerFails
    <3>3. CASE todo' = Tail(todo) /\ op' = op
      BY <1>1, <2>2, <3>1, <3>3 DEF Prepare
    <3> QED
      BY <3>1, <3>2, <3>3 DEF Prepare
  <2>3. CASE todo = <<"stop", "rm", "run">>
    <3>1. Stop
      BY <1>1, <2>3, Dispatch
    <3> QED
      BY <1>1, <2>3, <3>1 DEF Stop, With, Saved, Live
  <2>4. CASE todo = <<"rm", "run">>
    <3>1. Rm
      BY <1>1, <2>4, Dispatch
    <3> QED
      BY <1>1, <2>4, <3>1 DEF Rm, With, Saved, Live
  <2>5. CASE todo = <<"run">>
    <3>1. RunContainer
      BY <1>1, <2>5, Dispatch
    <3>2. CASE RetryOrGiveUp
      BY <1>1, <3>2, ContainerFails
    <3>3. CASE todo' = Tail(todo) /\ op' = op
      BY <1>1, <2>5, <3>1, <3>3 DEF RunContainer, With, Saved, Live
    <3> QED
      BY <3>1, <3>2, <3>3 DEF RunContainer
  <2> QED
    BY <1>1, <2>1, <2>2, <2>3, <2>4, <2>5
<1>2. CASE Command /\ op = "uninstall" /\ todo # <<>>
  <2>1. CASE todo = <<"rmForced">>
    <3>1. RmForced
      BY <1>2, <2>1, Dispatch
    <3> QED
      BY <1>2, <2>1, <3>1 DEF RmForced, With, Saved, Live
  <2> QED
    BY <1>2, <2>1
<1>3. CASE Command /\ todo = <<>>
  <2>1. CASE Executed
    BY <1>3, <2>1 DEF Executed
  <2>2. CASE Ended
    BY <1>3, <2>2 DEF Ended
  <2> QED
    BY <1>3, <2>1, <2>2, NothingLeft
<1>4. CASE Execute
  BY <1>4 DEF Execute
<1>5. CASE Overwrite
  BY <1>5 DEF Overwrite, With
<1>6. CASE Rollback
  BY <1>6 DEF Rollback
<1>7. CASE Uninstall
  <2>1. found' = host.file /\ host.file \in Content /\ "never" \notin Content
    BY <1>7, HostFields DEF Uninstall, Content
  <2> QED
    BY <1>7, <2>1 DEF Uninstall, UninstallScript, ContainerUninstall
<1>8. CASE Kill
  BY <1>8 DEF Kill
<1>9. CASE UNCHANGED vars
  BY <1>9 DEF vars
<1>10. todo # <<>> => op \in {"execute", "uninstall"}
  OBVIOUS
<1> QED
  BY Steps, <1>1, <1>2, <1>3, <1>4, <1>5, <1>6, <1>7, <1>8, <1>9, <1>10

-----------------------------------------------------------------------------
(* docker_compose.                                                         *)

LEMMA ComposeTails ==
  /\ Tail(<<"mkdir", "probe", "save", "write", "pull", "up">>)
       = <<"probe", "save", "write", "pull", "up">>
  /\ Tail(<<"probe", "save", "write", "pull", "up">>)
       = <<"save", "write", "pull", "up">>
  /\ Tail(<<"save", "write", "pull", "up">>) = <<"write", "pull", "up">>
  /\ Tail(<<"write", "pull", "up">>) = <<"pull", "up">>
  /\ Tail(<<"pull", "up">>) = <<"up">>
  /\ Tail(<<"down", "delete">>) = <<"delete">>
  OBVIOUS

LEMMA ComposeFails ==
  ASSUME Inv, plugin = "compose", op = "execute", RetryOrGiveUp,
         Fresh /\ orig.file # "none" => "old" \in {host'.file, host'.backup}
  PROVE  (Course /\ OriginalSurvives /\ ComposePlaces)'
  BY DEF Inv, TypeOK, Course, OriginalSurvives, ComposePlaces, Fresh, Untouched, RetryOrGiveUp,
         setting, ExecuteScript, ComposeExecute

LEMMA ComposeStep ==
  ASSUME Inv, TypeOK', [Next]_vars, plugin = "compose"
  PROVE  (Course /\ OriginalSurvives /\ ComposePlaces)'
<1> USE StateFields, SettingKept, ComposeTails
    DEF Inv, Course, OriginalSurvives, ComposePlaces, Fresh, Untouched, Kept, Held, Pushed,
        Stoppable, Valid, Checked, Unchecked, RetryOrGiveUp, setting, result, ExecuteScript,
        ComposeExecute
<1>1. CASE Command /\ op = "execute" /\ todo # <<>>
  <2>1. CASE todo = <<"mkdir", "probe", "save", "write", "pull", "up">>
    <3>1. Prepare
      BY <1>1, <2>1, Dispatch
    <3>2. CASE RetryOrGiveUp
      <4>1. host' \in {host}
        BY <3>1 DEF Prepare, Checked
      <4>2. Fresh /\ orig.file # "none" => "old" \in {host'.file, host'.backup}
        BY <1>1, <2>1, <4>1
      <4> QED
        BY <1>1, <3>2, <4>2, ComposeFails
    <3>3. CASE todo' = Tail(todo) /\ op' = op
      BY <1>1, <2>1, <3>1, <3>3 DEF Prepare
    <3> QED
      BY <3>1, <3>2, <3>3 DEF Prepare
  <2>2. CASE todo = <<"probe", "save", "write", "pull", "up">>
    <3>1. Probe
      BY <1>1, <2>2, Dispatch
    <3> QED
      BY <1>1, <2>2, <3>1 DEF Probe
  <2>3. CASE todo = <<"save", "write", "pull", "up">>
    <3>1. Save
      BY <1>1, <2>3, Dispatch
    <3> QED
      BY <1>1, <2>3, <3>1 DEF Save, With, Saved, Live
  <2>4. CASE todo = <<"write", "pull", "up">>
    <3>1. Write
      BY <1>1, <2>4, Dispatch
    <3>2. CASE RetryOrGiveUp
      <4>1. host' \in {With("new"), With("torn"), host}
        BY <3>1 DEF Write, Checked
      <4>2. Fresh /\ orig.file # "none" => "old" \in {host'.file, host'.backup}
        BY <1>1, <2>4, <4>1 DEF With
      <4> QED
        BY <1>1, <3>2, <4>2, ComposeFails
    <3>3. CASE todo' = Tail(todo) /\ op' = op
      BY <1>1, <2>4, <3>1, <3>3 DEF Write, With, Saved, Live
    <3> QED
      BY <3>1, <3>2, <3>3 DEF Write
  <2>5. CASE todo = <<"pull", "up">>
    <3>1. Prepare
      BY <1>1, <2>5, Dispatch
    <3>2. CASE RetryOrGiveUp
      <4>1. host' \in {host}
        BY <3>1 DEF Prepare, Checked
      <4>2. Fresh /\ orig.file # "none" => "old" \in {host'.file, host'.backup}
        BY <1>1, <2>5, <4>1
      <4> QED
        BY <1>1, <3>2, <4>2, ComposeFails
    <3>3. CASE todo' = Tail(todo) /\ op' = op
      BY <1>1, <2>5, <3>1, <3>3 DEF Prepare
    <3> QED
      BY <3>1, <3>2, <3>3 DEF Prepare
  <2>6. CASE todo = <<"up">>
    <3>1. Up
      BY <1>1, <2>6, Dispatch
    <3>2. CASE RetryOrGiveUp
      <4>1. host' \in {Live(host.file), Live("none"), host}
        BY <3>1 DEF Up, Checked
      <4>2. Fresh /\ orig.file # "none" => "old" \in {host'.file, host'.backup}
        BY <1>1, <2>6, <4>1 DEF Live
      <4> QED
        BY <1>1, <3>2, <4>2, ComposeFails
    <3>3. CASE todo' = Tail(todo) /\ op' = op
      BY <1>1, <2>6, <3>1, <3>3 DEF Up, With, Saved, Live
    <3> QED
      BY <3>1, <3>2, <3>3 DEF Up
  <2> QED
    BY <1>1, <2>1, <2>2, <2>3, <2>4, <2>5, <2>6
<1>2. CASE Command /\ op = "uninstall" /\ todo # <<>>
  <2>1. CASE todo = <<"down", "delete">>
    <3>1. Down
      BY <1>2, <2>1, Dispatch
    <3> QED
      BY <1>2, <2>1, <3>1 DEF Down, With, Saved, Live
  <2>2. CASE todo = <<"delete">>
    <3>1. Delete
      BY <1>2, <2>2, Dispatch
    <3> QED
      BY <1>2, <2>2, <3>1 DEF Delete, With, Saved, Live
  <2> QED
    BY <1>2, <2>1, <2>2
<1>3. CASE Command /\ todo = <<>>
  <2>1. CASE Executed
    BY <1>3, <2>1 DEF Executed
  <2>2. CASE Ended
    BY <1>3, <2>2 DEF Ended
  <2> QED
    BY <1>3, <2>1, <2>2, NothingLeft
<1>4. CASE Execute
  BY <1>4 DEF Execute
<1>5. CASE Overwrite
  BY <1>5 DEF Overwrite, With
<1>6. CASE Rollback
  BY <1>6 DEF Rollback
<1>7. CASE Uninstall
  <2>1. found' = host.file /\ host.file \in Content /\ "never" \notin Content
    BY <1>7, HostFields DEF Uninstall, Content
  <2> QED
    BY <1>7, <2>1 DEF Uninstall, UninstallScript, ComposeUninstall
<1>8. CASE Kill
  BY <1>8 DEF Kill
<1>9. CASE UNCHANGED vars
  BY <1>9 DEF vars
<1>10. todo # <<>> => op \in {"execute", "uninstall"}
  OBVIOUS
<1> QED
  BY Steps, <1>1, <1>2, <1>3, <1>4, <1>5, <1>6, <1>7, <1>8, <1>9, <1>10

-----------------------------------------------------------------------------
(* backup_state.                                                           *)

LEMMA BackupTails ==
  /\ Tail(<<"mkdir", "probeDir", "tar">>) = <<"probeDir", "tar">>
  /\ Tail(<<"probeDir", "tar">>) = <<"tar">>
  OBVIOUS

LEMMA BackupFails ==
  ASSUME Inv, plugin = "backup", op = "execute", RetryOrGiveUp,
         Fresh /\ orig.file # "none" => "old" \in {host'.file, host'.backup},
         host'.file = orig.file
  PROVE  (Course /\ OriginalSurvives /\ BackupPlaces)'
  BY DEF Inv, TypeOK, Course, OriginalSurvives, BackupPlaces, Fresh, Untouched, RetryOrGiveUp,
         setting, ExecuteScript, BackupExecute

LEMMA BackupStep ==
  ASSUME Inv, TypeOK', [Next]_vars, plugin = "backup"
  PROVE  (Course /\ OriginalSurvives /\ BackupPlaces)'
<1> USE StateFields, SettingKept, BackupTails
    DEF Inv, Course, OriginalSurvives, BackupPlaces, Fresh, Untouched, Kept, Held, Pushed,
        Stoppable, Valid, Checked, Unchecked, RetryOrGiveUp, setting, result, ExecuteScript,
        BackupExecute
<1>1. CASE Command /\ op = "execute" /\ todo # <<>>
  <2>1. CASE todo = <<"mkdir", "probeDir", "tar">>
    <3>1. Prepare
      BY <1>1, <2>1, Dispatch
    <3>2. CASE RetryOrGiveUp
      <4>1. host' \in {host}
        BY <3>1 DEF Prepare, Checked
      <4>2. Fresh /\ orig.file # "none" => "old" \in {host'.file, host'.backup}
        BY <1>1, <2>1, <4>1
      <4>3. host'.file = orig.file
        BY <1>1, <2>1, <4>1
      <4> QED
        BY <1>1, <3>2, <4>2, <4>3, BackupFails
    <3>3. CASE todo' = Tail(todo) /\ op' = op
      BY <1>1, <2>1, <3>1, <3>3 DEF Prepare
    <3> QED
      BY <3>1, <3>2, <3>3 DEF Prepare
  <2>2. CASE todo = <<"probeDir", "tar">>
    <3>1. ProbeDir
      BY <1>1, <2>2, Dispatch
    <3>2. CASE had' = TRUE /\ todo' = Tail(todo) /\ host.file # "none"
      BY <1>1, <2>2, <3>1, <3>2 DEF ProbeDir
    <3>3. CASE had' = FALSE /\ todo' = <<>>
      <4>1. ~blind' => ~blind /\ host.file = "none"
        BY <3>1, <3>3 DEF ProbeDir
      <4>2. UNCHANGED <<setting, host, op, attempt, result>>
        BY <3>1 DEF ProbeDir
      <4> QED
        BY <1>1, <2>2, <3>3, <4>1, <4>2
    <3> QED
      BY <3>1, <3>2, <3>3 DEF ProbeDir
  <2>3. CASE todo = <<"tar">>
    <3>1. Tar
      BY <1>1, <2>3, Dispatch
    <3>2. CASE RetryOrGiveUp
      <4>1. host' \in {Saved(host.file), Saved("torn"), host}
        BY <3>1 DEF Tar, Checked
      <4>2. Fresh /\ orig.file # "none" => "old" \in {host'.file, host'.backup}
        BY <1>1, <2>3, <4>1 DEF Saved
      <4>3. host'.file = orig.file
        BY <1>1, <2>3, <4>1 DEF Saved
      <4> QED
        BY <1>1, <3>2, <4>2, <4>3, BackupFails
    <3>3. CASE host' = Saved(host.file) /\ todo' = Tail(todo)
                 /\ UNCHANGED <<setting, had, op, attempt, blind, result>>
      BY <1>1, <2>3, <3>3 DEF Saved
    <3> QED
      BY <3>1, <3>2, <3>3 DEF Tar
  <2> QED
    BY <1>1, <2>1, <2>2, <2>3
<1>2. CASE Command /\ todo = <<>>
  <2>1. CASE Executed
    BY <1>2, <2>1 DEF Executed
  <2>2. CASE Ended
    BY <1>2, <2>2 DEF Ended
  <2> QED
    BY <1>2, <2>1, <2>2, NothingLeft
<1>3. CASE Execute
  BY <1>3 DEF Execute
<1>4. CASE Overwrite
  BY <1>4 DEF Overwrite, With
<1>5. CASE Rollback
  BY <1>5 DEF Rollback
<1>6. CASE Uninstall
  <2>1. found' = host.file /\ host.file \in Content /\ "never" \notin Content
    BY <1>6, HostFields DEF Uninstall, Content
  <2> QED
    BY <1>6, <2>1 DEF Uninstall, UninstallScript, BackupUninstall
<1>7. CASE Kill
  BY <1>7 DEF Kill
<1>8. CASE UNCHANGED vars
  BY <1>8 DEF vars
<1>9. todo # <<>> => op \in {"execute", "uninstall"}
  OBVIOUS
<1> QED
  BY Steps, <1>1, <1>2, <1>3, <1>4, <1>5, <1>6, <1>7, <1>8, <1>9

-----------------------------------------------------------------------------
(* The invariant holds, and the properties follow from it.                 *)

LEMMA InitInv == Init => Inv
<1> SUFFICES ASSUME Init PROVE Inv
  OBVIOUS
<1>1. PICK file \in {"none", "old"}, saved \in {"none", "stale"} :
        \E live \in IF plugin = "backup" THEN {"none"} ELSE {"none", file} :
          host = [file |-> file, backup |-> IF plugin = "container" THEN "none" ELSE saved,
                  live |-> live]
  BY DEF Init
<1>2. PICK live \in IF plugin = "backup" THEN {"none"} ELSE {"none", file} :
        host = [file |-> file, backup |-> IF plugin = "container" THEN "none" ELSE saved,
                live |-> live]
  BY <1>1
<1>3. host.file = file /\ host.live = live
  BY <1>2
<1>4. TypeOK
  <2>1. host \in HostState
    BY <1>2 DEF HostState, Content
  <2>2. /\ plugin \in Plugin /\ good \in BOOLEAN /\ orig = host /\ had = FALSE
        /\ op = "none" /\ attempt = 0 /\ found = "never" /\ blind = FALSE
        /\ outcome = "none"
    BY DEF Init
  <2>3. 0 \in 0..Retries
    BY ConfigPushAssumption DEF ConfigPushAssumption
  <2> QED
    BY <2>1, <2>2, <2>3 DEF TypeOK
<1>5. Course /\ OriginalSurvives
  BY <1>3 DEF Init, Course, OriginalSurvives
<1>6. plugin = "nginx" => NginxPlaces
  BY <1>3 DEF Init, NginxPlaces
<1>7. plugin = "systemd" => SystemdPlaces
  BY DEF Init, SystemdPlaces
<1>8. plugin = "container" => ContainerPlaces
  BY DEF Init, ContainerPlaces
<1>9. plugin = "compose" => ComposePlaces
  BY DEF Init, ComposePlaces
<1>10. plugin = "backup" => BackupPlaces
  BY <1>3 DEF Init, BackupPlaces
<1> QED
  BY <1>4, <1>5, <1>6, <1>7, <1>8, <1>9, <1>10 DEF Inv

LEMMA NextInv == Inv /\ [Next]_vars => Inv'
<1> SUFFICES ASSUME Inv, [Next]_vars PROVE Inv'
  OBVIOUS
<1>1. TypeOK'
  BY NextType DEF Inv
<1>2. plugin' = plugin /\ plugin \in {"nginx", "systemd", "container", "compose", "backup"}
  BY SettingKept, ConfigPushAssumption DEF Inv, TypeOK, ConfigPushAssumption
<1>3. CASE plugin = "nginx"
  BY <1>1, <1>2, <1>3, NginxStep DEF Inv
<1>4. CASE plugin = "systemd"
  BY <1>1, <1>2, <1>4, SystemdStep DEF Inv
<1>5. CASE plugin = "container"
  BY <1>1, <1>2, <1>5, ContainerStep DEF Inv
<1>6. CASE plugin = "compose"
  BY <1>1, <1>2, <1>6, ComposeStep DEF Inv
<1>7. CASE plugin = "backup"
  BY <1>1, <1>2, <1>7, BackupStep DEF Inv
<1> QED
  BY <1>2, <1>3, <1>4, <1>5, <1>6, <1>7

LEMMA Invariance == Spec => []Inv
<1>1. Init => Inv
  BY InitInv
<1>2. Inv /\ [Next]_vars => Inv'
  BY NextInv
<1> QED
  BY <1>1, <1>2, PTL DEF Spec

\* The host, and what the program knows of it, stay in their types, and no more
\* retries are made than the step allows.
THEOREM TypeCorrect == Spec => []TypeOK
<1>1. Inv => TypeOK
  BY DEF Inv
<1> QED
  BY <1>1, Invariance, PTL

\* When Execute of one of the five plugins returns nil the daemon runs exactly the
\* pushed configuration, and a backup holds what was there.
THEOREM SuccessIsLive == Spec => []SuccessMeansLive
<1>1. Inv => SuccessMeansLive
  <2> SUFFICES ASSUME Inv PROVE SuccessMeansLive
    OBVIOUS
  <2>1. plugin \in {"nginx", "systemd", "container", "compose", "backup"}
    BY ConfigPushAssumption DEF Inv, TypeOK, ConfigPushAssumption
  <2> QED
    BY <2>1 DEF Inv, SuccessMeansLive, NginxPlaces, SystemdPlaces, ContainerPlaces,
                ComposePlaces, BackupPlaces, Pushed, Held
<1> QED
  BY <1>1, Invariance, PTL

\* A first attempt never loses what was on the host, wherever it is broken off.
THEOREM OriginalIsKept == Spec => []OriginalSurvives
<1>1. Inv => OriginalSurvives
  BY DEF Inv
<1> QED
  BY <1>1, Invariance, PTL

\* An Uninstall whose commands all did their work leaves no file, and nothing that
\* runs if it found what it needs to stop it, after whatever went before it.
THEOREM UninstallIsClean == Spec => []UninstallRemoves
<1>1. Inv => UninstallRemoves
  BY DEF Inv, Course, UninstallRemoves
<1> QED
  BY <1>1, Invariance, PTL
=============================================================================
