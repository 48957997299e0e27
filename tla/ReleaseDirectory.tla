--------------------------- MODULE ReleaseDirectory ---------------------------
(***************************************************************************)
(* The release directories of one host and the live link, as the plugins   *)
(* transfer, symlink_switch and release_pruner leave them, deployment after *)
(* deployment, in the order of templates/systemd-seamless-deploy.yaml.     *)
(*                                                                         *)
(* Every command runs over SSH: it may fail, it may succeed while its      *)
(* answer is lost, and the program may be killed between any two.  A step  *)
(* starts again from its first command when it is retried.  Rollback is no *)
(* action here: Engine.Run calls it with a new DeployContext, in which the *)
(* plugins find none of the data Execute saved, and do nothing.            *)
(***************************************************************************)
EXTENDS Naturals, FiniteSets

CONSTANTS
  Version,   \* the versions that may be deployed, by their semantic order
  Keep,      \* the pruner's keep
  Retries,   \* the retries of each step
  NoLink,    \* link_path does not exist
  RealDir    \* link_path is a directory of its own

ASSUME ReleaseAssumption ==
  /\ Version \subseteq Nat /\ IsFiniteSet(Version)
  /\ Keep \in Nat \ {0}
  /\ Retries \in Nat
  /\ NoLink \notin Version /\ RealDir \notin Version /\ NoLink # RealDir

VARIABLES
  dirs,      \* dirs[v]: the directory of v is "none", "partial" or "full"
  link,      \* the version link_path points to, NoLink or RealDir
  at,        \* the command that comes next, or "idle"
  version,   \* the version of the running, or last, deployment
  attempt,   \* retries used up by the current step
  doomed,    \* directories the pruner still has to remove
  blind,     \* the pruner could not read the link
  outcome    \* of the running, or last, deployment

vars == <<dirs, link, at, version, attempt, doomed, blind, outcome>>
hostVars == <<dirs, link>>
pruneVars == <<doomed, blind>>

TransferCommands == {"put", "mkdir", "extract", "extracting", "chown"}
SwitchCommands == {"testLink", "removeLink", "testDir", "ln"}
PruneCommands == {"list", "readlink", "remove"}

\* Where the step of a command starts.
StepStart(c) ==
  CASE c \in TransferCommands -> "put"
    [] c \in SwitchCommands -> "testLink"
    [] c \in PruneCommands -> "list"
    [] OTHER -> c

Present == {v \in Version : dirs[v] # "none"}

\* test -d link_path: a link to a directory passes as well.
LinkIsDir == link = RealDir \/ link \in Present

Init ==
  /\ dirs = [v \in Version |-> "none"]
  /\ link \in {NoLink, RealDir}
  /\ at = "idle"
  /\ version \in Version
  /\ attempt = 0
  /\ doomed = {}
  /\ blind = FALSE
  /\ outcome = "none"

-----------------------------------------------------------------------------
(* What becomes of a step when one of its commands returns.                *)

RetryOrGiveUp ==
  IF attempt < Retries
  THEN /\ attempt' = attempt + 1
       /\ at' = StepStart(at)
       /\ UNCHANGED outcome
  ELSE /\ at' = "idle"
       /\ outcome' = "failed"
       /\ UNCHANGED attempt

\* The command did its work and its answer arrives, or is lost on the way.
Then(next) ==
  \/ /\ at' = next
     /\ attempt' = IF StepStart(next) = StepStart(at) THEN attempt ELSE 0
     /\ UNCHANGED outcome
  \/ RetryOrGiveUp

\* A command whose error is looked at does nothing.
CommandFails ==
  /\ at \in {"mkdir", "extracting", "removeLink", "ln"}
  /\ RetryOrGiveUp
  /\ UNCHANGED <<hostVars, version, pruneVars>>

-----------------------------------------------------------------------------
(* transfer.                                                               *)

\* deploy apply, or deploy rollback to any version.
Apply(v) ==
  /\ at = "idle"
  /\ version' = v
  /\ at' = "put"
  /\ attempt' = 0
  /\ outcome' = "running"
  /\ UNCHANGED <<hostVars, pruneVars>>

Put ==
  /\ at = "put"
  /\ Then("mkdir")
  /\ UNCHANGED <<hostVars, version, pruneVars>>

MkDir ==
  /\ at = "mkdir"
  /\ dirs' = [dirs EXCEPT ![version] = IF @ = "none" THEN "partial" ELSE @]
  /\ Then("extract")
  /\ UNCHANGED <<link, version, pruneVars>>

\* tar writes over what the directory holds.
Extract ==
  /\ at = "extract"
  /\ dirs' = [dirs EXCEPT ![version] = "partial"]
  /\ Then("extracting")
  /\ UNCHANGED <<link, version, pruneVars>>

\* Mutant of Extracted: the exit code of tar is not looked at.
ExtractedUnchecked ==
  /\ at = "extracting"
  /\ \E result \in {"partial", "full"} : dirs' = [dirs EXCEPT ![version] = result]
  /\ Then("chown")
  /\ UNCHANGED <<link, version, pruneVars>>

Extracted ==
  /\ at = "extracting"
  /\ dirs' = [dirs EXCEPT ![version] = "full"]
  /\ Then("chown")
  /\ UNCHANGED <<link, version, pruneVars>>

\* chown, and the removal of the archive, whose error is ignored.
Chown ==
  /\ at = "chown"
  /\ Then("testLink")
  /\ UNCHANGED <<hostVars, version, pruneVars>>

-----------------------------------------------------------------------------
(* symlink_switch.                                                         *)

\* A command that cannot be run counts as "not a directory".
TestLink ==
  /\ at = "testLink"
  /\ at' \in (IF LinkIsDir THEN {"removeLink", "testDir"} ELSE {"testDir"})
  /\ UNCHANGED <<hostVars, version, attempt, pruneVars, outcome>>

RemoveLink ==
  /\ at = "removeLink"
  /\ link' = NoLink
  /\ Then("testDir")
  /\ UNCHANGED <<dirs, version, pruneVars>>

TestDir ==
  /\ at = "testDir"
  /\ IF version \in Present THEN Then("ln") ELSE RetryOrGiveUp
  /\ UNCHANGED <<hostVars, version, pruneVars>>

\* Mutant of Ln: its exit code is not looked at.
LnUnchecked ==
  /\ at = "ln"
  /\ link' \in {link, IF link = RealDir THEN RealDir ELSE version}
  /\ Then("check")
  /\ UNCHANGED <<dirs, version, pruneVars>>

\* ln -sfn puts the link inside link_path where that is a directory of its own.
Ln ==
  /\ at = "ln"
  /\ link' = IF link = RealDir THEN RealDir ELSE version
  /\ Then("check")
  /\ UNCHANGED <<dirs, version, pruneVars>>

\* The service is restarted and looked at, by steps that touch no release.
Check ==
  /\ at = "check"
  /\ Then("list")
  /\ UNCHANGED <<hostVars, version, pruneVars>>

-----------------------------------------------------------------------------
(* release_pruner.                                                         *)

List ==
  /\ at = "list"
  /\ Then("readlink")
  /\ UNCHANGED <<hostVars, version, pruneVars>>

\* Mutant of Newest: one directory too few is kept.
NewestButOne == {v \in Present : Cardinality({w \in Present : w > v}) + 1 < Keep}

Newest == {v \in Present : Cardinality({w \in Present : w > v}) < Keep}

\* The target of the link is kept too, if the link can be read.
Readlink ==
  /\ at = "readlink"
  /\ at' = "remove"
  /\ \E unreadable \in BOOLEAN :
       /\ blind' = unreadable
       /\ doomed' = IF unreadable THEN Present \ Newest ELSE Present \ (Newest \cup {link})
  /\ UNCHANGED <<hostVars, version, attempt, outcome>>

\* An error of rm -rf is ignored; part of the directory may be left.
Remove(v) ==
  /\ at = "remove"
  /\ v \in doomed
  /\ \E left \in {"none", "partial", dirs[v]} : dirs' = [dirs EXCEPT ![v] = left]
  /\ doomed' = doomed \ {v}
  /\ UNCHANGED <<link, at, version, attempt, blind, outcome>>

Pruned ==
  /\ at = "remove"
  /\ doomed = {}
  /\ at' = "idle"
  /\ outcome' = "success"
  /\ blind' = FALSE
  /\ UNCHANGED <<hostVars, version, attempt, doomed>>

-----------------------------------------------------------------------------
\* The program is killed, or the run cancelled, and later deployments start
\* from what it leaves on the host.
Kill ==
  /\ at # "idle"
  /\ at' = "idle"
  /\ outcome' = "failed"
  /\ doomed' = {}
  /\ blind' = FALSE
  /\ UNCHANGED <<hostVars, version, attempt>>

Command ==
  \/ CommandFails
  \/ Put \/ MkDir \/ Extract \/ Extracted \/ Chown
  \/ TestLink \/ RemoveLink \/ TestDir \/ Ln
  \/ Check
  \/ List \/ Readlink \/ (\E v \in Version : Remove(v)) \/ Pruned

Next == (\E v \in Version : Apply(v)) \/ Command \/ Kill

Spec == Init /\ [][Next]_vars

-----------------------------------------------------------------------------
(* Properties.                                                             *)

\* The variables stay in their types.
TypeOK ==
  /\ dirs \in [Version -> {"none", "partial", "full"}]
  /\ link \in Version \cup {NoLink, RealDir}
  /\ at \in TransferCommands \cup SwitchCommands \cup PruneCommands \cup {"check", "idle"}
  /\ version \in Version
  /\ attempt \in 0..Retries
  /\ doomed \subseteq Version
  /\ blind \in BOOLEAN
  /\ outcome \in {"none", "running", "success", "failed"}

LiveIsComplete == link \in Version /\ dirs[link] = "full"

\* The link only ever comes to point to a completely unpacked release, and that
\* release stays complete, unless the same version is unpacked over it or the
\* pruner works without having read the link: no retry, no lost answer, no kill
\* and no later deployment breaks it.  (That there is a link at every moment is not
\* claimed: a switch removes the old one before it makes the new one.)
LiveStaysComplete ==
  [][ /\ link' \in Version \ {link} => LiveIsComplete'
      /\ LiveIsComplete /\ link' = link /\ ~LiveIsComplete' =>
           \/ at = "extract" /\ version = link
           \/ at = "remove" /\ blind ]_vars

\* A deployment that succeeds has put its version live, also when commands were
\* repeated; only a real directory in the place of the link can outlast it.
SuccessIsLive == outcome = "success" => link \in {version, RealDir}

\* Whatever is on the host, a directory is removed only if as many newer ones as
\* the pruner must keep remain.
NewestAreKept ==
  [][\A v \in Version : v \in Present /\ v \notin Present' =>
       Cardinality({w \in Present' : w > v}) >= Keep]_vars

=============================================================================
