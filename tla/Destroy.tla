------------------------------- MODULE Destroy -------------------------------
(***************************************************************************)
(* RunDestroy: the steps of a pipeline are uninstalled in reverse order,   *)
(* one after the other, up to the first error.  Composed with the zone of  *)
(* DnsRecords, which a dns_record step of the pipeline maintains: any      *)
(* deployments run before, and a destroy may be repeated.                  *)
(***************************************************************************)
EXTENDS DnsRecords, Sequences

CONSTANTS
  Order,        \* the steps, in the order of ValidateDAG
  Needs,        \* Needs[s]: the steps that s needs
  Unregistered, \* steps of an unknown type
  Conditional,  \* steps with run_if
  DnsStep,      \* the step of type dns_record
  Strict        \* steps that answer nil only when every host did as told: those of type
                \* remote_command with an uninstall_cmd, if no step tolerates failures

DestroyStep == {Order[i] : i \in 1..Len(Order)}

\* Names are unique over the phases, and the order is one of ValidateDAG.
ASSUME DestroyAssumption ==
  /\ Order \in Seq(DestroyStep)
  /\ \A i, j \in 1..Len(Order) : Order[i] = Order[j] => i = j
  /\ \A i \in 1..Len(Order) : Needs[Order[i]] \subseteq {Order[j] : j \in 1..(i - 1)}
  /\ Unregistered \subseteq DestroyStep \ {DnsStep} /\ Conditional \subseteq DestroyStep
  /\ DnsStep \in DestroyStep /\ Strict \subseteq DestroyStep \ (Unregistered \cup {DnsStep})

VARIABLES
  pc,        \* "deployed", "running", "dns" (inside the plugin dns_record), "returned"
  left,      \* how many steps of Order are left
  dry,       \* opt.DryRun
  full,      \* opt.FullPurge
  fate,      \* fate[s]: "none", "uninstalled" (answered nil), "skipped", "failed"
  deployed,  \* steps of which something is on the hosts
  bus,       \* the dispatcher is "open" or "stopped"
  result     \* of RunDestroy

destroyVars == <<pc, left, dry, full, fate, deployed, bus, result>>
vars == <<dnsVars, destroyVars>>
options == <<dry, full>>

Init ==
  /\ DnsInit
  /\ pc = "deployed"
  /\ left = 0
  /\ dry = FALSE /\ full = FALSE
  /\ fate = [s \in DestroyStep |-> "none"]
  /\ deployed = DestroyStep \ {DnsStep}
  /\ bus = "open"
  /\ result = "none"

\* The dns_record step of a deployment.
Deploy ==
  /\ pc = "deployed"
  /\ \E ips \in SUBSET Ip : DnsExecute(ips)
  /\ UNCHANGED destroyVars

\* A destroy starts, on a bus of its own; a bad pipeline or no temporary
\* directory end it before anything is stopped.
Start ==
  /\ pc \in {"deployed", "returned"} /\ at = "idle"
  /\ dry' \in BOOLEAN /\ full' \in BOOLEAN
  /\ left' = Len(Order)
  /\ fate' = [s \in DestroyStep |-> "none"]
  /\ bus' = "open"
  /\ \/ pc' = "running" /\ result' = "none"
     \/ pc' = "returned" /\ result' = "refused"
  /\ UNCHANGED <<dnsVars, deployed>>

\* Mutant of Current: the steps are walked in the order of deployment.
CurrentForwards == Order[Len(Order) + 1 - left]

Current == Order[left]

\* Mutant of EndStep: the loop goes on after an error.
EndStepGoingOn(f) ==
  /\ fate' = [fate EXCEPT ![Current] = f]
  /\ left' = left - 1
  /\ pc' = "running"
  /\ UNCHANGED <<bus, result>>

\* The uninstall of a step has ended; an error of it stops the bus and returns.
EndStep(f) ==
  /\ fate' = [fate EXCEPT ![Current] = f]
  /\ left' = left - 1
  /\ IF f = "failed"
     THEN pc' = "returned" /\ bus' = "stopped" /\ result' = "error"
     ELSE pc' = "running" /\ UNCHANGED <<bus, result>>

\* An unknown type is passed over, and a step whose run_if is false.
Skip ==
  /\ pc = "running" /\ left > 0
  /\ Current \in Unregistered \cup Conditional
  /\ EndStep("skipped")
  /\ UNCHANGED <<dnsVars, options, deployed>>

\* Roles that do not resolve: RunDestroy returns and leaves the bus running.
Unresolved ==
  /\ pc = "running" /\ left > 0
  /\ Current \notin Unregistered
  /\ pc' = "returned"
  /\ result' = "unresolved"
  /\ UNCHANGED <<dnsVars, left, options, fate, deployed, bus>>

\* A step that works on hosts.  Most plugins drop the errors of their commands and
\* answer nil whatever is left on the hosts; a cancelled context can fail any.  A
\* Strict step returns them.  In a dry run every command is only reported, except
\* that a Strict step runs its own for real: it makes an SSH executor of its own.
UninstallStep ==
  /\ pc = "running" /\ left > 0
  /\ Current \notin Unregistered \cup {DnsStep}
  /\ \E f \in {"uninstalled", "failed"} :
       /\ EndStep(f)
       /\ deployed' \in {deployed, deployed \ {Current}}
       /\ IF Current \in Strict
          THEN f = "uninstalled" => Current \notin deployed'
          ELSE dry => deployed' = deployed
  /\ UNCHANGED <<dnsVars, options>>

\* The step that edits the zone talks to the provider itself, also in a dry run.
EnterDns ==
  /\ pc = "running" /\ left > 0
  /\ Current = DnsStep
  /\ DnsUninstall(full)
  /\ pc' = "dns"
  /\ UNCHANGED <<left, options, fate, deployed, bus, result>>

LeaveDns ==
  /\ pc = "dns" /\ at = "idle"
  /\ EndStep(IF answer = "error" THEN "failed" ELSE "uninstalled")
  /\ UNCHANGED <<dnsVars, options, deployed>>

Complete ==
  /\ pc = "running" /\ left = 0
  /\ pc' = "returned" /\ bus' = "stopped" /\ result' = "ok"
  /\ UNCHANGED <<dnsVars, left, options, fate, deployed>>

DestroyMoves == Skip \/ Unresolved \/ UninstallStep \/ EnterDns \/ LeaveDns \/ Complete

Next ==
  \/ Deploy \/ Start \/ DestroyMoves
  \/ (DnsCall \/ Foreign) /\ UNCHANGED destroyVars

Spec == Init /\ [][Next]_vars

-----------------------------------------------------------------------------
(* Properties.                                                             *)

\* The variables stay in their types.
TypeOK ==
  /\ DnsTypeOK
  /\ pc \in {"deployed", "running", "dns", "returned"}
  /\ left \in 0..Len(Order) /\ dry \in BOOLEAN /\ full \in BOOLEAN
  /\ fate \in [DestroyStep -> {"none", "uninstalled", "skipped", "failed"}]
  /\ deployed \subseteq DestroyStep
  /\ bus \in {"open", "stopped"}
  /\ result \in {"none", "ok", "error", "refused", "unresolved"}

\* Nothing is uninstalled while what needs it is still to be: when the Uninstall of a
\* step has been called, those of all that need it, in this destroy, have answered nil
\* or were skipped, and none failed.
NeededOutlivesNeedy ==
  \A s \in DestroyStep : fate[s] \in {"uninstalled", "failed"} =>
    \A t \in DestroyStep : s \in Needs[t] => fate[t] \in {"uninstalled", "skipped"}

\* What "Destroy completed" means: the Uninstall of every step has answered nil, but
\* of those that are of an unknown type or have a run_if; the steps whose answer can be
\* trusted have left the hosts, in a dry run too; and where the zone was purged no
\* record of the name is left, if its listing was complete and nobody else edited the
\* zone since.
CompletedMeansUninstalled ==
  pc = "returned" /\ result = "ok" =>
    /\ \A s \in DestroyStep :
         \/ fate[s] = "uninstalled" /\ (s \in Strict => s \notin deployed)
         \/ fate[s] = "skipped" /\ s \in Unregistered \cup Conditional
    /\ answer = "purged" /\ whole /\ foreign = {} => OwnRecords = {}

\* Of the records that no one else has touched since the listing, the plugin takes
\* or edits only those of its own name that point to no wanted address, and in a
\* destroy without --full none at all; what it adds points to a wanted address.
\* (A record that someone touched is taken with whatever it holds by then.)
OnlyWrongRemoved ==
  [][PluginActs =>
       /\ \A r \in Record : zone'[r] # zone[r] =>
            \/ zone[r] = "none" /\ zone'[r] \in wanted
            \/ zone[r] \in Ip \ wanted
            \/ r \in foreign
       /\ pc = "dns" /\ ~full => zone' = zone]_vars
=============================================================================
