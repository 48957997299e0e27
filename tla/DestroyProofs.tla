---------------------------- MODULE DestroyProofs ----------------------------
(***************************************************************************)
(* Invariants of Destroy with the zone it purges, for any pipeline, any    *)
(* addresses and any page; and of DagSort, which makes the order RunDestroy *)
(* walks down (and Run walks up), for any pipeline.                        *)
(***************************************************************************)
EXTENDS Integers, Destroy, IncludeExpander, FiniteSetTheorems, TLAPS

\* Walking down the order, the steps above are done and those below untouched.
Walk ==
  pc \in {"running", "dns"} =>
    \A i \in 1..Len(Order) :
      /\ i > left => fate[Order[i]] \in {"uninstalled", "skipped"}
      /\ i <= left => fate[Order[i]] = "none"

\* A step whose answer can be trusted has left the hosts, and only those of an unknown
\* type or with a run_if are skipped.
Removed ==
  /\ \A s \in DestroyStep :
       /\ fate[s] = "uninstalled" /\ s \in Strict => s \notin deployed
       /\ fate[s] = "skipped" => s \in Unregistered \cup Conditional
  /\ result = "ok" => \A s \in DestroyStep : fate[s] \in {"uninstalled", "skipped"}

\* Whose call of the plugin is under way.
Turns ==
  /\ pc \in {"running", "returned"} => at = "idle"
  /\ pc = "dns" => at \in {"idle", "listAll", "purge"} /\ left > 0 /\ Current = DnsStep
  /\ pc = "dns" /\ ~full => at = "idle"
  /\ pc = "deployed" => at \in {"idle", "list", "ensure"}
  /\ pc \in {"deployed", "running", "dns"} => result = "none"
  /\ at \in {"listAll", "purge"} => wanted = {}

\* What the plugin has left to do, and what it found, is about records of its
\* name that point to no wanted address, unless someone touched them, and to wanted
\* addresses.
Sorted ==
  /\ \A r \in doomed : zone[r] \in Ip \ wanted \/ r \in foreign
  /\ have \subseteq wanted
  /\ at \in {"idle", "list", "listAll"} => doomed = {} /\ have = {}

\* What the plugin believes of the zone is so, unless someone else edited it.
Informed ==
  foreign = {} =>
    /\ at = "ensure" => \A ip \in have : \E r \in OwnRecords : zone[r] = ip
    /\ at = "ensure" /\ provider = "aliyun" /\ whole =>
         \A r \in OwnRecords : r \in doomed \/ zone[r] \in wanted
    /\ at = "purge" /\ whole => OwnRecords \subseteq doomed
    /\ at = "idle" /\ answer = "purged" /\ whole => OwnRecords = {}

Inv == /\ TypeOK /\ Walk /\ Removed /\ Turns /\ Sorted /\ Informed
       /\ NeededOutlivesNeedy /\ EnsuredCovers

-----------------------------------------------------------------------------
(* The plugin at work.                                                     *)

\* What is said of the steps stays while the plugin or someone else is at work.
LEMMA StepsStay ==
  ASSUME Inv, UNCHANGED destroyVars
  PROVE  Walk' /\ Removed' /\ NeededOutlivesNeedy'
  BY DEF Inv, destroyVars, Walk, Removed, NeededOutlivesNeedy

\* Whatever a call did, an error ends the plugin and claims nothing.
LEMMA ErrorStep ==
  ASSUME Inv, at # "idle", Answer("error"), zone' \in [Record -> Content], foreign' \subseteq Record,
         whole' \in BOOLEAN, UNCHANGED <<provider, wanted, destroyVars>>
  PROVE  Inv'
<1> USE DEF Inv, Answer
<1>1. TypeOK'
  BY DEF TypeOK, DnsTypeOK, destroyVars
<1>2. Walk' /\ Removed' /\ NeededOutlivesNeedy'
  BY StepsStay
<1>3. Turns'
  BY DEF Turns, destroyVars, Current
<1>4. Sorted' /\ Informed' /\ EnsuredCovers'
  BY DEF Sorted, Informed, EnsuredCovers
<1> QED
  BY <1>1, <1>2, <1>3, <1>4

\* A listing holds records of the plugin's name only.
LEMMA ListingIsOwn ==
  ASSUME NEW s, Listing(s)
  PROVE  s \subseteq OwnRecords
  BY DEF Listing

\* The listing tells what is wrong and what is there.
LEMMA ListStep ==
  ASSUME Inv, List, UNCHANGED destroyVars
  PROVE  Inv'
<1> USE DEF Inv
<1>1. CASE Fails /\ UNCHANGED <<whole, foreign>>
  BY <1>1, ErrorStep DEF List, Fails, TypeOK, DnsTypeOK, destroyVars
<1>2. CASE ~(Fails /\ UNCHANGED <<whole, foreign>>)
  <2>1. PICK s \in SUBSET Record :
          /\ Listing(s)
          /\ doomed' = {r \in s : zone[r] \notin wanted}
          /\ have' = wanted \cap {zone[r] : r \in s}
          /\ whole' = (OwnRecords \subseteq s)
          /\ foreign' = {}
          /\ at' = IF at = "listAll" THEN "purge" ELSE "ensure"
          /\ UNCHANGED <<zone, answer>>
    BY <1>2 DEF List
  <2>2. at \in {"list", "listAll"} /\ UNCHANGED <<provider, wanted>>
    BY DEF List
  <2>3. s \subseteq OwnRecords
    BY <2>1, ListingIsOwn
  <2>4. TypeOK'
    BY <2>1, <2>2, <2>3 DEF TypeOK, DnsTypeOK, destroyVars
  <2>5. Walk' /\ Removed' /\ NeededOutlivesNeedy'
    BY StepsStay
  <2>6. Turns'
    BY <2>1, <2>2 DEF Turns, destroyVars, Current
  <2>7. Sorted' /\ EnsuredCovers'
    BY <2>1, <2>2, <2>3 DEF Sorted, EnsuredCovers, OwnRecords
  <2>8. OwnRecords' = OwnRecords
    BY <2>1 DEF OwnRecords
  <2>9. Informed'
    BY <2>1, <2>2, <2>3, <2>8 DEF Informed, Turns
  <2> QED
    BY <2>4, <2>5, <2>6, <2>7, <2>9
<1> QED
  BY <1>1, <1>2

\* A call that put a content into record r and was answered.
LEMMA AcceptedStep ==
  ASSUME Inv, at \in {"ensure", "purge"},
         NEW r \in Record, NEW content \in Content,
         zone' = [zone EXCEPT ![r] = content],
         doomed' = doomed \ {r}, have \subseteq have', have' \subseteq wanted,
         \A ip \in have' \ have : ip = content /\ ip \in Ip,
         content = "none" \/ (at = "ensure" /\ content \in wanted),
         zone[r] \notin wanted \/ foreign # {},
         UNCHANGED <<at, answer, provider, wanted, whole, foreign, destroyVars>>
  PROVE  Inv'
<1> USE DEF Inv
<1>1. zone \in [Record -> Content] /\ zone' \in [Record -> Content] /\ zone'[r] = content
      /\ \A q \in Record \ {r} : zone'[q] = zone[q]
  BY DEF TypeOK, DnsTypeOK
<1>2. TypeOK'
  BY <1>1 DEF TypeOK, DnsTypeOK, destroyVars
<1>3. Walk' /\ Removed' /\ NeededOutlivesNeedy'
  BY StepsStay
<1>4. Turns'
  BY DEF Turns, destroyVars, Current
<1>5. Sorted' /\ EnsuredCovers'
  BY <1>1 DEF Sorted, EnsuredCovers, TypeOK, DnsTypeOK
<1>6. Informed'
  <2> SUFFICES ASSUME foreign = {}
               PROVE  /\ at = "ensure" => \A ip \in have' : \E q \in OwnRecords' : zone'[q] = ip
                      /\ at = "ensure" /\ provider = "aliyun" /\ whole =>
                           \A q \in OwnRecords' : q \in doomed' \/ zone'[q] \in wanted
                      /\ at = "purge" /\ whole => OwnRecords' \subseteq doomed'
    BY DEF Informed
  <2>1. ASSUME at = "ensure", NEW ip \in have' PROVE \E q \in OwnRecords' : zone'[q] = ip
    <3>1. CASE ip \in have
      <4>1. PICK q \in OwnRecords : zone[q] = ip
        BY <2>1, <3>1 DEF Informed
      <4>2. q # r /\ q \in Record
        BY <3>1, <4>1 DEF OwnRecords, Sorted
      <4> QED
        BY <1>1, <4>1, <4>2 DEF OwnRecords
    <3>2. CASE ip \notin have
      BY <1>1, <2>1, <3>2 DEF OwnRecords
    <3> QED
      BY <3>1, <3>2
  <2>2. ASSUME NEW q \in OwnRecords' PROVE (q = r /\ content \in wanted) \/ (q # r /\ q \in OwnRecords /\ zone'[q] = zone[q])
    BY <1>1, <2>2, DnsAssumption DEF OwnRecords, DnsAssumption
  <2>3. ASSUME at = "ensure", provider = "aliyun", whole, NEW q \in OwnRecords'
        PROVE  q \in doomed' \/ zone'[q] \in wanted
    BY <1>1, <2>2, <2>3 DEF Informed
  <2>4. ASSUME at = "purge", whole PROVE OwnRecords' \subseteq doomed'
    BY <2>2, <2>4 DEF Informed, Turns
  <2> QED
    BY <2>1, <2>3, <2>4
<1> QED
  BY <1>2, <1>3, <1>4, <1>5, <1>6

\* A record stays one, whatever is put into it.
LEMMA ZoneTyped ==
  ASSUME Inv, NEW r \in Record, NEW content \in Content
  PROVE  [zone EXCEPT ![r] = content] \in [Record -> Content]
  BY DEF Inv, TypeOK, DnsTypeOK

\* A wrong record is deleted, or purged.
LEMMA DeleteStep ==
  ASSUME Inv, NEW r \in doomed, DeleteWrong(r) \/ Purge(r), UNCHANGED destroyVars
  PROVE  Inv'
<1>1. at \in {"ensure", "purge"} /\ Call(r \in Existing, r, "none", have)
  BY DEF DeleteWrong, Purge
<1>2. UNCHANGED <<provider, wanted, whole, foreign, destroyVars>>
  BY DEF DeleteWrong, Purge
<1>3. /\ r \in Record /\ "none" \in Content /\ have \subseteq wanted
      /\ zone[r] \notin wanted \/ foreign # {}
      /\ zone \in [Record -> Content] /\ foreign \subseteq Record /\ whole \in BOOLEAN
  BY DEF Inv, TypeOK, DnsTypeOK, Sorted, Content
<1>4. CASE Answer("error") /\ zone' \in {zone, [zone EXCEPT ![r] = "none"]}
  BY <1>1, <1>2, <1>3, <1>4, ErrorStep, ZoneTyped
<1>5. CASE /\ zone' = [zone EXCEPT ![r] = "none"] /\ doomed' = doomed \ {r} /\ have' = have
           /\ UNCHANGED <<at, answer>>
  BY <1>1, <1>2, <1>3, <1>5, AcceptedStep
<1> QED
  BY <1>1, <1>4, <1>5 DEF Call, Fails

\* A wrong record of Cloudflare gets a wanted address.
LEMMA RepurposeStep ==
  ASSUME Inv, NEW r \in doomed, NEW ip \in wanted, Repurpose(r, ip), UNCHANGED destroyVars
  PROVE  Inv'
<1>1. /\ at = "ensure"
      /\ UNCHANGED <<provider, wanted, whole, foreign, destroyVars>>
  BY DEF Repurpose
<1>2. /\ r \in Record /\ ip \in Ip /\ ip \in Content /\ have \subseteq wanted
      /\ zone[r] \notin wanted \/ foreign # {}
      /\ zone \in [Record -> Content] /\ foreign \subseteq Record /\ whole \in BOOLEAN
  BY DEF Inv, TypeOK, DnsTypeOK, Sorted, Content
<1>3. CASE Answer("error") /\ zone' \in {zone, [zone EXCEPT ![r] = ip]}
  BY <1>1, <1>2, <1>3, ErrorStep, ZoneTyped
<1>4. CASE /\ zone' = [zone EXCEPT ![r] = ip] /\ doomed' = doomed \ {r} /\ have' = have \cup {ip}
           /\ UNCHANGED <<at, answer>>
  BY <1>1, <1>2, <1>4, AcceptedStep
<1> QED
  BY <1>3, <1>4 DEF Repurpose, Call, Fails

\* A new record is added.
LEMMA AddStep ==
  ASSUME Inv, NEW ip \in wanted, Add(ip), UNCHANGED destroyVars
  PROVE  Inv'
<1>1. at = "ensure" /\ doomed = {} /\ UNCHANGED <<provider, wanted, whole, foreign, destroyVars>>
  BY DEF Add
<1>2. /\ ip \in Ip /\ ip \in Content /\ have \subseteq wanted /\ wanted \subseteq Ip
      /\ zone \in [Record -> Content] /\ foreign \subseteq Record /\ whole \in BOOLEAN
  BY DEF Inv, TypeOK, DnsTypeOK, Sorted, Content
<1>3. CASE Answer("error") /\ UNCHANGED zone
  BY <1>1, <1>2, <1>3, ErrorStep
<1>4. ASSUME NEW r \in Record \ Existing, Call(ip \notin Own, r, ip, have \cup {ip})
      PROVE  Inv'
  <2>1. zone[r] \notin wanted
    BY <1>2, DnsAssumption DEF Existing, DnsAssumption
  <2>2. CASE Answer("error") /\ zone' \in {zone, [zone EXCEPT ![r] = ip]}
    BY <1>1, <1>2, <2>2, ErrorStep, ZoneTyped
  <2>3. CASE /\ zone' = [zone EXCEPT ![r] = ip] /\ doomed' = doomed \ {r} /\ have' = have \cup {ip}
             /\ UNCHANGED <<at, answer>>
    BY <1>1, <1>2, <2>1, <2>3, AcceptedStep
  <2> QED
    BY <1>4, <2>2, <2>3 DEF Call, Fails
<1> QED
  BY <1>3, <1>4 DEF Add, Fails

\* The plugin returns, with a zone that is as it says.
LEMMA ReturnStep ==
  ASSUME Inv, Ensured \/ Purged, UNCHANGED destroyVars
  PROVE  Inv'
<1> USE DEF Inv, Answer, Ensured, Purged
<1>1. TypeOK'
  BY DEF TypeOK, DnsTypeOK, destroyVars
<1>2. Walk' /\ Removed' /\ NeededOutlivesNeedy'
  BY StepsStay
<1>3. Turns'
  BY DEF Turns, destroyVars, Current
<1>4. Sorted' /\ Informed'
  BY DEF Sorted, Informed, OwnRecords
<1>5. EnsuredCovers'
  <2> SUFFICES ASSUME Ensured, foreign = {}
               PROVE  wanted \subseteq Own /\ (provider = "aliyun" /\ whole => Own = wanted)
    BY DEF EnsuredCovers, Own, OwnRecords
  <2>1. \A ip \in wanted : ip \in Own
    BY DEF Informed, Own
  <2>2. provider = "aliyun" /\ whole => \A ip \in Own : ip \in wanted
    BY DEF Informed, Own
  <2> QED
    BY <2>1, <2>2
<1> QED
  BY <1>1, <1>2, <1>3, <1>4, <1>5

\* Someone else edits the zone.
LEMMA ForeignStep ==
  ASSUME Inv, Foreign, UNCHANGED destroyVars
  PROVE  Inv'
<1> USE DEF Inv, listing
<1>1. PICK r \in Record, content \in Content :
        /\ zone' = [zone EXCEPT ![r] = content]
        /\ foreign' = foreign \cup {r}
        /\ UNCHANGED <<provider, at, wanted, listing, answer>>
  BY DEF Foreign
<1>2. TypeOK'
  BY <1>1 DEF TypeOK, DnsTypeOK, destroyVars
<1>3. Walk' /\ Removed' /\ NeededOutlivesNeedy'
  BY StepsStay
<1>4. Turns'
  BY <1>1 DEF Turns, destroyVars, Current
<1>5. Sorted'
  BY <1>1 DEF Sorted, TypeOK, DnsTypeOK
<1>6. Informed' /\ EnsuredCovers'
  BY <1>1 DEF Informed, EnsuredCovers
<1> QED
  BY <1>2, <1>3, <1>4, <1>5, <1>6

\* Every step of the plugin preserves the invariant.
LEMMA DnsCallStep ==
  ASSUME Inv, DnsCall, UNCHANGED destroyVars
  PROVE  Inv'
  BY ListStep, DeleteStep, RepurposeStep, AddStep, ReturnStep DEF DnsCall

-----------------------------------------------------------------------------
(* The walk over the steps.                                                *)

\* The zone is as it was, as far as the plugin knows it.
LEMMA ZoneStays ==
  ASSUME Inv, UNCHANGED dnsVars
  PROVE  DnsTypeOK' /\ Sorted' /\ Informed' /\ EnsuredCovers'
  BY DEF Inv, TypeOK, dnsVars, DnsTypeOK, Sorted, Informed, EnsuredCovers, Own, OwnRecords

\* A deployment lets the plugin look at the zone.
LEMMA DeployStep ==
  ASSUME Inv, Deploy
  PROVE  Inv'
<1> USE DEF Inv, Deploy, DnsExecute, Answer
<1>1. TypeOK'
  BY DEF TypeOK, DnsTypeOK, destroyVars, Sorted
<1>2. Walk' /\ Removed' /\ NeededOutlivesNeedy'
  BY StepsStay
<1>3. at = "idle" /\ at' \in {"idle", "list"} /\ pc' = pc /\ pc = "deployed" /\ result' = result
  BY DEF destroyVars
<1>4. Turns'
  BY <1>3 DEF Turns
<1>5. Sorted'
  BY DEF Sorted, DnsTypeOK, TypeOK
<1>6. Informed' /\ EnsuredCovers'
  BY <1>3 DEF Informed, EnsuredCovers, Own, OwnRecords
<1> QED
  BY <1>1, <1>2, <1>4, <1>5, <1>6

\* A destroy starts over with no step done.
LEMMA StartStep ==
  ASSUME Inv, Start
  PROVE  Inv'
<1> USE DEF Inv, Start
<1>1. DnsTypeOK' /\ Sorted' /\ Informed' /\ EnsuredCovers'
  BY ZoneStays
<1>2. TypeOK'
  BY <1>1, DestroyAssumption DEF TypeOK, DestroyAssumption
<1>3. Turns'
  BY DEF Turns, dnsVars
<1>4. Walk' /\ Removed' /\ NeededOutlivesNeedy'
  BY DEF Walk, Removed, NeededOutlivesNeedy, DestroyStep, TypeOK
<1> QED
  BY <1>1, <1>2, <1>3, <1>4

\* The step at the cursor is untouched, and what needs it is above it and done.
LEMMA CurrentIsNext ==
  ASSUME Inv, pc \in {"running", "dns"}, left > 0
  PROVE  /\ left \in 1..Len(Order) /\ Current \in DestroyStep /\ Current = Order[left]
         /\ fate[Current] = "none"
         /\ \A i \in 1..Len(Order) : Order[i] = Current <=> i = left
         /\ \A t \in DestroyStep : Current \in Needs[t] => fate[t] \in {"uninstalled", "skipped"}
<1>1. left \in 1..Len(Order) /\ Len(Order) \in Nat
  BY DestroyAssumption DEF Inv, TypeOK, DestroyAssumption
<1>2. \A i \in 1..Len(Order) : Order[i] = Current <=> i = left
  BY <1>1, DestroyAssumption DEF DestroyAssumption, Current
<1>3. Current \in DestroyStep /\ fate[Current] = "none"
  BY <1>1 DEF Inv, Walk, Current, DestroyStep
<1>4. ASSUME NEW t \in DestroyStep, Current \in Needs[t] PROVE fate[t] \in {"uninstalled", "skipped"}
  <2>1. PICK i \in 1..Len(Order) : t = Order[i]
    BY DEF DestroyStep
  <2>2. PICK j \in 1..(i - 1) : Current = Order[j]
    <3>1. Needs[t] \subseteq {Order[j] : j \in 1..(i - 1)}
      BY <2>1, DestroyAssumption DEF DestroyAssumption
    <3> QED
      BY <1>4, <3>1
  <2>3. j \in 1..Len(Order) /\ j < i
    BY <1>1, <2>1, <2>2
  <2>4. i > left
    BY <1>1, <1>2, <2>2, <2>3
  <2> QED
    BY <2>1, <2>4 DEF Inv, Walk
<1> QED
  BY <1>1, <1>2, <1>3, <1>4 DEF Current

\* The end of a step keeps the order, whether it is gone, skipped or failed.
LEMMA EndStepKeeps ==
  ASSUME Inv, pc \in {"running", "dns"}, left > 0, at' = "idle",
         NEW f \in {"uninstalled", "skipped", "failed"}, EndStep(f),
         f = "uninstalled" /\ Current \in Strict => Current \notin deployed',
         f = "skipped" => Current \in Unregistered \cup Conditional,
         deployed' \subseteq deployed,
         UNCHANGED <<dry, full>>
  PROVE  /\ pc' \in {"running", "returned"} /\ left' \in 0..Len(Order)
         /\ fate' \in [DestroyStep -> {"none", "uninstalled", "skipped", "failed"}]
         /\ bus' \in {"open", "stopped"} /\ result' \in {"none", "error"}
         /\ result' = "none" \/ pc' = "returned"
         /\ Walk' /\ Removed' /\ NeededOutlivesNeedy'
<1> USE CurrentIsNext DEF Inv, EndStep
<1>1. /\ left \in 1..Len(Order) /\ left' = left - 1
      /\ result = "none" /\ result' \in {"none", "error"}
      /\ f = "failed" => pc' = "returned" /\ bus' = "stopped" /\ result' = "error"
      /\ f # "failed" => pc' = "running" /\ bus' = bus /\ result' = result
  BY DEF Turns
<1>2. fate' = [fate EXCEPT ![Current] = f] /\ fate \in [DestroyStep -> {"none", "uninstalled", "skipped", "failed"}]
  BY DEF TypeOK
<1>3. Walk'
  BY <1>1, <1>2 DEF Walk, DestroyStep
<1>4. Removed'
  BY <1>1, <1>2 DEF Removed, TypeOK
<1>5. NeededOutlivesNeedy'
  <2> SUFFICES ASSUME NEW s \in DestroyStep, fate'[s] \in {"uninstalled", "failed"},
                      NEW t \in DestroyStep, s \in Needs[t]
               PROVE  fate'[t] \in {"uninstalled", "skipped"}
    BY DEF NeededOutlivesNeedy
  <2>1. fate[t] \in {"uninstalled", "skipped"}
    BY <1>2 DEF NeededOutlivesNeedy
  <2> QED
    BY <1>2, <2>1
<1> QED
  BY <1>1, <1>2, <1>3, <1>4, <1>5 DEF TypeOK

\* Every way a step is passed or uninstalled preserves the invariant.
LEMMA MoveStep ==
  ASSUME Inv, DestroyMoves
  PROVE  Inv'
<1> USE DEF Inv
<1>1. CASE Skip \/ UninstallStep \/ LeaveDns
  <2>1. pc \in {"running", "dns"} /\ left > 0 /\ at = "idle" /\ UNCHANGED dnsVars /\ UNCHANGED <<dry, full>>
    BY <1>1 DEF Skip, UninstallStep, LeaveDns, Turns, options
  <2>2. PICK f \in {"uninstalled", "skipped", "failed"} :
          /\ EndStep(f)
          /\ f = "uninstalled" /\ Current \in Strict => Current \notin deployed'
          /\ f = "skipped" => Current \in Unregistered \cup Conditional
          /\ deployed' \subseteq deployed
    <3>1. CASE Skip
      BY <3>1, DestroyAssumption DEF Skip
    <3>2. CASE UninstallStep
      BY <3>2 DEF UninstallStep
    <3>3. CASE LeaveDns
      BY <3>3, DestroyAssumption DEF LeaveDns, Turns, DestroyAssumption
    <3> QED
      BY <1>1, <3>1, <3>2, <3>3
  <2>3. /\ pc' \in {"running", "returned"} /\ left' \in 0..Len(Order)
        /\ fate' \in [DestroyStep -> {"none", "uninstalled", "skipped", "failed"}]
        /\ bus' \in {"open", "stopped"} /\ result' \in {"none", "error"}
        /\ result' = "none" \/ pc' = "returned"
        /\ Walk' /\ Removed' /\ NeededOutlivesNeedy'
    BY <2>1, <2>2, EndStepKeeps DEF dnsVars
  <2>4. DnsTypeOK' /\ Sorted' /\ Informed' /\ EnsuredCovers'
    BY <2>1, ZoneStays
  <2>5. TypeOK'
    BY <2>1, <2>2, <2>3, <2>4 DEF TypeOK
  <2>6. Turns'
    BY <2>1, <2>3 DEF Turns, dnsVars
  <2> QED
    BY <2>3, <2>4, <2>5, <2>6
<1>2. CASE Unresolved
  <2> USE <1>2 DEF Unresolved, options
  <2>1. DnsTypeOK' /\ Sorted' /\ Informed' /\ EnsuredCovers'
    BY ZoneStays
  <2>2. TypeOK' /\ Turns'
    BY <2>1 DEF TypeOK, Turns, dnsVars
  <2>3. Walk' /\ Removed' /\ NeededOutlivesNeedy'
    BY DEF Walk, Removed, NeededOutlivesNeedy
  <2> QED
    BY <2>1, <2>2, <2>3
<1>3. CASE EnterDns
  <2> USE <1>3 DEF EnterDns, DnsUninstall, Answer, options
  <2>1. pc = "running" /\ at = "idle" /\ pc' = "dns" /\ at' \in {"idle", "listAll"}
    OBVIOUS
  <2>2. TypeOK'
    BY DEF TypeOK, DnsTypeOK, Sorted
  <2>3. Turns'
    BY <2>1 DEF Turns, Current
  <2>4. Walk' /\ Removed' /\ NeededOutlivesNeedy'
    BY <2>1 DEF Walk, Removed, NeededOutlivesNeedy, Turns
  <2>5. Sorted'
    BY DEF Sorted, DnsTypeOK, TypeOK
  <2>6. Informed' /\ EnsuredCovers'
    BY <2>1 DEF Informed, EnsuredCovers, Own, OwnRecords
  <2> QED
    BY <2>2, <2>3, <2>4, <2>5, <2>6
<1>4. CASE Complete
  <2> USE <1>4 DEF Complete, options
  <2>1. DnsTypeOK' /\ Sorted' /\ Informed' /\ EnsuredCovers'
    BY ZoneStays
  <2>2. TypeOK' /\ Turns'
    BY <2>1 DEF TypeOK, Turns, dnsVars
  <2>3. \A s \in DestroyStep : fate[s] \in {"uninstalled", "skipped"}
    BY DEF Walk, DestroyStep
  <2>4. Walk' /\ Removed' /\ NeededOutlivesNeedy'
    BY <2>3 DEF Walk, Removed, NeededOutlivesNeedy
  <2> QED
    BY <2>1, <2>2, <2>4
<1> QED
  BY <1>1, <1>2, <1>3, <1>4 DEF DestroyMoves

\* A zone of any records satisfies the invariant.
LEMMA InitInv == Init => Inv
<1> SUFFICES ASSUME Init PROVE Inv
  OBVIOUS
<1> USE DEF Init, DnsInit
<1>1. TypeOK
  <2>1. 0 \in 0..Len(Order)
    BY DestroyAssumption DEF DestroyAssumption
  <2> QED
    BY <2>1 DEF TypeOK, DnsTypeOK
<1>2. Walk /\ Removed /\ Turns
  BY DEF Walk, Removed, Turns, DestroyStep
<1>3. Sorted /\ Informed /\ NeededOutlivesNeedy /\ EnsuredCovers
  BY DEF Sorted, Informed, NeededOutlivesNeedy, EnsuredCovers
<1> QED
  BY <1>1, <1>2, <1>3 DEF Inv

\* Every step preserves the invariant.
LEMMA NextInv == Inv /\ [Next]_vars => Inv'
<1> SUFFICES ASSUME Inv, [Next]_vars PROVE Inv'
  OBVIOUS
<1>1. CASE UNCHANGED vars
  <2>1. DnsTypeOK' /\ Sorted' /\ Informed' /\ EnsuredCovers'
    BY <1>1, ZoneStays DEF vars
  <2>2. Walk' /\ Removed' /\ NeededOutlivesNeedy'
    BY <1>1, StepsStay DEF vars
  <2> QED
    BY <1>1, <2>1, <2>2 DEF vars, dnsVars, destroyVars, Inv, TypeOK, Turns, Current
<1> QED
  BY <1>1, DeployStep, StartStep, MoveStep, DnsCallStep, ForeignStep DEF Next

LEMMA AlwaysInv == Spec => []Inv
  BY InitInv, NextInv, PTL DEF Spec

-----------------------------------------------------------------------------
(* Theorems.                                                               *)

\* The variables stay in their types.
THEOREM TypeCorrect == Spec => []TypeOK
<1>1. Inv => TypeOK
  BY DEF Inv
<1> QED
  BY AlwaysInv, <1>1, PTL

\* RunDestroy takes a step away only after all that need it, however often it is
\* repeated and wherever it ended before.
THEOREM NeededOutlives == Spec => []NeededOutlivesNeedy
<1>1. Inv => NeededOutlivesNeedy
  BY DEF Inv
<1> QED
  BY AlwaysInv, <1>1, PTL

\* A completed destroy has called what it had to, and what answers for itself is gone.
THEOREM CompletionIsTrue == Spec => []CompletedMeansUninstalled
<1>1. Inv => CompletedMeansUninstalled
  BY DEF Inv, TypeOK, Turns, Removed, Informed, CompletedMeansUninstalled
<1> QED
  BY AlwaysInv, <1>1, PTL

\* A dns_record step that succeeded has covered the addresses of its targets.
THEOREM EnsuredIsCovered == Spec => []EnsuredCovers
<1>1. Inv => EnsuredCovers
  BY DEF Inv
<1> QED
  BY AlwaysInv, <1>1, PTL

\* Of the records that nobody else touched the plugin edits only the wrong ones.
THEOREM RemovesOnlyWrong == Spec => OnlyWrongRemoved
<1>1. Inv /\ [Next]_vars =>
        [PluginActs =>
           /\ \A r \in Record : zone'[r] # zone[r] =>
                \/ zone[r] = "none" /\ zone'[r] \in wanted
                \/ zone[r] \in Ip \ wanted
                \/ r \in foreign
           /\ pc = "dns" /\ ~full => zone' = zone]_vars
  <2> SUFFICES ASSUME Inv, Next, PluginActs
               PROVE  /\ \A r \in Record : zone'[r] # zone[r] =>
                           \/ zone[r] = "none" /\ zone'[r] \in wanted
                           \/ zone[r] \in Ip \ wanted
                           \/ r \in foreign
                      /\ pc = "dns" /\ ~full => zone' = zone
    OBVIOUS
  <2>1. CASE DnsCall
    <3>1. pc = "dns" /\ ~full => FALSE
      BY <2>1 DEF Inv, Turns, DnsCall, List, DeleteWrong, Purge, Repurpose, Add, Ensured, Purged
    <3>2. \/ UNCHANGED zone
          \/ \E q \in doomed, content \in Content : zone' = [zone EXCEPT ![q] = content]
          \/ \E q \in Record \ Existing, ip \in wanted : zone' = [zone EXCEPT ![q] = ip]
      <4>1. wanted \subseteq Content /\ "none" \in Content
        BY DEF Inv, TypeOK, DnsTypeOK, Content
      <4> QED
        BY <2>1, <4>1 DEF DnsCall, List, DeleteWrong, Purge, Repurpose, Add, Ensured, Purged, Call, Fails
    <3>3. zone \in [Record -> Content] /\ doomed \subseteq Record
      BY DEF Inv, TypeOK, DnsTypeOK
    <3>4. ASSUME NEW r \in Record, zone'[r] # zone[r]
          PROVE  \/ zone[r] = "none" /\ zone'[r] \in wanted
                 \/ zone[r] \in Ip \ wanted
                 \/ r \in foreign
      <4>1. CASE \E q \in doomed, content \in Content : zone' = [zone EXCEPT ![q] = content]
        BY <3>3, <3>4, <4>1 DEF Inv, Sorted
      <4>2. CASE \E q \in Record \ Existing, ip \in wanted : zone' = [zone EXCEPT ![q] = ip]
        BY <3>3, <3>4, <4>2 DEF Existing
      <4> QED
        BY <3>2, <3>4, <4>1, <4>2
    <3> QED
      BY <3>1, <3>4
  <2>2. CASE ~DnsCall
    <3>1. UNCHANGED zone
      BY <2>2 DEF Next, Deploy, DnsExecute, Start, DestroyMoves, Skip, Unresolved, UninstallStep,
             EnterDns, DnsUninstall, LeaveDns, Complete, dnsVars, Foreign, PluginActs
    <3> QED
      BY <3>1
  <2> QED
    BY <2>1, <2>2
<1> QED
  BY AlwaysInv, <1>1, PTL DEF Spec, OnlyWrongRemoved

\* At Cloudflare a record is given another address or added, never deleted: the
\* records of the name stay.
THEOREM KeepsResolving == Spec => CloudflareKeepsResolving
<1>1. Inv /\ [Next]_vars =>
        [provider = "cloudflare" /\ at = "ensure" /\ PluginActs =>
           OwnRecords \subseteq OwnRecords']_dnsVars
  <2> SUFFICES ASSUME Inv, [Next]_vars, dnsVars' # dnsVars,
                      provider = "cloudflare", at = "ensure", PluginActs
               PROVE  OwnRecords \subseteq OwnRecords'
    OBVIOUS
  <2>1. DnsCall
    BY DEF Next, Deploy, DnsExecute, Start, DestroyMoves, Skip, Unresolved, UninstallStep,
           EnterDns, DnsUninstall, LeaveDns, Complete, Foreign, PluginActs, vars, Inv, Turns
  <2>2. zone \in [Record -> Content] /\ wanted \subseteq Ip
    BY DEF Inv, TypeOK, DnsTypeOK
  <2>3. UNCHANGED zone \/ \E r \in Record, ip \in Ip : zone' = [zone EXCEPT ![r] = ip]
    <3>1. doomed \subseteq Record
      BY DEF Inv, TypeOK, DnsTypeOK
    <3> QED
      BY <2>1, <2>2, <3>1 DEF DnsCall, List, DeleteWrong, Purge, Repurpose, Add, Ensured, Purged, Call, Fails
  <2>4. CASE UNCHANGED zone
    BY <2>4 DEF OwnRecords
  <2>5. ASSUME NEW r \in Record, NEW ip \in Ip, zone' = [zone EXCEPT ![r] = ip]
        PROVE  OwnRecords \subseteq OwnRecords'
    BY <2>2, <2>5 DEF OwnRecords
  <2> QED
    BY <2>3, <2>4, <2>5
<1> QED
  BY AlwaysInv, <1>1, PTL DEF Spec, CloudflareKeepsResolving
-----------------------------------------------------------------------------
(* DagSort.  The proof of the sort is that of Kahn's algorithm: inDegree[m] *)
(* counts the entries of adj for m that the sort has not passed, so a name  *)
(* is queued when all it needs is placed, and what is never queued waits    *)
(* for something that is not either.                                        *)

\* The needs the scan has passed: need j of step i.
ScannedNeed(i, j) ==
  /\ i \in 1..Len(Steps) /\ j \in 1..Len(Steps[i].needs)
  /\ i < position \/ (i = position /\ j < need)

\* The name sorted k-th, the names sorted, those in the queue.
Placed(k) == Steps[order[k]].name
Taken == {Placed(k) : k \in 1..Len(order)}
Waiting == {queue[k] : k \in 1..Len(queue)}

\* The entries of adj that the sort has passed, and those inDegree[m] counts.
Relaxed(n, k) ==
  /\ n \in Taken
  /\ n = Placed(Len(order)) => k + Len(edges) <= Len(adj[n])
Pending(m) ==
  {e \in Name \X Nat :
     /\ e[2] \in 1..Len(adj[e[1]])
     /\ adj[e[1]][e[2]] = m
     /\ ~Relaxed(e[1], e[2])}

DagTypeOK ==
  /\ pipeline \in [1..3 -> Seq([name : Name, needs : Seq(Name)])]
  /\ phase \in 1..4
  /\ stage \in {"scan", "sort", "accepted", "rejected"}
  /\ stage = "accepted" <=> phase = 4
  /\ position \in Nat \ {0}
  /\ need \in Nat \ {0}
  /\ counted \subseteq Name
  /\ inDegree \in [Name -> Nat]
  /\ adj \in [Name -> Seq(Name)]
  /\ queue \in Seq(Name)
  /\ edges \in Seq(Name)
  /\ order \in Seq(Nat)
  /\ sorted \in [1..3 -> Seq(Nat)]

\* While a phase is scanned nothing is sorted; the sort begins behind its end.
StagesInOrder ==
  /\ stage = "scan" => queue = <<>> /\ edges = <<>> /\ order = <<>>
  /\ stage = "sort" => position > Len(Steps)
  /\ counted = {Steps[i].name : i \in {i \in 1..Len(Steps) : i < position}}
  /\ \A i, j : ScannedNeed(i, j) => Steps[i].needs[j] \in Names(phase)

\* adj has the needs that were scanned and no others.
AdjIsNeeds ==
  /\ \A n \in Name : \A k \in 1..Len(adj[n]) :
       \E i, j : ScannedNeed(i, j) /\ Steps[i].name = adj[n][k] /\ Steps[i].needs[j] = n
  /\ \A i, j : ScannedNeed(i, j) =>
       \E k \in 1..Len(adj[Steps[i].needs[j]]) : adj[Steps[i].needs[j]][k] = Steps[i].name

DegreeIsPending ==
  \A m \in Name : IsFiniteSet(Pending(m)) /\ inDegree[m] = Cardinality(Pending(m))

\* The order and the queue list names once each, and the queue no sorted name.
QueueIsSet ==
  /\ \A k \in 1..Len(order) : order[k] \in 1..Len(Steps)
  /\ \A k, l \in 1..Len(order) : Placed(k) = Placed(l) => k = l
  /\ \A k, l \in 1..Len(queue) : queue[k] = queue[l] => k = l
  /\ Waiting \subseteq Names(phase)
  /\ Waiting \cap Taken = {}

\* A name is queued when and only when nothing is pending for it.
QueuedIffFree ==
  stage = "sort" =>
    \A m \in Names(phase) : inDegree[m] = 0 <=> m \in Waiting \cup Taken

EdgesAreSuffix ==
  edges # <<>> =>
    /\ order # <<>>
    /\ Len(edges) <= Len(adj[Placed(Len(order))])
    /\ \A k \in 1..Len(edges) :
         edges[k] = adj[Placed(Len(order))][Len(adj[Placed(Len(order))]) - Len(edges) + k]

NeedsFirst ==
  \A k \in 1..Len(order) :
    NeedSet(Steps[order[k]]) \subseteq {Placed(l) : l \in 1..k-1}

\* The order o lists the positions of the steps q once each, a step behind all
\* it needs.
ListsInOrder(o, q) ==
  /\ Len(o) = Len(q)
  /\ \A k \in 1..Len(q) :
       /\ o[k] \in 1..Len(q)
       /\ \A l \in 1..Len(q) : o[k] = o[l] => k = l
       /\ \A n \in NeedSet(q[o[k]]) : \E l \in 1..k-1 : q[o[l]].name = n

InOrder(p) == ListsInOrder(sorted[p], pipeline[p])

Verdicts ==
  /\ \A p \in 1..3 : p < phase => WellFormed(p) /\ InOrder(p)
  /\ stage = "rejected" => \E p \in 1..3 : ~WellFormed(p)


Sorting == stage \in {"scan", "sort"}

DagInv ==
  /\ DagTypeOK /\ Verdicts
  /\ Sorting => /\ StagesInOrder /\ AdjIsNeeds /\ DegreeIsPending
                /\ QueueIsSet /\ QueuedIffFree /\ EdgesAreSuffix /\ NeedsFirst

-----------------------------------------------------------------------------
(* Lemmas about the operators.                                             *)

\* Every set of numbers has a least one.
LEMMA Least ==
  ASSUME NEW T \in SUBSET Nat, NEW n \in T
  PROVE  \E m \in T : \A k \in T : m <= k
<1> DEFINE Below == {1..k : k \in T}
<1>1. IsWellFoundedOn(StrictSubsetOrdering(Nat), FiniteSubsetsOf(Nat))
  BY FS_StrictSubsetOrderingWellFounded
<1>2. Below \subseteq FiniteSubsetsOf(Nat) /\ Below # {}
  BY FS_Interval DEF FiniteSubsetsOf
<1>3. PICK x \in Below : \A y \in Below : ~ (<<y, x>> \in StrictSubsetOrdering(Nat))
  <2> HIDE DEF Below
  <2> QED
    BY <1>1, <1>2, WFMin
<1>4. PICK m \in T : x = 1..m
  BY <1>3
<1>5. ASSUME NEW k \in T, k < m PROVE FALSE
  <2>1. m \in 1..m /\ m \notin 1..k
    BY <1>5
  <2>2. 1..k \subseteq 1..m /\ 1..k # 1..m /\ 1..m \subseteq Nat
    BY <1>5, <2>1
  <2>3. <<1..k, x>> \in StrictSubsetOrdering(Nat)
    BY <2>2, <1>4 DEF StrictSubsetOrdering
  <2> QED
    BY <2>3, <1>3
<1> QED
  BY <1>5

\* What a sequence over a set holds.
LEMMA ElementOfSeq ==
  ASSUME NEW R, NEW q \in Seq(R)
  PROVE  Len(q) \in Nat /\ \A i \in 1..Len(q) : q[i] \in R
  OBVIOUS

LEMMA LensOfSeqs ==
  ASSUME NEW f \in [Name -> Seq(Name)]
  PROVE  \A n \in Name : f[n] \in Seq(Name) /\ Len(f[n]) \in Nat
  OBVIOUS

LEMMA AppendFacts ==
  ASSUME NEW R, NEW q \in Seq(R), NEW x \in R
  PROVE  /\ Append(q, x) \in Seq(R) /\ Len(Append(q, x)) = Len(q) + 1
         /\ Append(q, x)[Len(q) + 1] = x
         /\ \A k \in 1..Len(q) : Append(q, x)[k] = q[k]
  OBVIOUS

LEMMA HeadTailFacts ==
  ASSUME NEW R, NEW q \in Seq(R), q # <<>>
  PROVE  /\ Len(q) \in Nat \ {0} /\ Head(q) = q[1] /\ Head(q) \in R
         /\ Tail(q) \in Seq(R) /\ Len(Tail(q)) = Len(q) - 1
         /\ \A k \in 1..(Len(q) - 1) : Tail(q)[k] = q[k + 1]
  OBVIOUS

LEMMA IntervalFacts ==
  ASSUME NEW n \in Nat
  PROVE  IsFiniteSet(1..n) /\ Cardinality(1..n) = n
  BY FS_Interval

\* Two sets of pairs are the same when they have the same pairs.
LEMMA SamePairs ==
  ASSUME NEW A \in SUBSET (Name \X Nat), NEW B \in SUBSET (Name \X Nat),
         \A n \in Name : \A k \in Nat : <<n, k>> \in A <=> <<n, k>> \in B
  PROVE  A = B
  OBVIOUS

\* A step of a phase, its name and its needs.
LEMMA StepsAreSteps ==
  ASSUME DagTypeOK, NEW p \in 1..3
  PROVE  /\ Len(pipeline[p]) \in Nat
         /\ \A i \in 1..Len(pipeline[p]) :
              /\ pipeline[p][i].name \in Name
              /\ pipeline[p][i].needs \in Seq(Name)
              /\ NeedSet(pipeline[p][i]) \subseteq Name
         /\ Names(p) \subseteq Name
<1>1. pipeline[p] \in Seq([name : Name, needs : Seq(Name)])
  BY DEF DagTypeOK
<1>2. \A i \in 1..Len(pipeline[p]) : pipeline[p][i] \in [name : Name, needs : Seq(Name)]
  BY <1>1, ElementOfSeq
<1>3. \A i \in 1..Len(pipeline[p]) :
        /\ pipeline[p][i].name \in Name
        /\ pipeline[p][i].needs \in Seq(Name)
  BY <1>2
<1> QED
  BY <1>1, <1>3 DEF NeedSet, Names

\* nameToStep has a step of every name of the phase.
LEMMA StepOfName ==
  ASSUME DagTypeOK, phase \in 1..3, NEW n \in Names(phase)
  PROVE  StepNamed(n) \in 1..Len(Steps) /\ Steps[StepNamed(n)].name = n
<1> DEFINE N == Len(Steps)
           From == {N - i : i \in {i \in 1..N : Steps[i].name = n}}
<1>1. N \in Nat
  BY StepsAreSteps DEF Steps
<1>2. PICK i \in 1..N : Steps[i].name = n
  BY DEF Names, Steps
<1>3. From \in SUBSET Nat /\ N - i \in From
  BY <1>1, <1>2
<1>4. PICK m \in From : \A k \in From : m <= k
  <2> HIDE DEF From
  <2> QED
    BY <1>3, Least
<1>5. PICK l \in 1..N : Steps[l].name = n /\ m = N - l
  BY <1>4
<1>6. \A j \in l+1..N : Steps[j].name # n
  <2> SUFFICES ASSUME NEW j \in l+1..N, Steps[j].name = n PROVE FALSE
    OBVIOUS
  <2>1. j \in 1..N /\ l \in Nat
    BY <1>1, <1>5
  <2>2. N - j \in From
    BY <2>1
  <2>3. m <= N - j
    BY <2>2, <1>4
  <2> HIDE DEF From, N
  <2> QED
    BY <2>1, <2>3, <1>1, <1>5
<1> QED
  BY <1>5, <1>6 DEF StepNamed

\* A listing of a finite set has each of its elements, once.
LEMMA ListingHasAll ==
  ASSUME NEW S, IsFiniteSet(S), NEW q \in Listings(S)
  PROVE  /\ q \in Seq(S)
         /\ \A i, j \in 1..Len(q) : q[i] = q[j] => i = j
         /\ \A x \in S : \E i \in 1..Len(q) : q[i] = x
<1>1. Cardinality(S) \in Nat
  BY FS_CardinalityType
<1>2. q \in [1..Cardinality(S) -> S] /\ q \in Seq(S) /\ Len(q) = Cardinality(S)
  BY <1>1 DEF Listings
<1>3. \A i, j \in 1..Cardinality(S) : q[i] = q[j] => i = j
  BY DEF Listings
<1>4. q \in Injection(1..Cardinality(S), S)
  BY <1>2, <1>3 DEF Injection, IsInjective
<1>5. Cardinality(1..Cardinality(S)) = Cardinality(S)
  BY <1>1, FS_Interval
<1>6. q \in Surjection(1..Cardinality(S), S)
  BY <1>4, <1>5, FS_Injection
<1> QED
  BY <1>2, <1>3, <1>6 DEF Surjection

\* The order o of 1..N, where nm[i] is the name of i and nd[i] the names it
\* needs, repeats no name and has all needs of an entry before it.
PutsNeedsFirst(N, o, nm, nd) ==
  /\ N \in Nat /\ o \in [1..N -> 1..N]
  /\ \A k, l \in 1..N : nm[o[k]] = nm[o[l]] => k = l
  /\ \A k \in 1..N : \A n \in nd[o[k]] : \E l \in 1..k-1 : n = nm[o[l]]

\* Then it is a permutation, no name is used twice, and nothing waits in a circle.
LEMMA Permutation ==
  ASSUME NEW N, NEW o, NEW nm, NEW nd, PutsNeedsFirst(N, o, nm, nd)
  PROVE  /\ \A i \in 1..N : \E k \in 1..N : o[k] = i
         /\ \A i, j \in 1..N : nm[i] = nm[j] => i = j
         /\ \A i \in 1..N : \A n \in nd[i] : \E j \in 1..N : n = nm[j]
         /\ \A B \in SUBSET (1..N) :
              B # {} => \E i \in B : \A j \in B : nm[j] \notin nd[i]
<1> USE DEF PutsNeedsFirst
<1>1. o \in Injection(1..N, 1..N)
  BY DEF Injection, IsInjective
<1>2. IsFiniteSet(1..N)
  BY FS_Interval
<1>3. o \in Surjection(1..N, 1..N)
  BY <1>1, <1>2, FS_Injection
<1>4. \A i \in 1..N : \E k \in 1..N : o[k] = i
  BY <1>3 DEF Surjection
<1>5. \A i, j \in 1..N : nm[i] = nm[j] => i = j
  BY <1>4
<1>6. \A i \in 1..N : \A n \in nd[i] : \E j \in 1..N : n = nm[j]
  <2> SUFFICES ASSUME NEW i \in 1..N, NEW n \in nd[i]
               PROVE  \E j \in 1..N : n = nm[j]
    OBVIOUS
  <2>1. PICK k \in 1..N : o[k] = i
    BY <1>4
  <2>2. PICK l \in 1..k-1 : n = nm[o[l]]
    BY <2>1
  <2> QED
    BY <2>2
<1>7. ASSUME NEW B \in SUBSET (1..N), NEW b \in B
      PROVE  \E i \in B : \A j \in B : nm[j] \notin nd[i]
  <2> DEFINE At == {k \in 1..N : o[k] \in B}
  <2>1. PICK a \in 1..N : o[a] = b
    BY <1>4
  <2>2. At \in SUBSET Nat /\ a \in At
    BY <2>1
  <2>3. PICK m \in At : \A k \in At : m <= k
    <3> HIDE DEF At
    <3> QED
      BY <2>2, Least
  <2>4. ASSUME NEW j \in B, nm[j] \in nd[o[m]] PROVE FALSE
    <3>1. PICK l \in 1..m-1 : nm[j] = nm[o[l]]
      BY <2>3, <2>4
    <3>2. l \in 1..N /\ l < m /\ j \in 1..N /\ o[l] \in 1..N
      BY <2>3
    <3>3. o[l] = j
      BY <3>1, <3>2, <1>5
    <3> QED
      BY <3>2, <3>3, <2>3
  <2> QED
    BY <2>3, <2>4
<1> QED
  BY <1>4, <1>5, <1>6, <1>7

\* So the phase such an order sorts is well formed.
LEMMA OrderMakesWellFormed ==
  ASSUME DagTypeOK, NEW p \in 1..3, NEW o \in [1..Len(pipeline[p]) -> 1..Len(pipeline[p])],
         \A k, l \in 1..Len(pipeline[p]) :
           pipeline[p][o[k]].name = pipeline[p][o[l]].name => k = l,
         \A k \in 1..Len(pipeline[p]) :
           NeedSet(pipeline[p][o[k]]) \subseteq {pipeline[p][o[l]].name : l \in 1..k-1}
  PROVE  /\ WellFormed(p)
         /\ \A i \in 1..Len(pipeline[p]) : \E k \in 1..Len(pipeline[p]) : o[k] = i
<1> DEFINE N == Len(pipeline[p])
           nm == [i \in 1..N |-> pipeline[p][i].name]
           nd == [i \in 1..N |-> NeedSet(pipeline[p][i])]
<1>0. \A k \in 1..N : o[k] \in 1..N /\ nd[o[k]] = NeedSet(pipeline[p][o[k]])
  OBVIOUS
<1>1. N \in Nat /\ o \in [1..N -> 1..N]
  BY StepsAreSteps
<1>2. \A k, l \in 1..N : nm[o[k]] = nm[o[l]] => k = l
  OBVIOUS
<1>3. \A k \in 1..N : \A n \in nd[o[k]] : \E l \in 1..k-1 : n = nm[o[l]]
  <2> SUFFICES ASSUME NEW k \in 1..N, NEW n \in nd[o[k]]
               PROVE  \E l \in 1..k-1 : n = nm[o[l]]
    OBVIOUS
  <2>0. n \in {pipeline[p][o[l]].name : l \in 1..k-1}
    BY <1>0
  <2>1. PICK l \in 1..k-1 : n = pipeline[p][o[l]].name
    BY <2>0
  <2>2. l \in 1..N
    BY <1>1
  <2> QED
    BY <2>1, <2>2
<1> HIDE DEF N, nm, nd
<1>. PutsNeedsFirst(N, o, nm, nd)
  BY <1>1, <1>2, <1>3 DEF PutsNeedsFirst
<1>4. \A i \in 1..N : \E k \in 1..N : o[k] = i
  BY Permutation
<1>5. \A i, j \in 1..N : nm[i] = nm[j] => i = j
  BY Permutation
<1>6. \A i \in 1..N : \A n \in nd[i] : \E j \in 1..N : n = nm[j]
  BY Permutation
<1>7. \A B \in SUBSET (1..N) : B # {} => \E i \in B : \A j \in B : nm[j] \notin nd[i]
  BY Permutation
<1>8. \A i \in 1..N : nm[i] = pipeline[p][i].name /\ nd[i] = NeedSet(pipeline[p][i])
  BY DEF nm, nd
<1>9. UniqueNames(p)
  BY <1>5, <1>8 DEF UniqueNames, N
<1>10. NeedsAmong(p, Names(p))
  <2>1. \A i \in 1..N : nd[i] \subseteq Names(p)
    BY <1>6, <1>8 DEF Names, N
  <2> QED
    BY <2>1, <1>8 DEF NeedsAmong, N
<1>11. Acyclic(p)
  BY <1>7, <1>8 DEF Acyclic, N
<1> QED
  BY <1>4, <1>9, <1>10, <1>11 DEF WellFormed, N

-----------------------------------------------------------------------------
(* The scan of a phase.                                                    *)

LEMMA DagInvInit ==
  ASSUME AnyPipeline PROVE DagInv
<1> USE DEF AnyPipeline, SortInit
<1>1. DagTypeOK
  BY DEF DagTypeOK
<1>2. \A i, j : ~ScannedNeed(i, j)
  BY DEF ScannedNeed
<1>3. StagesInOrder /\ AdjIsNeeds
  BY <1>2 DEF StagesInOrder, AdjIsNeeds
<1>4. Verdicts
  BY DEF Verdicts
<1>5. \A m : Pending(m) = {}
  BY DEF Pending
<1>6. DegreeIsPending
  BY <1>5, FS_EmptySet DEF DegreeIsPending
<1>7. QueueIsSet /\ QueuedIffFree /\ EdgesAreSuffix /\ NeedsFirst
  BY DEF QueueIsSet, QueuedIffFree, EdgesAreSuffix, NeedsFirst, Waiting, Taken
<1> QED
  BY <1>1, <1>3, <1>4, <1>6, <1>7 DEF DagInv

\* What a phase is does not depend on the sort.
LEMMA SamePipeline ==
  ASSUME UNCHANGED pipeline, NEW p
  PROVE  /\ Names(p)' = Names(p)
         /\ WellFormed(p)' <=> WellFormed(p)
         /\ sorted'[p] = sorted[p] => (InOrder(p)' <=> InOrder(p))
<1>1. Names(p)' = Names(p)
  BY DEF Names
<1>2. UniqueNames(p)' <=> UniqueNames(p)
  BY DEF UniqueNames
<1>3. NeedsAmong(p, Names(p))' <=> NeedsAmong(p, Names(p))
  BY <1>1 DEF NeedsAmong
<1>4. Acyclic(p)' <=> Acyclic(p)
  BY DEF Acyclic
<1>5. ASSUME sorted'[p] = sorted[p] PROVE InOrder(p)' <=> InOrder(p)
  BY <1>5 DEF InOrder
<1> QED
  BY <1>1, <1>2, <1>3, <1>4, <1>5 DEF WellFormed

\* Nothing is decided until the phase ends or is rejected.
LEMMA VerdictsStay ==
  ASSUME Verdicts, Sorting', UNCHANGED <<pipeline, phase, sorted>>
  PROVE  Verdicts'
<1>1. \A p \in 1..3 : p < phase => WellFormed(p)' /\ InOrder(p)'
  BY SamePipeline DEF Verdicts
<1> QED
  BY <1>1 DEF Verdicts, Sorting

\* What holds while a phase is being sorted.
LEMMA InPhase ==
  ASSUME DagInv, Sorting
  PROVE  /\ DagTypeOK /\ Verdicts /\ StagesInOrder /\ AdjIsNeeds /\ DegreeIsPending
         /\ QueueIsSet /\ QueuedIffFree /\ EdgesAreSuffix /\ NeedsFirst
         /\ phase \in 1..3 /\ position \in Nat \ {0} /\ need \in Nat \ {0}
         /\ adj \in [Name -> Seq(Name)] /\ inDegree \in [Name -> Nat]
         /\ queue \in Seq(Name) /\ edges \in Seq(Name) /\ order \in Seq(Nat)
         /\ Len(Steps) \in Nat
         /\ \A i \in 1..Len(Steps) :
              /\ Steps[i].name \in Names(phase) /\ Steps[i].needs \in Seq(Name)
              /\ Len(Steps[i].needs) \in Nat
              /\ \A j \in 1..Len(Steps[i].needs) : Steps[i].needs[j] \in NeedSet(Steps[i])
              /\ NeedSet(Steps[i]) \subseteq Name
         /\ Names(phase) \subseteq Name
<1>1. DagTypeOK /\ phase \in 1..3
  BY DEF DagInv, Sorting, DagTypeOK
<1>2. \A i \in 1..Len(Steps) : Steps[i].name \in Names(phase)
  BY DEF Names, Steps
<1>3. /\ Len(Steps) \in Nat
      /\ \A i \in 1..Len(Steps) :
           /\ Steps[i].needs \in Seq(Name)
           /\ Len(Steps[i].needs) \in Nat
           /\ NeedSet(Steps[i]) \subseteq Name
      /\ Names(phase) \subseteq Name
  BY <1>1, StepsAreSteps, ElementOfSeq DEF Steps
<1>4. \A i \in 1..Len(Steps) : \A j \in 1..Len(Steps[i].needs) :
        Steps[i].needs[j] \in NeedSet(Steps[i])
  BY DEF NeedSet
<1> QED
  BY <1>1, <1>2, <1>3, <1>4 DEF DagInv, DagTypeOK

\* While the scan runs nothing is queued, taken or relaxed.
LEMMA NothingSorted ==
  ASSUME order = <<>>, queue = <<>>, edges = <<>>, stage # "sort"
  PROVE  /\ QueueIsSet /\ QueuedIffFree /\ EdgesAreSuffix /\ NeedsFirst
         /\ \A m : Pending(m) = {e \in Name \X Nat : e[2] \in 1..Len(adj[e[1]])
                                                   /\ adj[e[1]][e[2]] = m}
<1>1. Waiting = {} /\ Taken = {}
  BY DEF Waiting, Taken
<1> QED
  BY <1>1 DEF QueueIsSet, QueuedIffFree, EdgesAreSuffix, NeedsFirst, Pending, Relaxed

LEMMA LinkNeedStep ==
  ASSUME DagInv, LinkNeed PROVE DagInv'
<1>0. Sorting
  BY DEF LinkNeed, Sorting
<1>1. /\ stage = "scan" /\ Steps' = Steps /\ Names(phase)' = Names(phase)
      /\ position \in 1..Len(Steps) /\ need \in 1..Len(Scanned.needs)
      /\ order = <<>> /\ queue = <<>> /\ edges = <<>>
      /\ UNCHANGED <<pipeline, phase, stage, position, counted, queue, edges, order, sorted>>
      /\ need' = need + 1
      /\ Len(Scanned.needs) \in Nat
  BY <1>0, InPhase, SamePipeline DEF LinkNeed, StagesInOrder, Steps, Scanned, sortVars
<1>2. PICK s \in Name, d \in Names(phase) :
        /\ s = Scanned.name /\ s = Steps[position].name
        /\ d = Scanned.needs[need] /\ d = Steps[position].needs[need]
  BY <1>0, <1>1, InPhase DEF LinkNeed, Scanned
<1>3. /\ adj' = [adj EXCEPT ![d] = Append(@, s)]
      /\ inDegree' = [inDegree EXCEPT ![s] = @ + 1]
      /\ d \in Name
  BY <1>0, <1>2, InPhase DEF LinkNeed
<1>4. PICK last \in Nat : last = Len(adj[d]) + 1
  BY <1>0, <1>3, InPhase, ElementOfSeq
<1>5. /\ adj \in [Name -> Seq(Name)] /\ inDegree \in [Name -> Nat]
      /\ adj[d] \in Seq(Name) /\ Len(adj[d]) \in Nat
  BY <1>0, <1>3, InPhase, ElementOfSeq
<1>6. /\ adj'[d] = Append(adj[d], s)
      /\ \A n \in Name : n # d => adj'[n] = adj[n]
      /\ adj' \in [Name -> Seq(Name)]
  BY <1>2, <1>3, <1>5
<1>7. /\ Len(adj'[d]) = last /\ adj'[d][last] = s
      /\ \A k \in 1..Len(adj[d]) : adj'[d][k] = adj[d][k]
  BY <1>2, <1>4, <1>5, <1>6, AppendFacts
<1>8. inDegree' \in [Name -> Nat]
  BY <1>2, <1>3, <1>5
<1>9. DagTypeOK'
  <2>1. DagTypeOK /\ need + 1 \in Nat \ {0}
    BY <1>0, InPhase
  <2> QED
    BY <2>1, <1>1, <1>6, <1>8 DEF DagTypeOK
<1>10. \A i, j : ScannedNeed(i, j)' <=> ScannedNeed(i, j) \/ (i = position /\ j = need)
  <2>1. \A i \in 1..Len(Steps) : Len(Steps[i].needs) \in Nat
    BY <1>0, InPhase
  <2>2. position \in Nat /\ need \in Nat /\ Len(Steps) \in Nat
    BY <1>0, InPhase
  <2> QED
    BY <2>1, <2>2, <1>1 DEF ScannedNeed, Scanned
<1>11. StagesInOrder'
  <2>1. \A i, j : ScannedNeed(i, j)' => (Steps[i].needs[j] \in Names(phase))'
    BY <1>0, <1>1, <1>2, <1>10, InPhase DEF StagesInOrder
  <2> QED
    BY <2>1, <1>0, <1>1, InPhase DEF StagesInOrder
<1>12. /\ \A n \in Name : \A k \in 1..Len(adj[n]) :
            k \in 1..Len(adj'[n]) /\ adj'[n][k] = adj[n][k]
       /\ \A n \in Name : \A k \in 1..Len(adj'[n]) :
            \/ n = d /\ k = last
            \/ k \in 1..Len(adj[n])
       /\ last \in 1..Len(adj'[d]) /\ last \notin 1..Len(adj[d])
       /\ \A n \in Name : Len(adj[n]) \in Nat /\ Len(adj'[n]) \in Nat
  <2>1. \A n \in Name : n = d \/ (n # d /\ adj'[n] = adj[n])
    BY <1>6
  <2>2. 1..last = 1..Len(adj[d]) \cup {last} /\ last \notin 1..Len(adj[d])
    BY <1>4, <1>5
  <2>3. \A n \in Name : Len(adj[n]) \in Nat /\ Len(adj'[n]) \in Nat
    BY <1>5, <1>6, LensOfSeqs
  <2>4. 1..Len(adj'[d]) = 1..Len(adj[d]) \cup {last}
    BY <2>2, <1>7
  <2>5. ASSUME NEW n \in Name, NEW k \in 1..Len(adj[n])
        PROVE  k \in 1..Len(adj'[n]) /\ adj'[n][k] = adj[n][k]
    <3>1. CASE n = d
      BY <3>1, <2>4, <1>7
    <3>2. CASE n # d
      BY <3>2, <2>1
    <3> QED
      BY <3>1, <3>2
  <2>6. ASSUME NEW n \in Name, NEW k \in 1..Len(adj'[n])
        PROVE  (n = d /\ k = last) \/ k \in 1..Len(adj[n])
    <3>1. CASE n = d
      BY <3>1, <2>4
    <3>2. CASE n # d
      BY <3>2, <2>1
    <3> QED
      BY <3>1, <3>2
  <2>7. last \in 1..Len(adj'[d]) /\ last \notin 1..Len(adj[d])
    BY <2>2, <2>4
  <2> QED
    BY <2>3, <2>5, <2>6, <2>7
<1>13. AdjIsNeeds'
  <2>1. ASSUME NEW n \in Name, NEW k \in 1..Len(adj'[n])
        PROVE  \E i, j : ScannedNeed(i, j)' /\ Steps'[i].name = adj'[n][k] /\ Steps'[i].needs[j] = n
    <3>1. CASE n = d /\ k = last
      BY <3>1, <1>1, <1>2, <1>7, <1>10
    <3>2. CASE k \in 1..Len(adj[n])
      <4>1. PICK i, j : ScannedNeed(i, j) /\ Steps[i].name = adj[n][k] /\ Steps[i].needs[j] = n
        BY <3>2, <1>0, InPhase DEF AdjIsNeeds
      <4> QED
        BY <4>1, <3>2, <1>1, <1>10, <1>12
    <3> QED
      BY <3>1, <3>2, <1>12
  <2>2. ASSUME NEW i, NEW j, ScannedNeed(i, j)'
        PROVE  \E k \in 1..Len(adj'[Steps'[i].needs[j]]) :
                 adj'[Steps'[i].needs[j]][k] = Steps'[i].name
    <3>1. CASE i = position /\ j = need
      BY <3>1, <1>1, <1>2, <1>7, <1>12
    <3>2. CASE ScannedNeed(i, j)
      <4>1. PICK k \in 1..Len(adj[Steps[i].needs[j]]) :
              adj[Steps[i].needs[j]][k] = Steps[i].name
        BY <3>2, <1>0, InPhase DEF AdjIsNeeds
      <4>2. Steps[i].needs[j] \in Name
        BY <3>2, <1>0, InPhase DEF ScannedNeed
      <4> QED
        BY <4>1, <4>2, <1>1, <1>12
    <3> QED
      BY <2>2, <3>1, <3>2, <1>10
  <2> QED
    BY <2>1, <2>2 DEF AdjIsNeeds
<1>14. QueueIsSet' /\ QueuedIffFree' /\ EdgesAreSuffix' /\ NeedsFirst'
  BY <1>1, NothingSorted
  DEF QueueIsSet, QueuedIffFree, EdgesAreSuffix, NeedsFirst, Waiting, Taken, LinkNeed
<1>15. DegreeIsPending'
  <2>1. \A m : /\ Pending(m) \in SUBSET (Name \X Nat)
               /\ \A n \in Name : \A k \in Nat :
                    <<n, k>> \in Pending(m) <=> k \in 1..Len(adj[n]) /\ adj[n][k] = m
    BY <1>1, NothingSorted
  <2>2. \A m : /\ Pending(m)' \in SUBSET (Name \X Nat)
               /\ \A n \in Name : \A k \in Nat :
                    <<n, k>> \in Pending(m)' <=> k \in 1..Len(adj'[n]) /\ adj'[n][k] = m
    BY <1>1 DEF Pending, Relaxed, Taken
  <2>3. <<d, last>> \in Name \X Nat /\ <<d, last>> \notin Pending(s)
    BY <2>1, <1>3, <1>4, <1>12
  <2>4. Pending(s)' = Pending(s) \cup {<<d, last>>}
    <3>1. \A n \in Name : \A k \in Nat :
            <<n, k>> \in Pending(s)' <=> <<n, k>> \in Pending(s) \/ (n = d /\ k = last)
      <4> SUFFICES ASSUME NEW n \in Name, NEW k \in Nat
                   PROVE  <<n, k>> \in Pending(s)' <=> <<n, k>> \in Pending(s) \/ (n = d /\ k = last)
        OBVIOUS
      <4>1. CASE k \in 1..Len(adj[n])
        BY <4>1, <2>1, <2>2, <1>12
      <4>2. CASE k \notin 1..Len(adj[n])
        BY <4>2, <2>1, <2>2, <1>7, <1>12
      <4> QED
        BY <4>1, <4>2
    <3> QED
      BY <3>1, <2>1, <2>2, <2>3, SamePairs
  <2>5. \A m \in Name : m # s => Pending(m)' = Pending(m)
    <3> SUFFICES ASSUME NEW m \in Name, m # s PROVE Pending(m)' = Pending(m)
      OBVIOUS
    <3>1. ASSUME NEW n \in Name, NEW k \in Nat
          PROVE  <<n, k>> \in Pending(m)' <=> <<n, k>> \in Pending(m)
      <4>1. CASE k \in 1..Len(adj[n])
        <5>1. k \in 1..Len(adj'[n]) /\ adj'[n][k] = adj[n][k]
          BY <4>1, <1>12
        <5> QED
          BY <5>1, <4>1, <2>1, <2>2
      <4>2. CASE k \notin 1..Len(adj[n])
        <5>1. ASSUME k \in 1..Len(adj'[n]) PROVE adj'[n][k] = s
          <6>1. n = d /\ k = last
            BY <4>2, <5>1, <1>12
          <6> QED
            BY <6>1, <1>7
        <5> QED
          BY <5>1, <4>2, <2>1, <2>2
      <4> QED
        BY <4>1, <4>2
    <3> QED
      BY <3>1, <2>1, <2>2, SamePairs
  <2>6. IsFiniteSet(Pending(s)) /\ Cardinality(Pending(s)) = inDegree[s]
    BY <1>0, <1>2, InPhase DEF DegreeIsPending
  <2>7. IsFiniteSet(Pending(s)') /\ Cardinality(Pending(s)') = inDegree[s] + 1
    BY <2>3, <2>4, <2>6, FS_AddElement
  <2>8. inDegree'[s] = inDegree[s] + 1 /\ \A m \in Name : m # s => inDegree'[m] = inDegree[m]
    BY <1>0, <1>2, <1>3, InPhase
  <2>9. \A m \in Name : IsFiniteSet(Pending(m)) /\ inDegree[m] = Cardinality(Pending(m))
    BY <1>0, InPhase DEF DegreeIsPending
  <2>10. \A m \in Name : IsFiniteSet(Pending(m)') /\ inDegree'[m] = Cardinality(Pending(m)')
    BY <2>5, <2>7, <2>8, <2>9
  <2> QED
    BY <2>10 DEF DegreeIsPending
<1>16. Verdicts' /\ Sorting'
  BY <1>0, <1>1, InPhase, VerdictsStay DEF LinkNeed, Sorting, sortVars
<1> QED
  BY <1>9, <1>11, <1>13, <1>14, <1>15, <1>16 DEF DagInv

\* A need that names no step: the phase is not well formed.
LEMMA UnknownNeedStep ==
  ASSUME DagInv, UnknownNeed PROVE DagInv'
<1>0. Sorting
  BY DEF UnknownNeed, Sorting
<1>1. position \in 1..Len(Steps) /\ need \in 1..Len(Scanned.needs)
  BY <1>0, InPhase DEF UnknownNeed, Scanned
<1>2. Scanned.needs[need] \in NeedSet(pipeline[phase][position])
  BY <1>1 DEF NeedSet, Scanned, Steps
<1>3. ~NeedsAmong(phase, Names(phase))
  BY <1>1, <1>2 DEF NeedsAmong, UnknownNeed, Steps
<1>4. DagTypeOK' /\ ~Sorting'
  BY <1>0, InPhase DEF DagTypeOK, UnknownNeed, Sorting, scanVars, sortVars
<1>5. UNCHANGED <<pipeline, phase, sorted>> /\ stage' = "rejected"
  BY DEF UnknownNeed, sortVars
<1>6. \A p \in 1..3 : p < phase => WellFormed(p)' /\ InOrder(p)'
  BY <1>0, <1>5, InPhase, SamePipeline DEF Verdicts
<1>7. ~WellFormed(phase)' /\ phase \in 1..3
  BY <1>0, <1>3, <1>5, InPhase, SamePipeline DEF WellFormed
<1>8. Verdicts'
  BY <1>5, <1>6, <1>7 DEF Verdicts
<1> QED
  BY <1>4, <1>8 DEF DagInv

LEMMA NextStepStep ==
  ASSUME DagInv, NextStep PROVE DagInv'
<1>0. Sorting
  BY DEF NextStep, Sorting
<1>1. /\ stage = "scan" /\ Steps' = Steps /\ Names(phase)' = Names(phase)
      /\ position \in 1..Len(Steps) /\ need > Len(Steps[position].needs)
      /\ order = <<>> /\ queue = <<>> /\ edges = <<>>
      /\ position' = position + 1 /\ need' = 1
  BY <1>0, InPhase, SamePipeline DEF NextStep, StagesInOrder, Steps, Scanned
<1>2. UNCHANGED <<order, queue, edges, stage, adj, inDegree, phase, pipeline, sorted>>
  BY DEF NextStep, sortVars
<1>3. counted' = counted \cup {Steps[position].name}
  BY DEF NextStep, Scanned
<1>4. DagTypeOK'
  BY <1>0, <1>1, <1>2, <1>3, InPhase DEF DagTypeOK
<1>5. \A i, j : ScannedNeed(i, j)' <=> ScannedNeed(i, j)
  BY <1>0, <1>1, InPhase DEF ScannedNeed
<1>6. StagesInOrder'
  <2>1. {i \in 1..Len(Steps) : i < position + 1} = {i \in 1..Len(Steps) : i < position} \cup {position}
    BY <1>0, <1>1, InPhase
  <2>2. counted' = {Steps[i].name : i \in {i \in 1..Len(Steps) : i < position + 1}}
    BY <2>1, <1>0, <1>1, <1>3, InPhase DEF StagesInOrder
  <2>3. \A i, j : ScannedNeed(i, j)' => (Steps[i].needs[j] \in Names(phase))'
    BY <1>0, <1>1, <1>5, InPhase DEF StagesInOrder
  <2> QED
    BY <2>2, <2>3, <1>0, <1>1, <1>2, InPhase DEF StagesInOrder
<1>7. AdjIsNeeds'
  BY <1>0, <1>1, <1>2, <1>5, InPhase DEF AdjIsNeeds
<1>8. DegreeIsPending'
  <2>1. \A m \in Name : Pending(m)' = Pending(m)
    BY <1>1, <1>2 DEF Pending, Relaxed, Taken, Placed
  <2> QED
    BY <2>1, <1>0, <1>2, InPhase DEF DegreeIsPending
<1>9. QueueIsSet' /\ QueuedIffFree' /\ EdgesAreSuffix' /\ NeedsFirst'
  BY <1>1, <1>2 DEF QueueIsSet, QueuedIffFree, EdgesAreSuffix, NeedsFirst, Waiting, Taken
<1>10. Verdicts' /\ Sorting'
  BY <1>0, <1>2, InPhase, VerdictsStay DEF Sorting
<1> QED
  BY <1>4, <1>6, <1>7, <1>8, <1>9, <1>10 DEF DagInv

-----------------------------------------------------------------------------
(* The sort of a phase.                                                    *)

\* Which needs were scanned, and what adj made of them, stays.
LEMMA ScanStays ==
  ASSUME DagInv, Sorting, Sorting',
         UNCHANGED <<pipeline, phase, position, need, counted, adj>>,
         stage' = "scan" => queue' = <<>> /\ edges' = <<>> /\ order' = <<>>,
         stage' = "sort" => position > Len(Steps)
  PROVE  StagesInOrder' /\ AdjIsNeeds'
<1>1. Steps' = Steps /\ Names(phase)' = Names(phase)
  BY SamePipeline DEF Steps
<1>2. \A i, j : ScannedNeed(i, j)' <=> ScannedNeed(i, j)
  BY <1>1 DEF ScannedNeed
<1>3. StagesInOrder /\ AdjIsNeeds
  BY InPhase
<1>4. \A i, j : ScannedNeed(i, j)' => (Steps[i].needs[j] \in Names(phase))'
  BY <1>1, <1>2, <1>3 DEF StagesInOrder
<1>5. StagesInOrder'
  BY <1>1, <1>3, <1>4 DEF StagesInOrder
<1>6. AdjIsNeeds'
  BY <1>1, <1>2, <1>3 DEF AdjIsNeeds
<1> QED
  BY <1>5, <1>6

LEMMA SeedStep ==
  ASSUME DagInv, Seed PROVE DagInv'
<1> DEFINE Free == {n \in counted : inDegree[n] = 0}
<1>0. Sorting /\ Sorting'
  BY DEF Seed, Sorting
<1>1. /\ stage = "scan" /\ stage' = "sort" /\ position > Len(Steps)
      /\ order = <<>> /\ queue = <<>> /\ edges = <<>>
      /\ UNCHANGED <<pipeline, phase, position, need, counted, inDegree, adj, edges, order, sorted>>
      /\ queue' \in Listings(Free)
  BY <1>0, InPhase DEF Seed, StagesInOrder, scanVars
<1>2. Steps' = Steps /\ Names(phase)' = Names(phase)
  BY <1>1, SamePipeline DEF Steps
<1>3. counted = Names(phase) /\ Names(phase) \subseteq Name
  <2>1. {i \in 1..Len(Steps) : i < position} = 1..Len(Steps)
    BY <1>0, <1>1, InPhase
  <2>2. counted = {Steps[i].name : i \in 1..Len(Steps)}
    BY <2>1, <1>0, InPhase DEF StagesInOrder
  <2> QED
    BY <2>2, <1>0, InPhase DEF Names, Steps
<1>4. IsFiniteSet(Free)
  <2>1. Free \in SUBSET Name
    BY <1>3
  <2> QED
    BY <2>1, DagAssumption, FS_Subset
<1> HIDE DEF Free
<1>5. /\ queue' \in Seq(Free) /\ Len(queue') \in Nat
      /\ \A i, j \in 1..Len(queue') : queue'[i] = queue'[j] => i = j
      /\ \A x \in Free : \E i \in 1..Len(queue') : queue'[i] = x
      /\ \A i \in 1..Len(queue') : queue'[i] \in Free
  BY <1>1, <1>4, ListingHasAll, ElementOfSeq
<1>6. Waiting' = Free /\ Taken' = {} /\ Taken = {}
  BY <1>1, <1>5 DEF Waiting, Taken
<1>7. Free \subseteq Names(phase) /\ \A m \in Names(phase) : inDegree[m] = 0 <=> m \in Free
  BY <1>3 DEF Free
<1>8. DagTypeOK'
  <2>1. queue' \in Seq(Name)
    BY <1>3, <1>5, <1>7
  <2> QED
    BY <2>1, <1>0, <1>1, InPhase DEF DagTypeOK
<1>9. QueueIsSet'
  BY <1>1, <1>2, <1>5, <1>6, <1>7 DEF QueueIsSet
<1>10. QueuedIffFree'
  BY <1>1, <1>2, <1>6, <1>7 DEF QueuedIffFree
<1>11. DegreeIsPending'
  <2>1. \A m \in Name : Pending(m)' = Pending(m)
    BY <1>1, <1>2, <1>6 DEF Pending, Relaxed
  <2> QED
    BY <2>1, <1>0, <1>1, InPhase DEF DegreeIsPending
<1>12. EdgesAreSuffix' /\ NeedsFirst'
  BY <1>1 DEF EdgesAreSuffix, NeedsFirst
<1> QED
  BY <1>0, <1>1, <1>8, <1>9, <1>10, <1>11, <1>12, InPhase, ScanStays, VerdictsStay DEF DagInv

\* What a step of the sort finds, and what it leaves to the scan.
LEMMA InSort ==
  ASSUME DagInv, stage = "sort"
  PROVE  /\ Sorting /\ position > Len(Steps)
         /\ \A i \in 1..Len(Steps) : \A j \in 1..Len(Steps[i].needs) : ScannedNeed(i, j)
         /\ \A n \in Name : \A k \in 1..Len(adj[n]) :
              /\ adj[n][k] \in Names(phase)
              /\ \E i \in 1..Len(Steps) : Steps[i].name = adj[n][k] /\ n \in NeedSet(Steps[i])
         /\ \A i \in 1..Len(Steps) : \A n \in NeedSet(Steps[i]) :
              n \in Names(phase) /\ \E k \in 1..Len(adj[n]) : adj[n][k] = Steps[i].name
<1>1. Sorting
  BY DEF Sorting
<1>2. position > Len(Steps)
  BY <1>1, InPhase DEF StagesInOrder
<1>3. \A i \in 1..Len(Steps) : \A j \in 1..Len(Steps[i].needs) : ScannedNeed(i, j)
  BY <1>1, <1>2, InPhase DEF ScannedNeed
<1>4. ASSUME NEW n \in Name, NEW k \in 1..Len(adj[n])
      PROVE  /\ adj[n][k] \in Names(phase)
             /\ \E i \in 1..Len(Steps) : Steps[i].name = adj[n][k] /\ n \in NeedSet(Steps[i])
  <2>1. PICK i, j : ScannedNeed(i, j) /\ Steps[i].name = adj[n][k] /\ Steps[i].needs[j] = n
    BY <1>1, InPhase DEF AdjIsNeeds
  <2>2. i \in 1..Len(Steps) /\ j \in 1..Len(Steps[i].needs)
    BY <2>1 DEF ScannedNeed
  <2> QED
    BY <2>1, <2>2, <1>1, InPhase
<1>5. ASSUME NEW i \in 1..Len(Steps), NEW n \in NeedSet(Steps[i])
      PROVE  n \in Names(phase) /\ \E k \in 1..Len(adj[n]) : adj[n][k] = Steps[i].name
  <2>1. PICK j \in 1..Len(Steps[i].needs) : Steps[i].needs[j] = n
    BY DEF NeedSet
  <2>2. ScannedNeed(i, j)
    BY <1>3
  <2>3. AdjIsNeeds /\ StagesInOrder
    BY <1>1, InPhase
  <2> QED
    BY <2>1, <2>2, <2>3 DEF AdjIsNeeds, StagesInOrder
<1> QED
  BY <1>1, <1>2, <1>3, <1>4, <1>5

\* The step at the head of the queue is placed behind the steps it needs.
LEMMA TakeStep ==
  ASSUME DagInv, Take PROVE DagInv'
<1>0. stage = "sort" /\ Sorting /\ Sorting'
  BY DEF Take, Sorting
<1>1. /\ edges = <<>> /\ queue # <<>>
      /\ UNCHANGED <<pipeline, phase, stage, position, need, counted, inDegree, adj, sorted>>
      /\ Steps' = Steps /\ Names(phase)' = Names(phase)
  BY SamePipeline DEF Take, scanVars, Steps
<1>2. /\ adj \in [Name -> Seq(Name)] /\ inDegree \in [Name -> Nat]
      /\ queue \in Seq(Name) /\ order \in Seq(Nat)
      /\ QueueIsSet /\ QueuedIffFree /\ NeedsFirst /\ DegreeIsPending
      /\ phase \in 1..3 /\ DagTypeOK
  BY <1>0, InPhase
<1>3. PICK len \in Nat : len = Len(order)
  BY <1>2, ElementOfSeq
<1>4. PICK h \in Name, i \in 1..Len(Steps) :
        /\ h = Head(queue) /\ i = StepNamed(Head(queue)) /\ Steps[i].name = h
        /\ h \in Waiting /\ h \notin Taken /\ h \in Names(phase)
  <2>1. Head(queue) \in Name /\ Head(queue) \in Waiting
    BY <1>1, <1>2, HeadTailFacts DEF Waiting
  <2>2. Head(queue) \in Names(phase) /\ Head(queue) \notin Taken
    BY <2>1, <1>2 DEF QueueIsSet
  <2> QED
    BY <2>1, <2>2, <1>2, StepOfName
<1>5. order' = Append(order, i) /\ edges' = adj[h] /\ queue' = Tail(queue)
  BY <1>4 DEF Take
<1>6. i \in Nat
  BY <1>0, InPhase
<1>7. /\ order' \in Seq(Nat) /\ Len(order') = len + 1 /\ order'[len + 1] = i
      /\ \A k \in 1..len : order'[k] = order[k]
  BY <1>2, <1>3, <1>5, <1>6, AppendFacts
<1>8. /\ \A k \in 1..len : Placed(k)' = Placed(k)
      /\ Placed(len + 1)' = h
  BY <1>1, <1>4, <1>7 DEF Placed
<1>9. Taken' = Taken \cup {h}
  <2>1. 1..(len + 1) = 1..len \cup {len + 1}
    BY <1>3
  <2> QED
    BY <2>1, <1>3, <1>7, <1>8 DEF Taken
<1>10. /\ Len(queue) \in Nat \ {0} /\ queue[1] = h
       /\ queue' \in Seq(Name) /\ Len(queue') = Len(queue) - 1
       /\ \A k \in 1..Len(queue') : queue'[k] = queue[k + 1] /\ k + 1 \in 1..Len(queue)
  BY <1>1, <1>2, <1>4, <1>5, HeadTailFacts
<1>11. Waiting' = Waiting \ {h}
  <2>1. \A k, l \in 1..Len(queue) : queue[k] = queue[l] => k = l
    BY <1>2 DEF QueueIsSet
  <2>2. ASSUME NEW k \in 1..Len(queue') PROVE queue'[k] \in Waiting /\ queue'[k] # h
    <3>1. k + 1 \in 1..Len(queue) /\ 1 \in 1..Len(queue) /\ k + 1 # 1
      BY <1>10
    <3>2. queue[k + 1] # queue[1]
      BY <3>1, <2>1
    <3> QED
      BY <3>1, <3>2, <1>10 DEF Waiting
  <2>3. ASSUME NEW k \in 1..Len(queue), k # 1 PROVE queue[k] \in Waiting'
    <3>1. k - 1 \in 1..Len(queue') /\ k = (k - 1) + 1
      BY <2>3, <1>10
    <3>2. queue'[k - 1] = queue[k]
      BY <3>1, <1>10
    <3> QED
      BY <3>1, <3>2 DEF Waiting
  <2> QED
    <3>1. \A x \in Waiting : x = h \/ x \in Waiting'
      BY <2>3, <1>10 DEF Waiting
    <3>2. \A x \in Waiting' : x \in Waiting /\ x # h
      BY <2>2 DEF Waiting
    <3> QED
      BY <3>1, <3>2
<1>12. DagTypeOK'
  BY <1>1, <1>2, <1>5, <1>7, <1>10 DEF DagTypeOK
<1>13. QueueIsSet'
  <2>0. \A k \in 1..Len(order') : k \in 1..len \/ k = len + 1
    BY <1>3, <1>7
  <2>1. \A k \in 1..Len(order') : order'[k] \in 1..Len(Steps')
    BY <2>0, <1>1, <1>2, <1>3, <1>7 DEF QueueIsSet
  <2>2. \A k, l \in 1..Len(order') : Placed(k)' = Placed(l)' => k = l
    <3>1. \A k \in 1..len : Placed(k) \in Taken
      BY <1>3 DEF Taken
    <3>2. \A k, l \in 1..len : Placed(k) = Placed(l) => k = l
      BY <1>2, <1>3 DEF QueueIsSet
    <3> QED
      BY <3>1, <3>2, <2>0, <1>4, <1>8
  <2>3. \A k, l \in 1..Len(queue') : queue'[k] = queue'[l] => k = l
    <3> SUFFICES ASSUME NEW k \in 1..Len(queue'), NEW l \in 1..Len(queue'), queue'[k] = queue'[l]
                 PROVE  k = l
      OBVIOUS
    <3>1. k + 1 \in 1..Len(queue) /\ l + 1 \in 1..Len(queue) /\ queue[k + 1] = queue[l + 1]
      BY <1>10
    <3>2. k + 1 = l + 1
      BY <3>1, <1>2 DEF QueueIsSet
    <3> QED
      BY <3>2, <1>10
  <2>4. Waiting' \subseteq Names(phase)' /\ Waiting' \cap Taken' = {}
    BY <1>1, <1>2, <1>9, <1>11 DEF QueueIsSet
  <2> QED
    BY <2>1, <2>2, <2>3, <2>4 DEF QueueIsSet
<1>14. QueuedIffFree'
  <2>1. Waiting' \cup Taken' = Waiting \cup Taken
    BY <1>4, <1>9, <1>11
  <2> QED
    BY <2>1, <1>0, <1>1, <1>2 DEF QueuedIffFree
<1>15. EdgesAreSuffix'
  <2>1. order' # <<>> /\ Placed(Len(order))' = h
    BY <1>3, <1>7, <1>8
  <2>2. edges' = adj'[h] /\ Len(adj[h]) \in Nat
    BY <1>1, <1>2, <1>5, ElementOfSeq
  <2> QED
    BY <2>1, <2>2, <1>1 DEF EdgesAreSuffix
<1>16. DegreeIsPending'
  <2>1. ASSUME NEW n \in Name, NEW k \in 1..Len(adj[n])
        PROVE  Relaxed(n, k)' <=> Relaxed(n, k)
    <3>1. k \in Nat /\ Len(adj[n]) \in Nat /\ k <= Len(adj[n])
      BY <1>2, ElementOfSeq
    <3>2. Relaxed(n, k) <=> n \in Taken
      BY <3>1, <1>1 DEF Relaxed
    <3>3. Placed(Len(order))' = h
      BY <1>7, <1>8
    <3>4. Relaxed(n, k)' <=> n \in Taken' /\ (n = h => k + Len(adj[h]) <= Len(adj[n]))
      BY <3>3, <1>1, <1>5 DEF Relaxed
    <3> QED
      BY <3>1, <3>2, <3>4, <1>4, <1>9
  <2>2. ASSUME NEW m \in Name PROVE Pending(m)' = Pending(m)
    BY <2>1, <1>1 DEF Pending
  <2> QED
    BY <2>2, <1>1, <1>2 DEF DegreeIsPending
<1>17. NeedsFirst'
  <2>1. NeedSet(Steps[i]) \subseteq Taken
    <3> SUFFICES ASSUME NEW n \in NeedSet(Steps[i]) PROVE n \in Taken
      OBVIOUS
    <3>1. n \in Name
      BY <1>0, InPhase
    <3>2. PICK k \in 1..Len(adj[n]) : adj[n][k] = h
      BY <1>0, <1>4, InSort
    <3>3. inDegree[h] = 0
      BY <1>0, <1>2, <1>4 DEF QueuedIffFree
    <3>4. Pending(h) = {}
      BY <3>3, <1>2, FS_EmptySet DEF DegreeIsPending
    <3>5. k \in Nat
      BY <3>1, <1>2, ElementOfSeq
    <3>6. <<n, k>> \in Pending(h) \/ Relaxed(n, k)
      BY <3>1, <3>2, <3>5 DEF Pending
    <3> QED
      BY <3>4, <3>6 DEF Relaxed
  <2>2. Taken = {Placed(l)' : l \in 1..len}
    BY <1>3, <1>8 DEF Taken
  <2>3. ASSUME NEW k \in 1..Len(order')
        PROVE  NeedSet(Steps'[order'[k]]) \subseteq {Placed(l)' : l \in 1..k-1}
    <3>1. CASE k = len + 1
      <4>1. k - 1 = len
        BY <3>1, <1>3
      <4> QED
        BY <4>1, <3>1, <2>1, <2>2, <1>1, <1>7
    <3>2. CASE k \in 1..len
      <4>1. NeedSet(Steps[order[k]]) \subseteq {Placed(l) : l \in 1..k-1}
        BY <3>2, <1>2, <1>3 DEF NeedsFirst
      <4>2. \A l \in 1..k-1 : Placed(l)' = Placed(l)
        BY <3>2, <1>3, <1>8
      <4> QED
        BY <4>1, <4>2, <3>2, <1>1, <1>7
    <3> QED
      BY <3>1, <3>2, <1>3, <1>7
  <2> QED
    BY <2>3 DEF NeedsFirst
<1> QED
  BY <1>0, <1>1, <1>2, <1>12, <1>13, <1>14, <1>15, <1>16, <1>17, InPhase, InSort, ScanStays, VerdictsStay
  DEF DagInv

\* One of the names that wait for the name just taken waits for one name less.
LEMMA RelaxStep ==
  ASSUME DagInv, Relax PROVE DagInv'
<1>0. stage = "sort" /\ Sorting /\ Sorting'
  BY DEF Relax, Sorting
<1>1. /\ edges # <<>>
      /\ UNCHANGED <<pipeline, phase, stage, position, need, counted, adj, order, sorted>>
      /\ Steps' = Steps /\ Names(phase)' = Names(phase)
  BY SamePipeline DEF Relax, scanVars, Steps
<1>2. /\ adj \in [Name -> Seq(Name)] /\ inDegree \in [Name -> Nat]
      /\ queue \in Seq(Name) /\ edges \in Seq(Name) /\ order \in Seq(Nat)
      /\ QueueIsSet /\ QueuedIffFree /\ NeedsFirst /\ DegreeIsPending /\ EdgesAreSuffix
      /\ phase \in 1..3 /\ DagTypeOK
  BY <1>0, InPhase
<1>3. PICK len \in Nat \ {0} : len = Len(edges)
  BY <1>1, <1>2, HeadTailFacts
<1>4. /\ Head(edges) = edges[1] /\ edges' = Tail(edges) /\ edges' \in Seq(Name)
      /\ Len(edges') = len - 1 /\ \A k \in 1..(len - 1) : edges'[k] = edges[k + 1]
  BY <1>1, <1>2, <1>3, HeadTailFacts DEF Relax
<1>5. Len(order) \in Nat \ {0} /\ Placed(Len(order)) \in Taken /\ Placed(Len(order)) \in Name
  <2>1. Len(order) \in Nat \ {0}
    BY <1>1, <1>2, HeadTailFacts DEF EdgesAreSuffix
  <2>2. order[Len(order)] \in 1..Len(Steps)
    BY <2>1, <1>2 DEF QueueIsSet
  <2> QED
    BY <2>1, <2>2, <1>0, InPhase DEF Placed, Taken
<1>6. PICK n0 \in Name : n0 = Placed(Len(order)) /\ n0 \in Taken
  BY <1>5
<1>7. /\ Placed(Len(order))' = n0 /\ Taken' = Taken
      /\ \A k \in 1..Len(order) : Placed(k)' = Placed(k)
  BY <1>1, <1>6 DEF Placed, Taken
<1>8. PICK all \in Nat :
        /\ all = Len(adj[n0]) /\ len <= all
        /\ \A k \in 1..len : edges[k] = adj[n0][all - len + k]
  <2>1. Len(adj[n0]) \in Nat
    BY <1>2, <1>6, ElementOfSeq
  <2> QED
    BY <2>1, <1>1, <1>2, <1>3, <1>6 DEF EdgesAreSuffix
<1>9. PICK p \in Nat : p = all - len + 1 /\ p \in 1..all
  <2>1. all - len + 1 \in 1..all
    BY <1>3, <1>8
  <2> QED
    BY <2>1
<1>10. PICK e \in Name : e = Head(edges) /\ e = adj[n0][p] /\ e \in Names(phase)
  <2>1. Head(edges) = adj[n0][p]
    BY <1>3, <1>4, <1>8, <1>9
  <2>2. adj[n0][p] \in Names(phase) /\ adj[n0][p] \in Name
    <3>1. p \in 1..Len(adj[n0])
      BY <1>8, <1>9
    <3>2. adj[n0][p] \in Names(phase)
      BY <3>1, <1>0, InSort
    <3> QED
      BY <3>2, <1>0, InPhase
  <2> QED
    BY <2>1, <2>2
<1>11. /\ inDegree' = [inDegree EXCEPT ![e] = @ - 1]
       /\ queue' = IF inDegree[e] = 1 THEN Append(queue, e) ELSE queue
  BY <1>10 DEF Relax
<1>12. ASSUME NEW n \in Name, NEW k \in 1..Len(adj[n])
       PROVE  Relaxed(n, k)' <=> Relaxed(n, k) \/ (n = n0 /\ k = p)
  <2>1. k \in Nat /\ Len(adj[n]) \in Nat
    BY <1>2, ElementOfSeq
  <2>2. Relaxed(n, k) <=> n \in Taken /\ (n = n0 => k + len <= Len(adj[n]))
    BY <1>3, <1>6 DEF Relaxed
  <2>3. Relaxed(n, k)' <=> n \in Taken /\ (n = n0 => k + (len - 1) <= Len(adj[n]))
    BY <1>1, <1>4, <1>7 DEF Relaxed
  <2>4. CASE n = n0
    <3>1. Relaxed(n, k) <=> k + len <= all
      BY <2>2, <2>4, <1>6, <1>8
    <3>2. Relaxed(n, k)' <=> k + (len - 1) <= all
      BY <2>3, <2>4, <1>6, <1>8
    <3>3. k + (len - 1) <= all <=> k + len <= all \/ k = p
      BY <2>1, <1>9
    <3> QED
      BY <3>1, <3>2, <3>3, <2>4
  <2>5. CASE n # n0
    BY <2>2, <2>3, <2>5
  <2> QED
    BY <2>4, <2>5
<1>13. ~Relaxed(n0, p)
  BY <1>3, <1>6, <1>8, <1>9 DEF Relaxed
<1>14. \A m : /\ Pending(m) \in SUBSET (Name \X Nat) /\ Pending(m)' \in SUBSET (Name \X Nat)
              /\ \A n \in Name : \A k \in Nat :
                   /\ <<n, k>> \in Pending(m) <=>
                        k \in 1..Len(adj[n]) /\ adj[n][k] = m /\ ~Relaxed(n, k)
                   /\ <<n, k>> \in Pending(m)' <=>
                        k \in 1..Len(adj[n]) /\ adj[n][k] = m /\ ~Relaxed(n, k)'
  BY <1>1 DEF Pending
<1>15. Pending(e)' = Pending(e) \ {<<n0, p>>} /\ <<n0, p>> \in Pending(e)
  <2>1. <<n0, p>> \in Pending(e)
    BY <1>8, <1>9, <1>10, <1>13, <1>14
  <2>2. \A n \in Name : \A k \in Nat :
          <<n, k>> \in Pending(e)' <=> <<n, k>> \in Pending(e) /\ ~(n = n0 /\ k = p)
    BY <1>12, <1>14
  <2>3. \A n \in Name : \A k \in Nat :
          <<n, k>> \in Pending(e)' <=> <<n, k>> \in Pending(e) \ {<<n0, p>>}
    BY <2>2
  <2>4. Pending(e)' = Pending(e) \ {<<n0, p>>}
    BY <2>3, <1>14, SamePairs
  <2> QED
    BY <2>1, <2>4
<1>16. ASSUME NEW m \in Name, m # e PROVE Pending(m)' = Pending(m)
  <2>1. \A n \in Name : \A k \in Nat : <<n, k>> \in Pending(m)' <=> <<n, k>> \in Pending(m)
    BY <1>10, <1>12, <1>14, <1>16
  <2> QED
    BY <2>1, <1>14, SamePairs
<1>17. \A m \in Name : IsFiniteSet(Pending(m)) /\ inDegree[m] = Cardinality(Pending(m))
  BY <1>2 DEF DegreeIsPending
<1>18. inDegree[e] # 0
  BY <1>15, <1>17, FS_EmptySet
<1>19. /\ inDegree' \in [Name -> Nat] /\ inDegree'[e] = inDegree[e] - 1
       /\ \A m \in Name : m # e => inDegree'[m] = inDegree[m]
  BY <1>2, <1>11, <1>18
<1>20. DegreeIsPending'
  <2>1. IsFiniteSet(Pending(e)') /\ Cardinality(Pending(e)') = inDegree[e] - 1
    BY <1>15, <1>17, FS_RemoveElement
  <2>2. \A m \in Name : IsFiniteSet(Pending(m)') /\ inDegree'[m] = Cardinality(Pending(m)')
    BY <2>1, <1>16, <1>17, <1>19
  <2> QED
    BY <2>2 DEF DegreeIsPending
<1>21. e \notin Waiting \cup Taken
  BY <1>0, <1>2, <1>10, <1>18 DEF QueuedIffFree
<1>22. /\ queue' \in Seq(Name)
       /\ \A k, l \in 1..Len(queue') : queue'[k] = queue'[l] => k = l
       /\ Waiting' = IF inDegree[e] = 1 THEN Waiting \cup {e} ELSE Waiting
  <2>1. CASE inDegree[e] # 1
    BY <2>1, <1>2, <1>11 DEF QueueIsSet, Waiting
  <2>2. CASE inDegree[e] = 1
    <3>1. PICK q \in Nat : q = Len(queue)
      BY <1>2, ElementOfSeq
    <3>2. /\ queue' \in Seq(Name) /\ Len(queue') = q + 1 /\ queue'[q + 1] = e
          /\ \A k \in 1..q : queue'[k] = queue[k]
      BY <2>2, <3>1, <1>2, <1>11, AppendFacts
    <3>3. 1..(q + 1) = 1..q \cup {q + 1}
      BY <3>1
    <3>4. \A k \in 1..q : queue[k] # e
      BY <3>1, <1>21 DEF Waiting
    <3>5. \A k, l \in 1..q : queue[k] = queue[l] => k = l
      BY <3>1, <1>2 DEF QueueIsSet
    <3>6. \A k, l \in 1..(q + 1) : queue'[k] = queue'[l] => k = l
      BY <3>2, <3>3, <3>4, <3>5
    <3>7. Waiting' = Waiting \cup {e}
      BY <3>1, <3>2, <3>3 DEF Waiting
    <3> QED
      BY <2>2, <3>2, <3>6, <3>7
  <2> QED
    BY <2>1, <2>2
<1>23. DagTypeOK'
  BY <1>1, <1>2, <1>4, <1>19, <1>22 DEF DagTypeOK
<1>24. QueueIsSet'
  <2>1. /\ \A k \in 1..Len(order') : order'[k] \in 1..Len(Steps')
        /\ \A k, l \in 1..Len(order') : Placed(k)' = Placed(l)' => k = l
    BY <1>1, <1>2, <1>7 DEF QueueIsSet
  <2>2. Waiting' \subseteq Names(phase)' /\ Waiting' \cap Taken' = {}
    BY <1>1, <1>2, <1>7, <1>10, <1>21, <1>22, SMTT(30) DEF QueueIsSet
  <2> QED
    BY <2>1, <2>2, <1>22 DEF QueueIsSet
<1>25. QueuedIffFree'
  <2>1. ASSUME NEW m \in Names(phase)
        PROVE  inDegree'[m] = 0 <=> m \in Waiting' \cup Taken'
    <3>1. m \in Name /\ (inDegree[m] = 0 <=> m \in Waiting \cup Taken)
      BY <1>0, <1>2, InPhase DEF QueuedIffFree
    <3>2. CASE m # e
      BY <3>1, <3>2, <1>7, <1>19, <1>22
    <3>3. CASE m = e
      BY <3>3, <1>2, <1>7, <1>19, <1>21, <1>22
    <3> QED
      BY <3>2, <3>3
  <2> QED
    BY <2>1, <1>1 DEF QueuedIffFree
<1>26. EdgesAreSuffix'
  <2>1. ASSUME NEW k \in 1..(len - 1)
        PROVE  edges'[k] = adj[n0][all - (len - 1) + k]
    <3>0. k \in Nat /\ 1 <= k /\ k <= len - 1
      BY <1>3
    <3>1. k + 1 \in 1..len /\ all - len + (k + 1) = all - (len - 1) + k
      BY <3>0, <1>3
    <3> QED
      BY <3>1, <1>4, <1>8
  <2>2. order' # <<>> /\ len - 1 <= all
    BY <1>1, <1>2, <1>3, <1>8 DEF EdgesAreSuffix
  <2>3. adj'[Placed(Len(order))'] = adj[n0] /\ Len(adj[n0]) = all /\ Len(edges') = len - 1
    BY <1>1, <1>4, <1>7, <1>8
  <2>4. /\ order' # <<>> /\ Len(edges') <= Len(adj'[Placed(Len(order))'])
        /\ \A k \in 1..Len(edges') :
             edges'[k] = adj'[Placed(Len(order))'][Len(adj'[Placed(Len(order))']) - Len(edges') + k]
    BY <2>1, <2>2, <2>3
  <2> QED
    BY <2>4 DEF EdgesAreSuffix
<1>27. NeedsFirst'
  <2>1. ASSUME NEW k \in 1..Len(order)
        PROVE  NeedSet(Steps[order[k]]) \subseteq {Placed(l)' : l \in 1..k-1}
    <3>1. NeedSet(Steps[order[k]]) \subseteq {Placed(l) : l \in 1..k-1}
      BY <1>2 DEF NeedsFirst
    <3>2. \A l \in 1..k-1 : Placed(l)' = Placed(l)
      BY <1>5, <1>7
    <3> QED
      BY <3>1, <3>2
  <2> QED
    BY <2>1, <1>1 DEF NeedsFirst
<1> QED
  BY <1>0, <1>1, <1>20, <1>23, <1>24, <1>25, <1>26, <1>27, InPhase, InSort, ScanStays, VerdictsStay
  DEF DagInv

\* With every step placed, the order is one of the phase, and the phase is well
\* formed.
LEMMA EndPhaseStep ==
  ASSUME DagInv, EndPhase PROVE DagInv'
<1>0. stage = "sort" /\ Sorting
  BY DEF EndPhase, Sorting
<1>1. /\ queue = <<>> /\ edges = <<>> /\ Len(order) = Len(Steps)
      /\ UNCHANGED <<pipeline, queue, edges>>
      /\ sorted' = [sorted EXCEPT ![phase] = order]
      /\ phase' = phase + 1
      /\ stage' = IF phase = 3 THEN "accepted" ELSE "scan"
      /\ position' = 1 /\ need' = 1 /\ counted' = {} /\ order' = <<>>
      /\ inDegree' = [n \in Name |-> 0]
      /\ adj' = [n \in Name |-> <<>>]
  BY DEF EndPhase, NextPhase
<1>2. /\ order \in Seq(Nat) /\ QueueIsSet /\ NeedsFirst /\ Verdicts
      /\ phase \in 1..3 /\ DagTypeOK /\ sorted \in [1..3 -> Seq(Nat)]
      /\ Len(pipeline[phase]) \in Nat
  BY <1>0, InPhase DEF DagTypeOK, Steps
<1>3. /\ \A k \in 1..Len(pipeline[phase]) : order[k] \in 1..Len(pipeline[phase])
      /\ order \in [1..Len(pipeline[phase]) -> 1..Len(pipeline[phase])]
  BY <1>1, <1>2, SMTT(30) DEF QueueIsSet, Steps
<1>4. \A k, l \in 1..Len(pipeline[phase]) :
        pipeline[phase][order[k]].name = pipeline[phase][order[l]].name => k = l
  BY <1>1, <1>2 DEF QueueIsSet, Placed, Steps
<1>5. \A k \in 1..Len(pipeline[phase]) :
        NeedSet(pipeline[phase][order[k]]) \subseteq
          {pipeline[phase][order[l]].name : l \in 1..k-1}
  BY <1>1, <1>2 DEF NeedsFirst, Placed, Steps
<1>6. WellFormed(phase)
  BY <1>2, <1>3, <1>4, <1>5, OrderMakesWellFormed
<1>7. sorted'[phase] = order /\ sorted' \in [1..3 -> Seq(Nat)]
      /\ \A p \in 1..3 : p # phase => sorted'[p] = sorted[p]
  BY <1>1, <1>2
<1>8. ASSUME NEW q \in 1..3, q = phase PROVE InOrder(q)'
  <2>1. Len(order) = Len(pipeline[phase]) /\ \A k, l \in 1..Len(order) : order[k] = order[l] => k = l
    BY <1>1, <1>4 DEF Steps
  <2>2. ASSUME NEW k \in 1..Len(pipeline[phase]), NEW n \in NeedSet(pipeline[phase][order[k]])
        PROVE  \E l \in 1..k-1 : pipeline[phase][order[l]].name = n
    <3>1. n \in {pipeline[phase][order[l]].name : l \in 1..k-1}
      BY <1>5
    <3> QED
      BY <3>1
  <2>3. ListsInOrder(order, pipeline[phase])
    BY <2>1, <2>2, <1>3 DEF ListsInOrder
  <2> QED
    BY <2>3, <1>1, <1>7, <1>8 DEF InOrder
<1>9. ASSUME NEW p \in 1..3, p < phase'
      PROVE  WellFormed(p)' /\ InOrder(p)'
  <2>1. CASE p = phase
    BY <2>1, <1>1, <1>6, <1>8, SamePipeline
  <2>2. CASE p < phase
    <3>1. WellFormed(p) /\ InOrder(p)
      BY <2>2, <1>2 DEF Verdicts
    <3> QED
      BY <3>1, <2>2, <1>1, <1>2, <1>7, SamePipeline
  <2> QED
    BY <2>1, <2>2, <1>1, <1>2, <1>9
<1>10. Verdicts'
  BY <1>9, <1>1 DEF Verdicts
<1>11. DagTypeOK'
  BY <1>1, <1>2, <1>7 DEF DagTypeOK
<1>12. QueueIsSet' /\ QueuedIffFree' /\ EdgesAreSuffix' /\ NeedsFirst'
  BY <1>1 DEF QueueIsSet, QueuedIffFree, EdgesAreSuffix, NeedsFirst, Waiting, Taken
<1>13. \A i, j : ~ScannedNeed(i, j)'
  BY <1>1 DEF ScannedNeed
<1>14. \A m : Pending(m)' = {}
  BY <1>1 DEF Pending
<1>15. DegreeIsPending'
  BY <1>1, <1>14, FS_EmptySet DEF DegreeIsPending
<1>16. StagesInOrder'
  BY <1>1, <1>13 DEF StagesInOrder
<1>17. AdjIsNeeds'
  BY <1>1, <1>13 DEF AdjIsNeeds
<1> QED
  BY <1>10, <1>11, <1>12, <1>15, <1>16, <1>17 DEF DagInv

\* When a step could not be placed, the steps that were not either wait for one
\* another: a well formed phase has none.
LEMMA CycleFoundStep ==
  ASSUME DagInv, CycleFound PROVE DagInv'
<1>0. stage = "sort" /\ Sorting
  BY DEF CycleFound, Sorting
<1>1. /\ queue = <<>> /\ edges = <<>> /\ Len(order) # Len(Steps)
      /\ UNCHANGED <<pipeline, phase, position, need, counted, inDegree, adj, sorted, order, queue, edges>>
      /\ stage' = "rejected"
  BY DEF CycleFound, scanVars, sortVars
<1>2. /\ order \in Seq(Nat) /\ QueueIsSet /\ QueuedIffFree /\ DegreeIsPending /\ Verdicts
      /\ adj \in [Name -> Seq(Name)]
      /\ phase \in 1..3 /\ DagTypeOK /\ Len(Steps) \in Nat /\ Names(phase) \subseteq Name
  BY <1>0, InPhase
<1>3. ~WellFormed(phase)
  <2> SUFFICES ASSUME WellFormed(phase) PROVE FALSE
    OBVIOUS
  <2>1. /\ \A i, j \in 1..Len(Steps) : Steps[i].name = Steps[j].name => i = j
        /\ \A i \in 1..Len(Steps) : NeedSet(Steps[i]) \subseteq Names(phase)
        /\ \A B \in SUBSET (1..Len(Steps)) : B # {} =>
             \E i \in B : \A j \in B : Steps[j].name \notin NeedSet(Steps[i])
    BY DEF WellFormed, UniqueNames, NeedsAmong, Acyclic, Steps
  <2> DEFINE Left == {i \in 1..Len(Steps) : Steps[i].name \notin Taken}
  <2>2. Waiting = {}
    BY <1>1 DEF Waiting
  <2>3. Left # {}
    <3> SUFFICES ASSUME Left = {} PROVE FALSE
      OBVIOUS
    <3>1. order \in [1..Len(order) -> 1..Len(Steps)] /\ Len(order) \in Nat
      BY <1>2, ElementOfSeq DEF QueueIsSet
    <3>2. \A i \in 1..Len(Steps) : \E k \in 1..Len(order) : order[k] = i
      <4> SUFFICES ASSUME NEW i \in 1..Len(Steps)
                   PROVE  \E k \in 1..Len(order) : order[k] = i
        OBVIOUS
      <4>1. PICK k \in 1..Len(order) : Steps[order[k]].name = Steps[i].name
        BY DEF Taken, Placed
      <4> QED
        BY <4>1, <3>1, <2>1
    <3>3. \A k, l \in 1..Len(order) : order[k] = order[l] => k = l
      BY <1>2 DEF QueueIsSet, Placed
    <3>4. order \in Injection(1..Len(order), 1..Len(Steps))
      BY <3>1, <3>3 DEF Injection, IsInjective
    <3>5. order \in Surjection(1..Len(order), 1..Len(Steps))
      BY <3>1, <3>2 DEF Surjection
    <3>6. /\ IsFiniteSet(1..Len(Steps)) /\ Cardinality(1..Len(Steps)) = Len(Steps)
          /\ Cardinality(1..Len(order)) = Len(order)
      BY <3>1, <1>2, IntervalFacts
    <3> QED
      BY <3>4, <3>5, <3>6, <1>1, FS_Injection
  <2>4. PICK i \in Left : \A j \in Left : Steps[j].name \notin NeedSet(Steps[i])
    BY <2>1, <2>3
  <2>5. PICK m \in Names(phase) : m = Steps[i].name /\ m \notin Taken /\ m \in Name
    BY <1>0, <1>2, <2>4, InPhase
  <2>6. NeedSet(Steps[i]) \subseteq Taken
    <3> SUFFICES ASSUME NEW n \in NeedSet(Steps[i]), n \notin Taken PROVE FALSE
      OBVIOUS
    <3>0. n \in Names(phase)
      BY <2>1
    <3>1. PICK j \in 1..Len(Steps) : Steps[j].name = n
      BY <3>0 DEF Names, Steps
    <3> QED
      BY <3>1, <2>4
  <2>7. Pending(m) = {}
    <3> SUFFICES ASSUME NEW e \in Pending(m) PROVE FALSE
      OBVIOUS
    <3>. PICK n \in Name : \E k \in 1..Len(adj[n]) : adj[n][k] = m /\ ~Relaxed(n, k)
      BY DEF Pending
    <3>1. PICK k \in 1..Len(adj[n]) : adj[n][k] = m /\ ~Relaxed(n, k)
      OBVIOUS
    <3>2. PICK j \in 1..Len(Steps) : Steps[j].name = m /\ n \in NeedSet(Steps[j])
      BY <3>1, <1>0, InSort
    <3>3. n \in Taken
      BY <3>2, <2>1, <2>5, <2>6
    <3>4. k <= Len(adj[n]) /\ k \in Nat /\ Len(adj[n]) \in Nat
      BY <1>2, ElementOfSeq
    <3> QED
      BY <3>1, <3>3, <3>4, <1>1 DEF Relaxed
  <2>8. inDegree[m] = 0
    BY <2>5, <2>7, <1>2, FS_EmptySet DEF DegreeIsPending
  <2> QED
    BY <2>2, <2>5, <2>8, <1>0, <1>2 DEF QueuedIffFree
<1>4. DagTypeOK' /\ ~Sorting'
  BY <1>1, <1>2, SMTT(30) DEF DagTypeOK, Sorting
<1>5. \A p \in 1..3 : p < phase => WellFormed(p)' /\ InOrder(p)'
  BY <1>1, <1>2, SamePipeline DEF Verdicts
<1>6. ~WellFormed(phase)'
  BY <1>1, <1>3, SamePipeline
<1>7. Verdicts'
  BY <1>1, <1>2, <1>5, <1>6 DEF Verdicts
<1> QED
  BY <1>4, <1>7 DEF DagInv

-----------------------------------------------------------------------------
(* The sort of any pipeline.                                               *)

\* A step of something else.
LEMMA StutterStep ==
  ASSUME DagInv, UNCHANGED dagVars PROVE DagInv'
<1>1. /\ UNCHANGED <<pipeline, phase, stage, position, need, counted, inDegree, adj>>
      /\ UNCHANGED <<queue, edges, order, sorted>>
  BY DEF dagVars, scanVars, sortVars
<1>2. DagTypeOK'
  BY <1>1 DEF DagInv, DagTypeOK
<1>3. Verdicts'
  <2>1. \A p \in 1..3 : p < phase => WellFormed(p)' /\ InOrder(p)'
    BY <1>1, SamePipeline DEF DagInv, Verdicts
  <2>2. stage = "rejected" => \E p \in 1..3 : ~WellFormed(p)'
    BY <1>1, SamePipeline DEF DagInv, Verdicts
  <2> QED
    BY <2>1, <2>2, <1>1 DEF Verdicts
<1>4. ASSUME Sorting
      PROVE  /\ StagesInOrder' /\ AdjIsNeeds' /\ DegreeIsPending'
             /\ QueueIsSet' /\ QueuedIffFree' /\ EdgesAreSuffix' /\ NeedsFirst'
  <2>1. Steps' = Steps /\ Names(phase)' = Names(phase) /\ Waiting' = Waiting /\ Taken' = Taken
    BY <1>1, SamePipeline DEF Steps, Waiting, Taken, Placed
  <2>2. \A k : Placed(k)' = Placed(k)
    BY <1>1, <2>1 DEF Placed
  <2>3. StagesInOrder' /\ AdjIsNeeds'
    BY <1>1, <1>4, <2>1, InPhase, ScanStays DEF Sorting, StagesInOrder
  <2>4. \A m \in Name : Pending(m)' = Pending(m)
    BY <1>1, <2>1, <2>2 DEF Pending, Relaxed
  <2>5. DegreeIsPending'
    BY <1>1, <1>4, <2>4, InPhase DEF DegreeIsPending
  <2>6. QueueIsSet'
    BY <1>1, <1>4, <2>1, <2>2, InPhase DEF QueueIsSet
  <2>7. QueuedIffFree'
    BY <1>1, <1>4, <2>1, InPhase DEF QueuedIffFree
  <2>8. EdgesAreSuffix'
    <3>1. EdgesAreSuffix /\ Placed(Len(order))' = Placed(Len(order))
      BY <1>1, <1>4, <2>1, InPhase DEF Placed
    <3> QED
      BY <3>1, <1>1 DEF EdgesAreSuffix
  <2>9. NeedsFirst'
    <3>1. \A k \in 1..Len(order) : {Placed(l)' : l \in 1..k-1} = {Placed(l) : l \in 1..k-1}
      BY <2>2
    <3>2. NeedsFirst
      BY <1>4, InPhase
    <3> QED
      BY <3>1, <3>2, <1>1, <2>1 DEF NeedsFirst
  <2> QED
    BY <2>3, <2>5, <2>6, <2>7, <2>8, <2>9
<1> QED
  BY <1>1, <1>2, <1>3, <1>4 DEF DagInv, Sorting

LEMMA DagNext == DagInv /\ [Sort]_dagVars => DagInv'
<1> SUFFICES ASSUME DagInv, [Sort]_dagVars PROVE DagInv'
  OBVIOUS
<1>1. CASE Sort
  BY <1>1, LinkNeedStep, UnknownNeedStep, NextStepStep, SeedStep, TakeStep, RelaxStep,
     EndPhaseStep, CycleFoundStep DEF Sort
<1>2. CASE UNCHANGED dagVars
  BY <1>2, StutterStep
<1> QED
  BY <1>1, <1>2

THEOREM DagInvariant == SortSpec => []DagInv
  BY DagNext, DagInvInit, PTL DEF SortSpec

\* ValidateDAG accepts a pipeline just when, in each phase, no name is used twice,
\* every need names a step of the phase, and no steps wait for one another.
THEOREM AcceptedIffWellFormed == SortSpec => []AcceptsWellFormed
<1>1. DagInv => AcceptsWellFormed
  BY DEF DagInv, DagTypeOK, Verdicts, AcceptsWellFormed
<1> QED
  BY <1>1, DagInvariant, PTL

\* The orders it returns list the steps of each phase once each, and a step
\* behind all it needs: what Run and RunDestroy take for granted.
THEOREM AcceptedIsInOrder == SortSpec => [](stage = "accepted" => \A p \in 1..3 : InOrder(p))
<1>1. DagInv => (stage = "accepted" => \A p \in 1..3 : InOrder(p))
  BY DEF DagInv, DagTypeOK, Verdicts
<1> QED
  BY <1>1, DagInvariant, PTL
-----------------------------------------------------------------------------
(* IncludeExpander.  What is proved of the pipeline it makes is said of one *)
(* phase: S is the phase as it is written, P what became of it.             *)

Elements(q) == {q[i] : i \in 1..Len(q)}

IncludeNamed(S, h, d) == S[h].include # None /\ S[h].name = d

LeafNames(s) ==
  LET inner == Template[s.include]
  IN  {Qualified(s.name, inner[a].name) :
         a \in {a \in 1..Len(inner) : \A b \in 1..Len(inner) : inner[a].name \notin NeedSet(inner[b])}}

\* The names q have the needs of the i-th step as they are to be: in the place of an
\* include before it the leaves of its template.
Linked(S, i, q) ==
  \A d \in NeedSet(S[i]) :
    \/ d \in q /\ \A h \in 1..(i - 1) : ~IncludeNamed(S, h, d)
    \/ \E h \in 1..(i - 1) : IncludeNamed(S, h, d) /\ LeafNames(S[h]) \subseteq q

\* The i-th step is in P, or all of its template.
Made(S, P, i) ==
  IF S[i].include = None
  THEN \E k \in 1..Len(P) : P[k].name = S[i].name /\ Linked(S, i, NeedSet(P[k]))
  ELSE LET inner == Template[S[i].include]
       IN  \A b \in 1..Len(inner) : \E k \in 1..Len(P) :
             /\ P[k].name = Qualified(S[i].name, inner[b].name)
             /\ inner[b].needs = <<>> => Linked(S, i, NeedSet(P[k]))
             /\ \A d \in NeedSet(inner[b]) : Qualified(S[i].name, d) \in NeedSet(P[k])

\* Nothing else is in P.
FromSource(S, P) ==
  \A k \in 1..Len(P) : \E i \in 1..Len(S) : P[k].name \in Products(S[i])

\* What the leaves of the includes before the i-th step are known to be.
LeavesKnown(leaves, S, i) ==
  /\ \A n \in DOMAIN leaves :
       /\ leaves[n] \in Seq(Name)
       /\ \E h \in 1..(i - 1) : IncludeNamed(S, h, n) /\ LeafNames(S[h]) \subseteq Elements(leaves[n])
  /\ \A h \in 1..(i - 1) : S[h].include # None => S[h].name \in DOMAIN leaves

Expanded(p, i) == stage # "expand" \/ p < phase \/ (p = phase /\ i < position)

ExpandInv ==
  /\ source \in Sources
  /\ pipeline \in [1..3 -> Seq([name : Name, needs : Seq(Name)])]
  /\ stage \in {"expand", "unreadable", "scan", "sort", "accepted", "rejected"}
  /\ stage = "expand" =>
       /\ phase \in 1..3 /\ position \in 1..(Len(source[phase]) + 1)
       /\ need = 1 /\ counted = {}
       /\ inDegree = [n \in Name |-> 0] /\ adj = [n \in Name |-> <<>>]
       /\ queue = <<>> /\ edges = <<>> /\ order = <<>> /\ sorted = [p \in 1..3 |-> <<>>]
       /\ LeavesKnown(includeLeaves, source[phase], position)
  /\ stage \notin {"expand", "unreadable"} => DagInv
  /\ stage # "unreadable" =>
       \A p \in 1..3 :
         /\ FromSource(source[p], pipeline[p])
         /\ \A i \in 1..Len(source[p]) : Expanded(p, i) => Made(source[p], pipeline[p], i)

-----------------------------------------------------------------------------
(* Recursion.                                                              *)

\* What holds of zero, and with a number of the next, holds up to any bound.
LEMMA UpTo ==
  ASSUME NEW n \in Nat, NEW Good, 0 \in Good,
         \A k \in 0..n : k < n /\ k \in Good => k + 1 \in Good
  PROVE  0..n \subseteq Good
<1> SUFFICES ASSUME NEW l \in 0..n, l \notin Good PROVE FALSE
  OBVIOUS
<1> DEFINE Bad == {k \in 0..n : k \notin Good}
<1>1. PICK m \in Bad : \A k \in Bad : m <= k
  <2>1. Bad \in SUBSET Nat /\ l \in Bad
    OBVIOUS
  <2> HIDE DEF Bad
  <2> QED
    BY <2>1, Least
<1>2. m \in 1..n /\ m - 1 \in 0..n /\ m - 1 < n /\ (m - 1) + 1 = m
  OBVIOUS
<1>3. m - 1 \in Good
  BY <1>1, <1>2
<1> QED
  BY <1>1, <1>2, <1>3

\* A function that goes along 1..n by steps G, from a.
StepsAlong(f, a, n, G) == f[0] = a /\ \A i \in 1..n : f[i] = G[<<f[i - 1], i>>]

LEMMA AlongExists ==
  ASSUME NEW R, NEW a \in R, NEW n \in Nat, NEW G \in [R \X (1..n) -> R]
  PROVE  \E f \in [0..n -> R] : StepsAlong(f, a, n, G)
<1> DEFINE Good == {k \in 0..n : \E f \in [0..k -> R] : StepsAlong(f, a, k, G)}
<1>1. 0 \in Good
  <2>1. [i \in 0..0 |-> a] \in [0..0 -> R] /\ StepsAlong([i \in 0..0 |-> a], a, 0, G)
    BY DEF StepsAlong
  <2> QED
    BY <2>1
<1>2. ASSUME NEW k \in 0..n, k < n, k \in Good PROVE k + 1 \in Good
  <2>1. PICK f \in [0..k -> R] : StepsAlong(f, a, k, G)
    BY <1>2
  <2> DEFINE h == [i \in 0..(k + 1) |-> IF i = k + 1 THEN G[<<f[k], k + 1>>] ELSE f[i]]
  <2>2. k \in 0..k /\ k + 1 \in 1..n /\ f[k] \in R
    BY <1>2
  <2>3. G[<<f[k], k + 1>>] \in R
    BY <2>2
  <2>4. h \in [0..(k + 1) -> R] /\ h[0] = a
    BY <2>1, <2>3 DEF StepsAlong
  <2>5. ASSUME NEW i \in 1..(k + 1) PROVE h[i] = G[<<h[i - 1], i>>]
    <3>1. i - 1 \in 0..k /\ i \in 0..(k + 1) /\ i - 1 \in 0..(k + 1) /\ i - 1 # k + 1
      OBVIOUS
    <3>2. h[i - 1] = f[i - 1]
      BY <3>1
    <3>3. CASE i = k + 1
      <4>1. h[i] = G[<<f[k], k + 1>>] /\ i - 1 = k
        BY <3>3, <3>1
      <4> QED
        BY <4>1, <3>2, <3>3
    <3>4. CASE i # k + 1
      <4>1. i \in 1..k /\ h[i] = f[i]
        BY <3>4, <3>1
      <4> QED
        BY <4>1, <3>2, <2>1 DEF StepsAlong
    <3> QED
      BY <3>3, <3>4
  <2>6. StepsAlong(h, a, k + 1, G)
    <3> HIDE DEF h
    <3> QED
      BY <2>4, <2>5 DEF StepsAlong
  <2>7. k + 1 \in 0..n
    BY <1>2
  <2> HIDE DEF h
  <2> QED
    BY <2>4, <2>6, <2>7
<1>3. 0..n \subseteq Good
  <2> HIDE DEF Good
  <2> QED
    BY <1>1, <1>2, UpTo
<1> QED
  BY <1>3

\* A sequence behind another.
LEMMA ConcatFacts ==
  ASSUME NEW R, NEW q \in Seq(R), NEW r \in Seq(R)
  PROVE  /\ q \o r \in Seq(R) /\ Len(q \o r) = Len(q) + Len(r)
         /\ \A k \in 1..Len(q) : (q \o r)[k] = q[k]
         /\ \A k \in 1..Len(r) : (q \o r)[Len(q) + k] = r[k]
         /\ \A k \in 1..Len(q \o r) :
              k \in 1..Len(q) \/ \E l \in 1..Len(r) : k = Len(q) + l /\ (q \o r)[k] = r[l]
<1>1. q \o r \in Seq(R) /\ Len(q \o r) = Len(q) + Len(r) /\ Len(q) \in Nat /\ Len(r) \in Nat
  OBVIOUS
<1>2. \A k \in 1..Len(q) : (q \o r)[k] = q[k]
  OBVIOUS
<1>3. \A k \in 1..Len(r) : (q \o r)[Len(q) + k] = r[k]
  OBVIOUS
<1>4. ASSUME NEW k \in 1..Len(q \o r), k \notin 1..Len(q)
      PROVE  \E l \in 1..Len(r) : k = Len(q) + l /\ (q \o r)[k] = r[l]
  <2>1. k - Len(q) \in 1..Len(r) /\ k = Len(q) + (k - Len(q))
    BY <1>1, <1>4
  <2> QED
    BY <2>1, <1>3
<1> QED
  BY <1>1, <1>2, <1>3, <1>4

LEMMA ConcatElements ==
  ASSUME NEW R, NEW q \in Seq(R), NEW r \in Seq(R)
  PROVE  Elements(q \o r) = Elements(q) \cup Elements(r)
<1>1. Len(q) \in Nat /\ Len(r) \in Nat
  OBVIOUS
<1>2. ASSUME NEW k \in 1..Len(q \o r) PROVE (q \o r)[k] \in Elements(q) \cup Elements(r)
  BY ConcatFacts DEF Elements
<1>3. ASSUME NEW k \in 1..Len(q) PROVE q[k] \in Elements(q \o r)
  <2>1. k \in 1..Len(q \o r) /\ (q \o r)[k] = q[k]
    BY <1>1, ConcatFacts
  <2> QED
    BY <2>1 DEF Elements
<1>4. ASSUME NEW k \in 1..Len(r) PROVE r[k] \in Elements(q \o r)
  <2>1. Len(q) + k \in 1..Len(q \o r) /\ (q \o r)[Len(q) + k] = r[k]
    BY <1>1, ConcatFacts
  <2> QED
    BY <2>1 DEF Elements
<1> QED
  BY <1>2, <1>3, <1>4 DEF Elements

\* A flattened sequence has all that its sequences have.
LEMMA FlattenFacts ==
  ASSUME NEW R, NEW q \in Seq(Seq(R))
  PROVE  /\ FlattenSeq(q) \in Seq(R)
         /\ \A i \in 1..Len(q) : Elements(q[i]) \subseteq Elements(FlattenSeq(q))
<1> DEFINE n == Len(q)
           G == [x \in Seq(R) \X (1..n) |-> IF x[2] = 1 THEN q[x[2]] ELSE x[1] \o q[x[2]]]
           Eq(f) == f = [i \in 1..Len(q) |-> IF i = 1 THEN q[i] ELSE f[i - 1] \o q[i]]
           F == CHOOSE f : Eq(f)
<1>1. n \in Nat /\ \A i \in 1..n : q[i] \in Seq(R)
  OBVIOUS
<1>2. CASE n = 0
  <2>1. FlattenSeq(q) = q /\ q = <<>>
    BY <1>2 DEF FlattenSeq
  <2> QED
    BY <2>1, <1>2
<1>3. CASE n # 0
  <2>1. G \in [Seq(R) \X (1..n) -> Seq(R)]
    <3>1. ASSUME NEW x \in Seq(R), NEW i \in 1..n PROVE x \o q[i] \in Seq(R) /\ q[i] \in Seq(R)
      BY <1>1, ConcatFacts
    <3> QED
      BY <3>1
  <2>2. PICK f \in [0..n -> Seq(R)] : StepsAlong(f, <<>>, n, G)
    <3>1. <<>> \in Seq(R)
      OBVIOUS
    <3> HIDE DEF n, G
    <3> QED
      BY <3>1, <2>1, <1>1, AlongExists
  <2>3. ASSUME NEW i \in 1..n
        PROVE  /\ i - 1 \in 0..n /\ f[i - 1] \in Seq(R) /\ f[i] \in Seq(R)
               /\ f[i] = IF i = 1 THEN q[i] ELSE f[i - 1] \o q[i]
    <3>1. i - 1 \in 0..n /\ i \in 0..n
      BY <1>1
    <3>2. f[i - 1] \in Seq(R) /\ f[i] \in Seq(R)
      BY <3>1
    <3>3. G[<<f[i - 1], i>>] = IF i = 1 THEN q[i] ELSE f[i - 1] \o q[i]
      BY <3>2
    <3>4. f[i] = G[<<f[i - 1], i>>]
      BY <2>2 DEF StepsAlong
    <3> QED
      BY <3>1, <3>2, <3>3, <3>4
  <2> DEFINE g == [i \in 1..n |-> f[i]]
  <2>4. Eq(g)
    <3>1. ASSUME NEW i \in 1..n PROVE g[i] = IF i = 1 THEN q[i] ELSE g[i - 1] \o q[i]
      <4>1. CASE i = 1
        BY <4>1, <2>3
      <4>2. CASE i # 1
        <5>1. i - 1 \in 1..n
          BY <4>2, <1>1
        <5> QED
          BY <5>1, <4>2, <2>3
      <4> QED
        BY <4>1, <4>2
    <3>2. g = [i \in 1..n |-> g[i]]
      OBVIOUS
    <3> HIDE DEF g
    <3> QED
      BY <3>1, <3>2
  <2>5. Eq(F)
    <3> HIDE DEF Eq
    <3> QED
      BY <2>4
  <2>6. FlattenSeq(q) = F[n]
    BY <1>3 DEF FlattenSeq
  <2> DEFINE Good == {k \in 0..n : k # 0 => /\ F[k] \in Seq(R)
                                          /\ \A i \in 1..k : Elements(q[i]) \subseteq Elements(F[k])}
  <2>7. 0 \in Good
    BY <1>1
  <2>8. ASSUME NEW k \in 0..n, k < n, k \in Good PROVE k + 1 \in Good
    <3>1. k + 1 \in 1..n /\ k + 1 \in 0..n /\ (k + 1) - 1 = k /\ q[k + 1] \in Seq(R)
      BY <2>8, <1>1
    <3>2. F[k + 1] = IF k + 1 = 1 THEN q[k + 1] ELSE F[(k + 1) - 1] \o q[k + 1]
      <4> HIDE DEF F
      <4> QED
        BY <2>5, <3>1
    <3>3. CASE k = 0
      <4>1. F[k + 1] = q[k + 1]
        BY <3>2, <3>3
      <4>2. \A i \in 1..(k + 1) : i = k + 1
        BY <3>3
      <4> HIDE DEF F
      <4> QED
        BY <4>1, <4>2, <3>1
    <3>4. CASE k # 0
      <4>1. F[k + 1] = F[k] \o q[k + 1] /\ F[k] \in Seq(R) /\ \A i \in 1..k : Elements(q[i]) \subseteq Elements(F[k])
        <5>1. k + 1 # 1
          BY <3>4
        <5>2. F[k + 1] = F[k] \o q[k + 1]
          <6> HIDE DEF F
          <6> QED
            BY <5>1, <3>1, <3>2
        <5> HIDE DEF F
        <5> QED
          BY <5>2, <3>4, <2>8
      <4> HIDE DEF F
      <4>2. F[k + 1] \in Seq(R) /\ Elements(F[k + 1]) = Elements(F[k]) \cup Elements(q[k + 1])
        BY <4>1, <3>1, ConcatFacts, ConcatElements
      <4>3. \A i \in 1..(k + 1) : i \in 1..k \/ i = k + 1
        BY <3>1
      <4> QED
        BY <4>1, <4>2, <4>3, <3>1
    <3> QED
      BY <3>3, <3>4
  <2>9. 0..n \subseteq Good
    <3> HIDE DEF Good, n
    <3> QED
      BY <2>7, <2>8, <1>1, UpTo
  <2>10. n \in 0..n /\ n # 0
    BY <1>1, <1>3
  <2> HIDE DEF F
  <2> QED
    BY <2>6, <2>9, <2>10
<1> QED
  BY <1>2, <1>3

-----------------------------------------------------------------------------
(* Steps as written, and what Relinked and Leaves make of them.            *)

LEMMA WrittenTypes ==
  ASSUME NEW s \in Sources, NEW p \in 1..3
  PROVE  /\ s[p] \in Seq([name : Name, needs : Seq(Name), include : DOMAIN Template \cup {None}])
         /\ Len(s[p]) \in Nat
         /\ \A i \in 1..Len(s[p]) :
              /\ s[p][i].name \in Name /\ s[p][i].needs \in Seq(Name)
              /\ NeedSet(s[p][i]) = Elements(s[p][i].needs)
              /\ s[p][i].include # None =>
                   LET inner == Template[s[p][i].include]
                   IN  /\ inner \in Seq([name : STRING, needs : Seq(STRING)])
                       /\ \A a \in 1..Len(inner) :
                            /\ inner[a].name \in Locals(s[p][i].include)
                            /\ NeedSet(inner[a]) \subseteq Locals(s[p][i].include)
                            /\ Qualified(s[p][i].name, inner[a].name) \in Name
                            /\ \A d \in NeedSet(inner[a]) : Qualified(s[p][i].name, d) \in Name
<1>1. /\ s[p] \in Seq([name : Name, needs : Seq(Name), include : DOMAIN Template \cup {None}])
      /\ \A i \in 1..Len(s[p]) : s[p][i].include # None =>
           \A d \in Locals(s[p][i].include) : Qualified(s[p][i].name, d) \in Name
  BY ExpanderAssumption
<1>2. Len(s[p]) \in Nat
  BY <1>1
<1>3. ASSUME NEW i \in 1..Len(s[p])
      PROVE  s[p][i] \in [name : Name, needs : Seq(Name), include : DOMAIN Template \cup {None}]
  BY <1>1, ElementOfSeq
<1>4. ASSUME NEW i \in 1..Len(s[p]), s[p][i].include # None
      PROVE  LET inner == Template[s[p][i].include]
             IN  /\ inner \in Seq([name : STRING, needs : Seq(STRING)])
                 /\ \A a \in 1..Len(inner) :
                      /\ inner[a].name \in Locals(s[p][i].include)
                      /\ NeedSet(inner[a]) \subseteq Locals(s[p][i].include)
                      /\ Qualified(s[p][i].name, inner[a].name) \in Name
                      /\ \A d \in NeedSet(inner[a]) : Qualified(s[p][i].name, d) \in Name
  <2> DEFINE inner == Template[s[p][i].include]
  <2>1. s[p][i].include \in DOMAIN Template
    BY <1>3, <1>4
  <2>2. inner \in Seq([name : STRING, needs : Seq(STRING)])
    BY <2>1, ExpanderAssumption
  <2>3. \A a \in 1..Len(inner) : inner[a].name \in Locals(s[p][i].include)
                              /\ NeedSet(inner[a]) \subseteq Locals(s[p][i].include)
    BY DEF Locals
  <2> QED
    BY <2>2, <2>3, <1>1, <1>4
<1>5. \A i \in 1..Len(s[p]) : NeedSet(s[p][i]) = Elements(s[p][i].needs)
  BY DEF NeedSet, Elements
<1> QED
  BY <1>1, <1>2, <1>3, <1>4, <1>5

\* Leaves(include, steps) has every step that no other needs.
LEMMA LeavesFacts ==
  ASSUME NEW include, NEW steps, Len(steps) \in Nat,
         \A a \in 1..Len(steps) : Qualified(include, steps[a].name) \in Name
  PROVE  /\ Leaves(include, steps) \in Seq(Name)
         /\ \A a \in 1..Len(steps) :
              (\A b \in 1..Len(steps) : steps[a].name \notin NeedSet(steps[b])) =>
                 Qualified(include, steps[a].name) \in Elements(Leaves(include, steps))
<1> DEFINE Leaf(a) == \A b \in 1..Len(steps) : steps[a].name \notin NeedSet(steps[b])
           One(a) == IF Leaf(a) THEN <<Qualified(include, steps[a].name)>> ELSE <<>>
           q == [a \in 1..Len(steps) |-> One(a)]
<1>1. \A a \in 1..Len(steps) : One(a) \in Seq(Name)
  <2> SUFFICES ASSUME NEW a \in 1..Len(steps) PROVE One(a) \in Seq(Name)
    OBVIOUS
  <2>1. <<>> \in Seq(Name) /\ <<Qualified(include, steps[a].name)>> \in Seq(Name)
    OBVIOUS
  <2> HIDE DEF Leaf
  <2> QED
    BY <2>1
<1>2. q \in Seq(Seq(Name)) /\ Len(q) = Len(steps) /\ \A a \in 1..Len(steps) : q[a] = One(a)
  <2> HIDE DEF One
  <2> QED
    BY <1>1
<1>3. Leaves(include, steps) = FlattenSeq(q)
  BY DEF Leaves
<1>4. /\ FlattenSeq(q) \in Seq(Name)
      /\ \A a \in 1..Len(steps) : Elements(q[a]) \subseteq Elements(FlattenSeq(q))
  <2> HIDE DEF q
  <2> QED
    BY <1>2, FlattenFacts
<1>5. ASSUME NEW a \in 1..Len(steps), Leaf(a)
      PROVE  Qualified(include, steps[a].name) \in Elements(q[a])
  <2>1. q[a] = <<Qualified(include, steps[a].name)>>
    <3> HIDE DEF Leaf, q
    <3> QED
      BY <1>2, <1>5
  <2> HIDE DEF q
  <2>2. Len(q[a]) = 1 /\ q[a][1] = Qualified(include, steps[a].name)
    BY <2>1
  <2> QED
    BY <2>2 DEF Elements
<1> HIDE DEF q
<1> QED
  BY <1>3, <1>4, <1>5

\* Relinked(needs) has every need, or in its place the leaves of the include it names.
LEMMA RelinkedFacts ==
  ASSUME NEW needs \in Seq(Name),
         \A n \in DOMAIN includeLeaves : includeLeaves[n] \in Seq(Name)
  PROVE  /\ Relinked(needs) \in Seq(Name)
         /\ \A d \in Elements(needs) :
              IF d \in DOMAIN includeLeaves
              THEN Elements(includeLeaves[d]) \subseteq Elements(Relinked(needs))
              ELSE d \in Elements(Relinked(needs))
<1> DEFINE One(k) == IF needs[k] \in DOMAIN includeLeaves THEN includeLeaves[needs[k]] ELSE <<needs[k]>>
           q == [k \in 1..Len(needs) |-> One(k)]
<1>1. \A k \in 1..Len(needs) : One(k) \in Seq(Name)
  <2> SUFFICES ASSUME NEW k \in 1..Len(needs) PROVE One(k) \in Seq(Name)
    OBVIOUS
  <2>1. needs[k] \in Name
    BY ElementOfSeq
  <2> QED
    BY <2>1
<1>2. q \in Seq(Seq(Name)) /\ Len(q) = Len(needs) /\ \A k \in 1..Len(needs) : q[k] = One(k)
  <2>1. Len(needs) \in Nat
    OBVIOUS
  <2> HIDE DEF One
  <2> QED
    BY <1>1, <2>1
<1>3. Relinked(needs) = FlattenSeq(q)
  BY DEF Relinked
<1>4. /\ FlattenSeq(q) \in Seq(Name)
      /\ \A k \in 1..Len(needs) : Elements(q[k]) \subseteq Elements(FlattenSeq(q))
  <2> HIDE DEF q
  <2> QED
    BY <1>2, FlattenFacts
<1>5. ASSUME NEW d \in Elements(needs)
      PROVE  IF d \in DOMAIN includeLeaves
             THEN Elements(includeLeaves[d]) \subseteq Elements(FlattenSeq(q))
             ELSE d \in Elements(FlattenSeq(q))
  <2>1. PICK k \in 1..Len(needs) : needs[k] = d
    BY DEF Elements
  <2>2. q[k] = One(k) /\ Elements(q[k]) \subseteq Elements(FlattenSeq(q))
    <3> HIDE DEF q
    <3> QED
      BY <1>2, <1>4
  <2> HIDE DEF q
  <2>3. CASE d \in DOMAIN includeLeaves
    BY <2>1, <2>2, <2>3
  <2>4. CASE d \notin DOMAIN includeLeaves
    <3>1. q[k] = <<d>>
      BY <2>1, <2>2, <2>4
    <3>2. Len(q[k]) = 1 /\ q[k][1] = d
      BY <3>1
    <3>3. d \in Elements(q[k])
      BY <3>2 DEF Elements
    <3> QED
      BY <3>3, <2>2, <2>4
  <2> QED
    BY <2>3, <2>4
<1> HIDE DEF q
<1> QED
  BY <1>3, <1>4, <1>5

LEMMA RelinkedLinks ==
  ASSUME NEW S, NEW i \in Nat, LeavesKnown(includeLeaves, S, i), S[i].needs \in Seq(Name),
         NeedSet(S[i]) = Elements(S[i].needs)
  PROVE  Relinked(S[i].needs) \in Seq(Name) /\ Linked(S, i, Elements(Relinked(S[i].needs)))
<1> DEFINE q == Relinked(S[i].needs)
<1>1. \A n \in DOMAIN includeLeaves : includeLeaves[n] \in Seq(Name)
  BY DEF LeavesKnown
<1>2. /\ q \in Seq(Name)
      /\ \A d \in NeedSet(S[i]) :
           IF d \in DOMAIN includeLeaves THEN Elements(includeLeaves[d]) \subseteq Elements(q)
           ELSE d \in Elements(q)
  BY <1>1, RelinkedFacts
<1> HIDE DEF q
<1>3. ASSUME NEW d \in NeedSet(S[i]), d \in DOMAIN includeLeaves
      PROVE  \E h \in 1..(i - 1) : IncludeNamed(S, h, d) /\ LeafNames(S[h]) \subseteq Elements(q)
  <2>1. PICK h \in 1..(i - 1) : IncludeNamed(S, h, d) /\ LeafNames(S[h]) \subseteq Elements(includeLeaves[d])
    BY <1>3 DEF LeavesKnown
  <2> QED
    BY <2>1, <1>2, <1>3
<1>4. ASSUME NEW d \in NeedSet(S[i]), d \notin DOMAIN includeLeaves
      PROVE  d \in Elements(q) /\ \A h \in 1..(i - 1) : ~IncludeNamed(S, h, d)
  BY <1>2, <1>4 DEF LeavesKnown, IncludeNamed
<1>5. Linked(S, i, Elements(q))
  BY <1>3, <1>4 DEF Linked
<1> QED
  BY <1>2, <1>5 DEF q

-----------------------------------------------------------------------------
(* The steps of the expansion.                                             *)

Step == [name : Name, needs : Seq(Name)]

LEMMA ExpandInitInv == ExpandInit => ExpandInv
<1> SUFFICES ASSUME ExpandInit PROVE ExpandInv
  OBVIOUS
<1> USE DEF ExpandInit, SortInit
<1>1. phase \in 1..3 /\ position \in 1..(Len(source[phase]) + 1)
  <2>1. Len(source[1]) \in Nat
    BY WrittenTypes
  <2> QED
    BY <2>1
<1>2. LeavesKnown(includeLeaves, source[phase], position)
  BY DEF LeavesKnown
<1>3. pipeline \in [1..3 -> Seq([name : Name, needs : Seq(Name)])]
  OBVIOUS
<1>4. \A p \in 1..3 : FromSource(source[p], pipeline[p]) /\ \A i \in 1..Len(source[p]) : ~Expanded(p, i)
  BY DEF FromSource, Expanded
<1> QED
  BY <1>1, <1>2, <1>3, <1>4 DEF ExpandInv

\* What is made stays so when steps are put before or behind it.
LEMMA MadeWithin ==
  ASSUME NEW S, NEW P, NEW Q, NEW i, Made(S, P, i),
         \A k \in 1..Len(P) : \E l \in 1..Len(Q) : Q[l] = P[k]
  PROVE  Made(S, Q, i)
<1>1. CASE S[i].include = None
  <2>1. PICK k \in 1..Len(P) : P[k].name = S[i].name /\ Linked(S, i, NeedSet(P[k]))
    BY <1>1 DEF Made
  <2>2. PICK l \in 1..Len(Q) : Q[l] = P[k]
    OBVIOUS
  <2>3. Q[l].name = S[i].name /\ Linked(S, i, NeedSet(Q[l]))
    BY <2>1, <2>2
  <2> QED
    BY <2>3, <1>1 DEF Made
<1>2. CASE S[i].include # None
  <2> DEFINE inner == Template[S[i].include]
             Fits(b, t) == /\ t.name = Qualified(S[i].name, inner[b].name)
                           /\ inner[b].needs = <<>> => Linked(S, i, NeedSet(t))
                           /\ \A d \in NeedSet(inner[b]) : Qualified(S[i].name, d) \in NeedSet(t)
  <2>1. \A b \in 1..Len(inner) : \E k \in 1..Len(P) : Fits(b, P[k])
    BY <1>2 DEF Made
  <2>2. \A b \in 1..Len(inner) : \E l \in 1..Len(Q) : Fits(b, Q[l])
    <3> HIDE DEF Fits, inner
    <3> TAKE b \in 1..Len(inner)
    <3>1. PICK k \in 1..Len(P) : Fits(b, P[k])
      BY <2>1
    <3>2. PICK l \in 1..Len(Q) : Q[l] = P[k]
      OBVIOUS
    <3> QED
      BY <3>1, <3>2
  <2> QED
    BY <2>2, <1>2 DEF Made
<1> QED
  BY <1>1, <1>2

LEMMA BehindMade ==
  ASSUME NEW S, NEW P \in Seq(Step), NEW q \in Seq(Step), NEW j \in 1..Len(S),
         FromSource(S, P), \A k \in 1..Len(q) : q[k].name \in Products(S[j]),
         Made(S, q, j)
  PROVE  /\ P \o q \in Seq(Step) /\ FromSource(S, P \o q) /\ Made(S, P \o q, j)
         /\ \A i : Made(S, P, i) => Made(S, P \o q, i)
<1>1. P \o q \in Seq(Step) /\ Len(P) \in Nat /\ Len(q) \in Nat
  OBVIOUS
<1>2. /\ \A k \in 1..Len(P) : \E l \in 1..Len(P \o q) : (P \o q)[l] = P[k]
      /\ \A k \in 1..Len(q) : \E l \in 1..Len(P \o q) : (P \o q)[l] = q[k]
  <2>1. ASSUME NEW k \in 1..Len(P) PROVE k \in 1..Len(P \o q) /\ (P \o q)[k] = P[k]
    BY <1>1, ConcatFacts
  <2>2. ASSUME NEW k \in 1..Len(q)
        PROVE  Len(P) + k \in 1..Len(P \o q) /\ (P \o q)[Len(P) + k] = q[k]
    BY <1>1, ConcatFacts
  <2> QED
    BY <2>1, <2>2
<1>3. Made(S, P \o q, j) /\ \A i : Made(S, P, i) => Made(S, P \o q, i)
  BY <1>2, MadeWithin
<1>4. FromSource(S, P \o q)
  <2> SUFFICES ASSUME NEW k \in 1..Len(P \o q)
               PROVE  \E i \in 1..Len(S) : (P \o q)[k].name \in Products(S[i])
    BY DEF FromSource
  <2>1. (k \in 1..Len(P) /\ (P \o q)[k] = P[k]) \/ \E l \in 1..Len(q) : (P \o q)[k] = q[l]
    BY ConcatFacts
  <2> QED
    BY <2>1 DEF FromSource
<1> QED
  BY <1>1, <1>3, <1>4

\* The step at hand is replaced by q, which is what it is to become.
LEMMA EmitStep ==
  ASSUME ExpandInv, stage = "expand", position <= Len(source[phase]),
         NEW q \in Seq(Step), Emit(q),
         NEW S, S = source[phase],
         \A k \in 1..Len(q) : q[k].name \in Products(S[position]),
         Made(S, q, position), LeavesKnown(includeLeaves', S, position + 1)
  PROVE  ExpandInv'
<1>1. /\ source \in Sources /\ pipeline \in [1..3 -> Seq(Step)]
      /\ phase \in 1..3 /\ position \in 1..Len(S) /\ Len(S) \in Nat
      /\ FromSource(S, pipeline[phase])
      /\ \A p \in 1..3 :
           /\ FromSource(source[p], pipeline[p])
           /\ \A i \in 1..Len(source[p]) : Expanded(p, i) => Made(source[p], pipeline[p], i)
  <2>1. source \in Sources /\ phase \in 1..3 /\ position \in 1..(Len(S) + 1)
    BY DEF ExpandInv
  <2>2. Len(S) \in Nat
    BY <2>1, WrittenTypes
  <2> QED
    BY <2>1, <2>2 DEF ExpandInv, Step
<1>2. /\ position' = position + 1 /\ phase' = phase /\ stage' = stage /\ source' = source
      /\ UNCHANGED <<need, counted, inDegree, adj, queue, edges, order, sorted>>
      /\ pipeline' = [pipeline EXCEPT ![phase] = @ \o q]
  BY DEF Emit, sortVars
<1>3. PICK P \in Seq(Step) : P = pipeline[phase]
  BY <1>1
<1>4. /\ P \o q \in Seq(Step) /\ FromSource(S, P \o q) /\ Made(S, P \o q, position)
      /\ \A i : Made(S, P, i) => Made(S, P \o q, i)
  BY <1>1, <1>3, BehindMade
<1>5. /\ pipeline' \in [1..3 -> Seq(Step)] /\ pipeline'[phase] = P \o q
      /\ \A p \in 1..3 : p # phase => pipeline'[p] = pipeline[p]
  BY <1>1, <1>2, <1>3, <1>4
<1>6. ASSUME NEW p \in 1..3
      PROVE  /\ FromSource(source[p], pipeline'[p])
             /\ \A i \in 1..Len(source[p]) : Expanded(p, i)' => Made(source[p], pipeline'[p], i)
  <2>1. CASE p = phase
    <3>1. FromSource(source[p], pipeline'[p])
      BY <1>4, <1>5, <2>1
    <3>2. ASSUME NEW i \in 1..Len(source[p]), Expanded(p, i)'
          PROVE  Made(S, P \o q, i)
      <4>1. i < position + 1
        BY <3>2, <1>2, <2>1, <1>1 DEF Expanded
      <4>2. CASE i = position
        BY <4>2, <1>4
      <4>3. CASE i # position
        <5>1. i < position
          BY <4>1, <4>3, <1>1, <2>1
        <5>2. Made(S, P, i)
          BY <5>1, <1>1, <1>3, <2>1 DEF Expanded
        <5> QED
          BY <5>2, <1>4
      <4> QED
        BY <4>2, <4>3
    <3> QED
      BY <3>1, <3>2, <1>5, <2>1
  <2>2. CASE p # phase
    <3>1. \A i : Expanded(p, i)' <=> Expanded(p, i)
      BY <1>2, <2>2 DEF Expanded
    <3> QED
      BY <3>1, <2>2, <1>5, <1>1
  <2> QED
    BY <2>1, <2>2
<1>7. position + 1 \in 1..(Len(S) + 1)
  BY <1>1
<1>8. LeavesKnown(includeLeaves, source[phase], position)'
  <2>1. source'[phase'] = S /\ position' = position + 1
    BY <1>2
  <2> QED
    BY <2>1
<1>9. /\ need = 1 /\ counted = {} /\ inDegree = [n \in Name |-> 0] /\ adj = [n \in Name |-> <<>>]
      /\ queue = <<>> /\ edges = <<>> /\ order = <<>> /\ sorted = [p \in 1..3 |-> <<>>]
  BY DEF ExpandInv
<1> QED
  BY <1>1, <1>2, <1>5, <1>6, <1>7, <1>8, <1>9 DEF ExpandInv, Step

LEMMA AtWritten ==
  ASSUME ExpandInv, stage = "expand", position <= Len(source[phase]), NEW S, S = source[phase]
  PROVE  /\ position \in 1..Len(S) /\ Written = S[position]
         /\ S[position].name \in Name
         /\ LeavesKnown(includeLeaves, S, position)
         /\ Relinked(S[position].needs) \in Seq(Name)
         /\ Linked(S, position, Elements(Relinked(S[position].needs)))
         /\ S[position].include # None =>
              LET inner == Template[S[position].include]
              IN  /\ inner \in Seq([name : STRING, needs : Seq(STRING)])
                  /\ \A a \in 1..Len(inner) :
                       /\ Qualified(S[position].name, inner[a].name) \in Name
                       /\ \A d \in NeedSet(inner[a]) : Qualified(S[position].name, d) \in Name
<1>1. /\ source \in Sources /\ phase \in 1..3 /\ position \in 1..(Len(S) + 1)
      /\ LeavesKnown(includeLeaves, S, position)
  BY DEF ExpandInv
<1>2. Len(S) \in Nat
  BY <1>1, WrittenTypes
<1>3. position \in 1..Len(S) /\ position \in Nat
  BY <1>1, <1>2
<1>4. /\ S[position].name \in Name /\ S[position].needs \in Seq(Name)
      /\ NeedSet(S[position]) = Elements(S[position].needs)
  BY <1>1, <1>3, WrittenTypes
<1>5. S[position].include # None =>
        LET inner == Template[S[position].include]
        IN  /\ inner \in Seq([name : STRING, needs : Seq(STRING)])
            /\ \A a \in 1..Len(inner) :
                 /\ Qualified(S[position].name, inner[a].name) \in Name
                 /\ \A d \in NeedSet(inner[a]) : Qualified(S[position].name, d) \in Name
  BY <1>1, <1>3, WrittenTypes
<1>6. /\ Relinked(S[position].needs) \in Seq(Name)
      /\ Linked(S, position, Elements(Relinked(S[position].needs)))
  BY <1>1, <1>3, <1>4, RelinkedLinks
<1> QED
  BY <1>1, <1>3, <1>4, <1>5, <1>6 DEF Written

LEMMA ExpandStepKeeps ==
  ASSUME ExpandInv, ExpandStep PROVE ExpandInv'
<1>1. PICK S : S = source[phase]
  OBVIOUS
<1>2. PICK k : k = position
  OBVIOUS
<1>3. PICK r : r = Relinked(S[k].needs)
  OBVIOUS
<1>4. /\ stage = "expand" /\ position <= Len(source[phase]) /\ UNCHANGED includeLeaves
      /\ S[k].include = None
      /\ Emit(<<[name |-> S[k].name, needs |-> r]>>)
  BY <1>1, <1>2, <1>3 DEF ExpandStep, Written
<1>5. /\ k \in 1..Len(S) /\ S[k].name \in Name /\ r \in Seq(Name) /\ Linked(S, k, Elements(r))
      /\ LeavesKnown(includeLeaves, S, k)
  BY <1>1, <1>2, <1>3, <1>4, AtWritten
<1>6. PICK q : q = <<[name |-> S[k].name, needs |-> r]>>
  OBVIOUS
<1>7. q \in Seq(Step) /\ Len(q) = 1 /\ q[1].name = S[k].name /\ NeedSet(q[1]) = Elements(r)
  <2>1. q[1] = [name |-> S[k].name, needs |-> r] /\ q \in Seq(Step) /\ Len(q) = 1
    BY <1>5, <1>6 DEF Step
  <2> QED
    BY <2>1 DEF NeedSet, Elements
<1>8. Made(S, q, k) /\ \A l \in 1..Len(q) : q[l].name \in Products(S[k])
  BY <1>4, <1>5, <1>7 DEF Made, Products
<1>9. LeavesKnown(includeLeaves', S, k + 1)
  <2>1. k \in Nat /\ (k + 1) - 1 = k /\ \A h \in 1..k : h = k \/ h \in 1..(k - 1)
    BY <1>5
  <2>2. \A h \in 1..(k - 1) : h \in 1..k
    BY <2>1
  <2> QED
    BY <2>1, <2>2, <1>4, <1>5 DEF LeavesKnown
<1> QED
  BY <1>1, <1>2, <1>4, <1>6, <1>7, <1>8, <1>9, EmitStep

LEMMA ExpandIncludeKeeps ==
  ASSUME ExpandInv, ExpandInclude PROVE ExpandInv'
<1>1. PICK S : S = source[phase]
  OBVIOUS
<1>2. PICK k : k = position
  OBVIOUS
<1>3. PICK inner : inner = Template[S[k].include]
  OBVIOUS
<1>4. PICK name : name = S[k].name
  OBVIOUS
<1>5. PICK r : r = Relinked(S[k].needs)
  OBVIOUS
<1>6. PICK q : q = [i \in 1..Len(inner) |-> Product(S[k], inner[i])]
  OBVIOUS
<1>7. /\ stage = "expand" /\ position <= Len(source[phase]) /\ S[k].include # None
      /\ Emit(q)
      /\ includeLeaves' = [n \in DOMAIN includeLeaves \cup {name} |->
                             IF n = name THEN Leaves(n, inner) ELSE includeLeaves[n]]
  BY <1>1, <1>2, <1>3, <1>4, <1>6 DEF ExpandInclude, Written
<1>8. /\ k \in 1..Len(S) /\ name \in Name /\ r \in Seq(Name) /\ Linked(S, k, Elements(r))
      /\ LeavesKnown(includeLeaves, S, k)
      /\ inner \in Seq([name : STRING, needs : Seq(STRING)])
      /\ \A a \in 1..Len(inner) : /\ Qualified(name, inner[a].name) \in Name
                                  /\ \A d \in NeedSet(inner[a]) : Qualified(name, d) \in Name
  BY <1>1, <1>2, <1>3, <1>4, <1>5, <1>7, AtWritten
<1>9. /\ Len(inner) \in Nat /\ Len(q) = Len(inner)
      /\ \A a \in 1..Len(inner) : inner[a].needs \in Seq(STRING) /\ Len(inner[a].needs) \in Nat
  <2>1. \A a \in 1..Len(inner) : inner[a] \in [name : STRING, needs : Seq(STRING)]
    BY <1>8, ElementOfSeq
  <2>2. \A a \in 1..Len(inner) : inner[a].needs \in Seq(STRING)
    BY <2>1
  <2> QED
    BY <2>2, <1>6, <1>8
<1>10. ASSUME NEW a \in 1..Len(inner)
       PROVE  /\ q[a] \in Step /\ q[a].name = Qualified(name, inner[a].name)
              /\ inner[a].needs = <<>> => NeedSet(q[a]) = Elements(r)
              /\ \A d \in NeedSet(inner[a]) : Qualified(name, d) \in NeedSet(q[a])
  <2> DEFINE t == inner[a]
             renamed == [i \in 1..Len(t.needs) |-> Qualified(name, t.needs[i])]
  <2>1. q[a] = [name |-> Qualified(name, t.name), needs |-> IF t.needs = <<>> THEN r ELSE renamed]
    BY <1>4, <1>5, <1>6 DEF Product
  <2>2. Len(t.needs) \in Nat /\ \A i \in 1..Len(t.needs) : t.needs[i] \in NeedSet(t)
    BY <1>9 DEF NeedSet
  <2>3. renamed \in Seq(Name) /\ Len(renamed) = Len(t.needs)
        /\ \A i \in 1..Len(t.needs) : renamed[i] = Qualified(name, t.needs[i])
    <3>1. \A i \in 1..Len(t.needs) : Qualified(name, t.needs[i]) \in Name
      BY <2>2, <1>8
    <3> HIDE DEF t
    <3> QED
      BY <2>2, <3>1
  <2>4. q[a] \in Step
    <3>1. (IF t.needs = <<>> THEN r ELSE renamed) \in Seq(Name)
      <4> HIDE DEF renamed, t
      <4> QED
        BY <2>3, <1>8
    <3>2. Qualified(name, t.name) \in Name
      BY <1>8
    <3> HIDE DEF renamed, t
    <3> QED
      BY <2>1, <3>1, <3>2 DEF Step
  <2>5. q[a].name = Qualified(name, t.name)
    BY <2>1
  <2>6. ASSUME t.needs = <<>> PROVE NeedSet(q[a]) = Elements(r)
    <3>1. q[a].needs = r
      BY <2>1, <2>6
    <3> QED
      BY <3>1 DEF NeedSet, Elements
  <2>7. ASSUME NEW d \in NeedSet(t) PROVE Qualified(name, d) \in NeedSet(q[a])
    <3>1. PICK i \in 1..Len(t.needs) : t.needs[i] = d
      BY DEF NeedSet
    <3>2. t.needs # <<>>
      BY <3>1
    <3>3. q[a].needs = renamed
      BY <2>1, <3>2
    <3>4. i \in 1..Len(q[a].needs) /\ q[a].needs[i] = Qualified(name, d)
      <4> HIDE DEF renamed, t
      <4> QED
        BY <3>1, <3>3, <2>3
    <3> QED
      BY <3>4 DEF NeedSet
  <2> HIDE DEF renamed
  <2> QED
    BY <2>4, <2>5, <2>6, <2>7
<1>11. q \in Seq(Step)
  <2>1. \A a \in 1..Len(inner) : Product(S[k], inner[a]) \in Step
    BY <1>6, <1>10
  <2> QED
    BY <2>1, <1>6, <1>9
<1>12. Made(S, q, k)
  <2>1. ASSUME NEW b \in 1..Len(inner)
        PROVE  \E l \in 1..Len(q) :
                 /\ q[l].name = Qualified(name, inner[b].name)
                 /\ inner[b].needs = <<>> => Linked(S, k, NeedSet(q[l]))
                 /\ \A d \in NeedSet(inner[b]) : Qualified(name, d) \in NeedSet(q[l])
    BY <1>8, <1>9, <1>10
  <2> QED
    BY <2>1, <1>3, <1>4, <1>7 DEF Made
<1>13. \A l \in 1..Len(q) : q[l].name \in Products(S[k])
  BY <1>3, <1>4, <1>7, <1>9, <1>10 DEF Products
<1>14. LeavesKnown(includeLeaves', S, k + 1)
  <2>1. k \in Nat /\ (k + 1) - 1 = k /\ k \in 1..k
        /\ \A h \in 1..k : h = k \/ h \in 1..(k - 1)
    BY <1>8
  <2>2. \A h \in 1..(k - 1) : h \in 1..k
    BY <2>1
  <2>3. /\ Leaves(name, inner) \in Seq(Name)
        /\ \A a \in 1..Len(inner) :
             (\A b \in 1..Len(inner) : inner[a].name \notin NeedSet(inner[b])) =>
                Qualified(name, inner[a].name) \in Elements(Leaves(name, inner))
    BY <1>8, <1>9, LeavesFacts
  <2>4. LeafNames(S[k]) \subseteq Elements(Leaves(name, inner))
    BY <2>3, <1>3, <1>4 DEF LeafNames
  <2>5. IncludeNamed(S, k, name)
    BY <1>4, <1>7 DEF IncludeNamed
  <2>6. DOMAIN includeLeaves' = DOMAIN includeLeaves \cup {name} /\ includeLeaves'[name] = Leaves(name, inner)
        /\ \A n \in DOMAIN includeLeaves : n # name => includeLeaves'[n] = includeLeaves[n]
    BY <1>7
  <2>7. ASSUME NEW n \in DOMAIN includeLeaves'
        PROVE  /\ includeLeaves'[n] \in Seq(Name)
               /\ \E h \in 1..k : IncludeNamed(S, h, n) /\ LeafNames(S[h]) \subseteq Elements(includeLeaves'[n])
    <3>1. CASE n = name
      BY <3>1, <2>1, <2>3, <2>4, <2>5, <2>6
    <3>2. CASE n # name
      <4>1. includeLeaves'[n] = includeLeaves[n] /\ n \in DOMAIN includeLeaves
        BY <3>2, <2>6, <2>7
      <4>2. /\ includeLeaves[n] \in Seq(Name)
            /\ \E h \in 1..(k - 1) : IncludeNamed(S, h, n) /\ LeafNames(S[h]) \subseteq Elements(includeLeaves[n])
        BY <4>1, <1>8 DEF LeavesKnown
      <4> QED
        BY <4>1, <4>2, <2>2
    <3> QED
      BY <3>1, <3>2
  <2>8. \A h \in 1..k : S[h].include # None => S[h].name \in DOMAIN includeLeaves'
    BY <2>1, <2>6, <1>4, <1>8 DEF LeavesKnown
  <2> QED
    BY <2>1, <2>7, <2>8 DEF LeavesKnown
<1> QED
  BY <1>1, <1>2, <1>7, <1>11, <1>12, <1>13, <1>14, EmitStep

LEMMA UnreadableKeeps ==
  ASSUME ExpandInv, Unreadable PROVE ExpandInv'
<1>1. UNCHANGED <<pipeline, source>> /\ stage' = "unreadable"
  BY DEF Unreadable
<1> QED
  BY <1>1 DEF ExpandInv

LEMMA AnyPipelineNext == AnyPipeline' => DagInv'
<1>1. AnyPipeline => DagInv
  BY DagInvInit
<1> QED
  BY <1>1, PTL

LEMMA EndExpansionKeeps ==
  ASSUME ExpandInv, EndExpansion PROVE ExpandInv'
<1>1. /\ source \in Sources /\ phase \in 1..3 /\ pipeline \in [1..3 -> Seq(Step)]
      /\ stage = "expand" /\ position > Len(source[phase])
      /\ position \in 1..(Len(source[phase]) + 1)
      /\ need = 1 /\ counted = {} /\ inDegree = [n \in Name |-> 0] /\ adj = [n \in Name |-> <<>>]
      /\ queue = <<>> /\ edges = <<>> /\ order = <<>> /\ sorted = [p \in 1..3 |-> <<>>]
      /\ \A p \in 1..3 :
           /\ FromSource(source[p], pipeline[p])
           /\ \A i \in 1..Len(source[p]) : Expanded(p, i) => Made(source[p], pipeline[p], i)
  BY DEF ExpandInv, EndExpansion, Step
<1>2. /\ phase' = IF phase = 3 THEN 1 ELSE phase + 1
      /\ stage' = IF phase = 3 THEN "scan" ELSE "expand"
      /\ position' = 1 /\ includeLeaves' = [n \in {} |-> <<>>]
      /\ UNCHANGED <<pipeline, need, counted, inDegree, adj, queue, edges, order, sorted, source>>
  BY DEF EndExpansion, sortVars
<1>3. \A p \in 1..3 : Len(source[p]) \in Nat
  BY <1>1, WrittenTypes
<1>4. ASSUME NEW p \in 1..3, NEW i \in 1..Len(source[p]), Expanded(p, i)'
      PROVE  Made(source[p], pipeline[p], i)
  <2>1. p <= phase
    <3>1. CASE phase = 3
      BY <3>1
    <3>2. CASE phase # 3
      <4>1. p < phase + 1 \/ (p = phase + 1 /\ i < 1)
        BY <1>2, <1>4, <3>2 DEF Expanded
      <4>2. i >= 1
        BY <1>3
      <4> QED
        BY <4>1, <4>2, <1>1, <1>3
    <3> QED
      BY <3>1, <3>2
  <2>2. p = phase => i < position
    BY <1>1, <1>3
  <2>3. Expanded(p, i)
    BY <1>1, <2>1, <2>2 DEF Expanded
  <2> QED
    BY <1>1, <2>3
<1>5. CASE phase = 3
  <2>1. AnyPipeline'
    BY <1>1, <1>2, <1>5 DEF AnyPipeline, SortInit, Step
  <2>2. DagInv'
    BY <2>1, AnyPipelineNext
  <2> QED
    BY <1>1, <1>2, <1>4, <1>5, <2>2 DEF ExpandInv, Step
<1>6. CASE phase # 3
  <2>1. phase + 1 \in 1..3 /\ 1 \in 1..(Len(source[phase + 1]) + 1)
    BY <1>1, <1>3, <1>6
  <2>2. LeavesKnown(includeLeaves', source[phase + 1], 1)
    BY <1>2 DEF LeavesKnown
  <2>3. phase' = phase + 1 /\ stage' = "expand" /\ source' = source
    BY <1>2, <1>6
  <2> QED
    BY <1>1, <1>2, <1>4, <2>1, <2>2, <2>3 DEF ExpandInv, Step
<1> QED
  BY <1>5, <1>6

LEMMA SortKeepsPipeline == Sort => UNCHANGED pipeline /\ Sorting
  BY DEF Sort, Sorting, LinkNeed, UnknownNeed, NextStep, Seed, Take, Relax, EndPhase, NextPhase,
         CycleFound

LEMMA SortKeeps ==
  ASSUME ExpandInv, Sort, UNCHANGED <<source, includeLeaves>> PROVE ExpandInv'
<1>1. UNCHANGED pipeline /\ Sorting
  BY SortKeepsPipeline
<1>2. DagInv'
  BY <1>1, DagNext DEF ExpandInv, Sorting
<1>3. stage' \in {"scan", "sort", "accepted", "rejected"}
  BY <1>2 DEF DagInv, DagTypeOK
<1>4. \A p \in 1..3 :
        /\ FromSource(source[p], pipeline[p])
        /\ \A i \in 1..Len(source[p]) : Made(source[p], pipeline[p], i)
  BY <1>1 DEF ExpandInv, Sorting, Expanded
<1> QED
  BY <1>1, <1>2, <1>3, <1>4 DEF ExpandInv

LEMMA ExpandStutter ==
  ASSUME ExpandInv, UNCHANGED expandVars PROVE ExpandInv'
<1>1. UNCHANGED dagVars /\ UNCHANGED <<source, includeLeaves>>
  BY DEF expandVars
<1>2. /\ UNCHANGED <<pipeline, phase, stage, position, need, counted, inDegree, adj>>
      /\ UNCHANGED <<queue, edges, order, sorted>>
  BY <1>1 DEF dagVars, scanVars, sortVars
<1>3. stage \notin {"expand", "unreadable"} => DagInv'
  BY <1>1, StutterStep DEF ExpandInv
<1>4. \A p, i : Expanded(p, i)' <=> Expanded(p, i)
  BY <1>2 DEF Expanded
<1> QED
  BY <1>1, <1>2, <1>3, <1>4 DEF ExpandInv

LEMMA AlwaysExpandInv == ExpandSpec => []ExpandInv
<1>1. ExpandInv /\ [ExpandNext]_expandVars => ExpandInv'
  <2> SUFFICES ASSUME ExpandInv, [ExpandNext]_expandVars PROVE ExpandInv'
    OBVIOUS
  <2>1. CASE ExpandStep
    BY <2>1, ExpandStepKeeps
  <2>2. CASE ExpandInclude
    BY <2>2, ExpandIncludeKeeps
  <2>3. CASE Unreadable
    BY <2>3, UnreadableKeeps
  <2>4. CASE EndExpansion
    BY <2>4, EndExpansionKeeps
  <2>5. CASE Sort /\ UNCHANGED <<source, includeLeaves>>
    BY <2>5, SortKeeps
  <2>6. CASE UNCHANGED expandVars
    BY <2>6, ExpandStutter
  <2> QED
    BY <2>1, <2>2, <2>3, <2>4, <2>5, <2>6 DEF ExpandNext, Expand, Finished
<1> QED
  BY <1>1, ExpandInitInv, PTL DEF ExpandSpec

-----------------------------------------------------------------------------
(* What a name waits for in a phase that is sorted.                        *)

Ordered(p) == pipeline[p] \in Seq(Step) /\ UniqueNames(p) /\ InOrder(p)

LEMMA PlaceFacts ==
  ASSUME NEW p, Ordered(p)
  PROVE  /\ Len(pipeline[p]) \in Nat /\ Len(sorted[p]) = Len(pipeline[p])
         /\ \A k \in 1..Len(pipeline[p]) : pipeline[p][sorted[p][k]].name \in Names(p)
         /\ \A n \in Names(p) :
              /\ Place(p, n) \in 1..Len(pipeline[p])
              /\ pipeline[p][sorted[p][Place(p, n)]].name = n
              /\ NeedsOf(p, n) \in SUBSET Names(p)
              /\ \A m \in NeedsOf(p, n) : Place(p, m) < Place(p, n)
         /\ \A i \in 1..Len(pipeline[p]) :
              /\ pipeline[p][i].name \in Names(p)
              /\ NeedsOf(p, pipeline[p][i].name) = NeedSet(pipeline[p][i])
<1> DEFINE P == pipeline[p]
           N == Len(P)
           o == [k \in 1..N |-> sorted[p][k]]
           Before(k, n) == \E l \in 1..k-1 : P[sorted[p][l]].name = n
<1>0. P \in Seq(Step) /\ ListsInOrder(sorted[p], P)
  BY DEF Ordered, InOrder
<1>1. /\ N \in Nat /\ Len(sorted[p]) = N
      /\ \A k \in 1..N : sorted[p][k] \in 1..N
      /\ \A k, l \in 1..N : sorted[p][k] = sorted[p][l] => k = l
  BY <1>0 DEF ListsInOrder
<1>8. ASSUME NEW k \in 1..N, NEW n \in NeedSet(P[sorted[p][k]]) PROVE Before(k, n)
  BY <1>0 DEF ListsInOrder
<1>2. \A i, j \in 1..N : P[i].name = P[j].name => i = j
  BY DEF Ordered, UniqueNames
<1>3. \A i \in 1..N : P[i].name \in Names(p)
  BY DEF Names
<1>4. ASSUME NEW i \in 1..N PROVE \E k \in 1..N : sorted[p][k] = i
  <2>1. o \in Injection(1..N, 1..N)
    BY <1>1 DEF Injection, IsInjective
  <2>2. o \in Surjection(1..N, 1..N)
    <3> HIDE DEF o, N
    <3> QED
      BY <2>1, <1>1, FS_Interval, FS_Injection
  <2> QED
    BY <2>2 DEF Surjection
<1>5. ASSUME NEW i \in 1..N PROVE NeedsOf(p, P[i].name) = NeedSet(P[i])
  <2>1. {j \in 1..Len(pipeline[p]) : pipeline[p][j].name = P[i].name} = {i}
    BY <1>2
  <2> QED
    BY <2>1 DEF NeedsOf
<1>6. ASSUME NEW k \in 1..N, NEW n, P[sorted[p][k]].name = n PROVE Place(p, n) = k
  <2>1. \A l \in 1..N : P[sorted[p][l]].name = n => l = k
    BY <1>1, <1>2, <1>6
  <2> QED
    BY <2>1, <1>1, <1>6 DEF Place
<1>7. ASSUME NEW n \in Names(p)
      PROVE  /\ Place(p, n) \in 1..N /\ P[sorted[p][Place(p, n)]].name = n
             /\ NeedsOf(p, n) \in SUBSET Names(p)
             /\ \A m \in NeedsOf(p, n) : Place(p, m) < Place(p, n)
  <2>1. PICK i \in 1..N : P[i].name = n
    BY DEF Names
  <2>2. PICK k \in 1..N : sorted[p][k] = i
    BY <1>4
  <2>3. Place(p, n) = k
    BY <2>1, <2>2, <1>6
  <2>4. NeedsOf(p, n) = NeedSet(P[sorted[p][k]])
    BY <2>1, <2>2, <1>5
  <2>5. ASSUME NEW m \in NeedsOf(p, n) PROVE m \in Names(p) /\ Place(p, m) < k
    <3>0. Before(k, m)
      BY <2>4, <1>8
    <3>1. PICK l \in 1..k-1 : P[sorted[p][l]].name = m
      BY <3>0
    <3>2. l \in 1..N /\ l < k
      BY <1>1
    <3>3. m \in Names(p)
      BY <3>1, <3>2, <1>1, <1>3
    <3>4. Place(p, m) = l
      BY <3>1, <3>2, <1>6
    <3> QED
      BY <3>2, <3>3, <3>4
  <2> QED
    BY <2>1, <2>2, <2>3, <2>5
<1> QED
  BY <1>1, <1>3, <1>5, <1>7

\* The names that each round of Upstream adds to, up to all.
LEMMA UpstreamRounds ==
  ASSUME NEW p, Ordered(p), NEW n \in Names(p)
  PROVE  \E f \in [0..Len(pipeline[p]) -> SUBSET Names(p)] :
           /\ f[0] = NeedsOf(p, n) /\ Upstream(p, n) = f[Len(pipeline[p])]
           /\ \A k \in 1..Len(pipeline[p]) : f[k] = f[k-1] \cup UNION {NeedsOf(p, m) : m \in f[k-1]}
<1> DEFINE N == Len(pipeline[p])
           More(x) == x \cup UNION {NeedsOf(p, m) : m \in x}
           G == [x \in (SUBSET Names(p)) \X (1..N) |-> More(x[1])]
           Eq(f) == f = [k \in 0..N |-> IF k = 0 THEN NeedsOf(p, n)
                                        ELSE f[k-1] \cup UNION {NeedsOf(p, m) : m \in f[k-1]}]
           F == CHOOSE f : Eq(f)
<1>1. N \in Nat /\ NeedsOf(p, n) \in SUBSET Names(p)
      /\ \A m \in Names(p) : NeedsOf(p, m) \in SUBSET Names(p)
  BY PlaceFacts
<1>2. \A x \in SUBSET Names(p) : More(x) \in SUBSET Names(p)
  BY <1>1
<1>3. G \in [(SUBSET Names(p)) \X (1..N) -> SUBSET Names(p)]
  <2> HIDE DEF More
  <2> QED
    BY <1>2
<1>4. PICK g \in [0..N -> SUBSET Names(p)] : StepsAlong(g, NeedsOf(p, n), N, G)
  <2> HIDE DEF G, N
  <2> QED
    BY <1>1, <1>3, AlongExists
<1>5. g[0] = NeedsOf(p, n) /\ \A k \in 1..N : g[k] = More(g[k-1])
  <2>1. ASSUME NEW k \in 1..N PROVE g[k] = More(g[k-1])
    <3>1. k - 1 \in 0..N
      BY <1>1
    <3>2. g[k-1] \in SUBSET Names(p) /\ g[k] = G[<<g[k-1], k>>]
      BY <3>1, <1>4 DEF StepsAlong
    <3> HIDE DEF More
    <3> QED
      BY <3>2
  <2> QED
    BY <2>1, <1>4 DEF StepsAlong
<1>6. Eq(g)
  <2>1. ASSUME NEW k \in 0..N
        PROVE  g[k] = IF k = 0 THEN NeedsOf(p, n) ELSE More(g[k-1])
    <3>1. k = 0 \/ k \in 1..N
      BY <1>1
    <3> HIDE DEF More
    <3> QED
      BY <3>1, <1>5
  <2>2. g = [k \in 0..N |-> g[k]]
    OBVIOUS
  <2> QED
    BY <2>1, <2>2
<1>7. Eq(F)
  <2> HIDE DEF Eq
  <2> QED
    BY <1>6
<1>8. Upstream(p, n) = F[N]
  BY DEF Upstream
<1> HIDE DEF F
<1>9. /\ F[0] = NeedsOf(p, n)
      /\ \A k \in 1..N : k \in 0..N /\ F[k] = More(F[k-1])
  BY <1>1, <1>7
<1> DEFINE Good == {k \in 0..N : F[k] \in SUBSET Names(p)}
<1>10. 0..N \subseteq Good
  <2>1. 0 \in Good
    BY <1>1, <1>9
  <2>2. ASSUME NEW k \in 0..N, k < N, k \in Good PROVE k + 1 \in Good
    <3>1. k + 1 \in 1..N /\ k + 1 \in 0..N /\ (k + 1) - 1 = k
      BY <2>2, <1>1
    <3> HIDE DEF More
    <3> QED
      BY <3>1, <2>2, <1>9, <1>2
  <2> HIDE DEF Good, N
  <2> QED
    BY <2>1, <2>2, <1>1, UpTo
<1>11. F \in [0..N -> SUBSET Names(p)]
  <2>1. DOMAIN F = 0..N /\ F = [k \in 0..N |-> F[k]]
    BY <1>7
  <2> QED
    BY <2>1, <1>10
<1> QED
  BY <1>8, <1>9, <1>11

LEMMA UpstreamFacts ==
  ASSUME NEW p, Ordered(p), NEW n \in Names(p)
  PROVE  /\ NeedsOf(p, n) \subseteq Upstream(p, n)
         /\ \A m \in Upstream(p, n) :
              m \in Names(p) /\ Place(p, m) < Place(p, n) /\ NeedsOf(p, m) \subseteq Upstream(p, n)
         /\ \A X : (NeedsOf(p, n) \subseteq X /\ \A m \in X : NeedsOf(p, m) \subseteq X) =>
                      Upstream(p, n) \subseteq X
<1> DEFINE N == Len(pipeline[p])
<1>1. /\ N \in Nat
      /\ \A m \in Names(p) : Place(p, m) \in 1..N /\ \A d \in NeedsOf(p, m) : Place(p, d) < Place(p, m)
  BY PlaceFacts
<1>2. PICK f \in [0..N -> SUBSET Names(p)] :
        /\ f[0] = NeedsOf(p, n) /\ Upstream(p, n) = f[N]
        /\ \A k \in 1..N : f[k] = f[k-1] \cup UNION {NeedsOf(p, m) : m \in f[k-1]}
  BY UpstreamRounds
<1>3. \A k \in 0..N : k < N => k + 1 \in 0..N /\ k + 1 \in 1..N /\ (k + 1) - 1 = k
  BY <1>1
<1>4. N \in 0..N /\ N # 0
  BY <1>1
<1> HIDE DEF N
<1>5. \A k \in 0..N : k < N => f[k + 1] = f[k] \cup UNION {NeedsOf(p, m) : m \in f[k]}
  <2> TAKE k \in 0..N
  <2> HAVE k < N
  <2>1. k + 1 \in 1..N /\ (k + 1) - 1 = k
    BY <1>3
  <2> QED
    BY <2>1, <1>2
<1>6. NeedsOf(p, n) \subseteq f[N]
  <2> DEFINE Good == {k \in 0..N : NeedsOf(p, n) \subseteq f[k]}
  <2>1. 0 \in Good
    BY <1>1, <1>2
  <2>2. \A k \in 0..N : k < N /\ k \in Good => k + 1 \in Good
    BY <1>3, <1>5
  <2>3. 0..N \subseteq Good
    <3> HIDE DEF Good
    <3> QED
      BY <2>1, <2>2, <1>1, UpTo
  <2> QED
    BY <2>3, <1>4
<1>7. \A k \in 0..N : f[k] \subseteq Names(p)
  BY <1>2
<1>8. \A m \in f[N] : Place(p, m) < Place(p, n)
  <2> DEFINE Good == {k \in 0..N : \A m \in f[k] : Place(p, m) < Place(p, n)}
  <2>1. 0 \in Good
    BY <1>1, <1>2
  <2>2. ASSUME NEW k \in 0..N, k < N, k \in Good PROVE k + 1 \in Good
    <3>1. ASSUME NEW m \in f[k], NEW d \in NeedsOf(p, m) PROVE Place(p, d) < Place(p, n)
      <4>1. m \in Names(p) /\ d \in Names(p)
        BY <1>7, <3>1, PlaceFacts
      <4>2. /\ Place(p, d) < Place(p, m) /\ Place(p, m) < Place(p, n)
            /\ Place(p, d) \in Int /\ Place(p, m) \in Int /\ Place(p, n) \in Int
        BY <4>1, <3>1, <2>2, <1>1
      <4> QED
        BY <4>2
    <3>2. \A d \in f[k + 1] : Place(p, d) < Place(p, n)
      BY <3>1, <2>2, <1>5
    <3> QED
      BY <3>2, <2>2, <1>3
  <2>3. 0..N \subseteq Good
    <3> HIDE DEF Good
    <3> QED
      BY <2>1, <2>2, <1>1, UpTo
  <2> QED
    BY <2>3, <1>4
<1>9. ASSUME NEW m \in f[N] PROVE NeedsOf(p, m) \subseteq f[N]
  <2> DEFINE Old(k, d) == k # 0 /\ d \in f[k-1]
             Good == {k \in 0..N : \A d \in f[k] : Old(k, d) \/ Place(p, d) + k + 1 <= Place(p, n)}
  <2>1. 0 \in Good
    <3>1. ASSUME NEW d \in f[0] PROVE Place(p, d) + 0 + 1 <= Place(p, n)
      <4>1. d \in NeedsOf(p, n) /\ d \in Names(p)
        BY <1>2, <1>4, PlaceFacts
      <4>2. Place(p, d) < Place(p, n) /\ Place(p, d) \in Int /\ Place(p, n) \in Int
        BY <4>1, <1>1
      <4> QED
        BY <4>2
    <3> QED
      BY <3>1, <1>1
  <2>2. ASSUME NEW k \in 0..N, k < N, k \in Good PROVE k + 1 \in Good
    <3>1. k + 1 \in 0..N /\ (k + 1) - 1 = k /\ k \in Int
      BY <2>2, <1>1
    <3>2. ASSUME NEW d \in f[k + 1], d \notin f[k] PROVE Place(p, d) + (k + 1) + 1 <= Place(p, n)
      <4>1. PICK e \in f[k] : d \in NeedsOf(p, e)
        BY <3>2, <2>2, <1>5
      <4>2. e \in Names(p) /\ d \in Names(p)
        BY <4>1, <1>7, PlaceFacts
      <4>3. ~Old(k, e)
        <5> SUFFICES ASSUME k # 0, e \in f[k-1] PROVE FALSE
          OBVIOUS
        <5>1. k \in 1..N
          BY <1>1
        <5>2. d \in f[k]
          BY <5>1, <4>1, <1>2
        <5> QED
          BY <5>2, <3>2
      <4>4. Place(p, e) + k + 1 <= Place(p, n)
        <5> HIDE DEF Old
        <5> QED
          BY <4>1, <4>3, <2>2
      <4>5. /\ Place(p, d) < Place(p, e)
            /\ Place(p, d) \in Int /\ Place(p, e) \in Int /\ Place(p, n) \in Int
        BY <4>1, <4>2, <1>1
      <4> QED
        BY <4>4, <4>5, <3>1
    <3>3. \A d \in f[k] : Old(k + 1, d)
      BY <3>1
    <3> HIDE DEF Old
    <3> QED
      BY <3>1, <3>2, <3>3
  <2>3. 0..N \subseteq Good
    <3> HIDE DEF Good
    <3> QED
      BY <2>1, <2>2, <1>1, UpTo
  <2>4. m \in Names(p) /\ Place(p, m) \in 1..N /\ Place(p, n) \in 1..N
    BY <1>4, <1>7, <1>1
  <2>5. m \in f[N - 1]
    <3>1. Old(N, m) \/ Place(p, m) + N + 1 <= Place(p, n)
      <4> HIDE DEF Old
      <4> QED
        BY <2>3, <1>4
    <3> QED
      BY <3>1, <2>4, <1>1
  <2>6. N \in 1..N
    BY <1>1, <1>4
  <2> QED
    BY <2>5, <2>6, <1>2
<1>10. ASSUME NEW X, NeedsOf(p, n) \subseteq X, \A m \in X : NeedsOf(p, m) \subseteq X
       PROVE  f[N] \subseteq X
  <2> DEFINE Good == {k \in 0..N : f[k] \subseteq X}
  <2>1. 0 \in Good
    BY <1>1, <1>2, <1>10
  <2>2. \A k \in 0..N : k < N /\ k \in Good => k + 1 \in Good
    BY <1>3, <1>5, <1>10
  <2>3. 0..N \subseteq Good
    <3> HIDE DEF Good
    <3> QED
      BY <2>1, <2>2, <1>1, UpTo
  <2> QED
    BY <2>3, <1>4
<1> QED
  BY <1>2, <1>4, <1>6, <1>7, <1>8, <1>9, <1>10

LEMMA UpstreamOfUpstream ==
  ASSUME NEW p, Ordered(p), NEW n \in Names(p), NEW m \in Upstream(p, n)
  PROVE  Upstream(p, m) \subseteq Upstream(p, n)
<1>1. /\ m \in Names(p) /\ NeedsOf(p, m) \subseteq Upstream(p, n)
      /\ \A d \in Upstream(p, n) : NeedsOf(p, d) \subseteq Upstream(p, n)
  BY UpstreamFacts
<1> QED
  BY <1>1, UpstreamFacts

-----------------------------------------------------------------------------
(* An accepted phase is the phase as written.                              *)

\* What is known of phase p, written as S, when the pipeline is accepted.
MadeOf(S, p) ==
  /\ Ordered(p)
  /\ FromSource(S, pipeline[p])
  /\ \A i \in 1..Len(S) : Made(S, pipeline[p], i)

LEMMA MadeIsThere ==
  ASSUME NEW S, NEW p, MadeOf(S, p), NEW i \in 1..Len(S), NEW n \in Products(S[i])
  PROVE  n \in Names(p)
<1>1. Made(S, pipeline[p], i)
  BY DEF MadeOf
<1>2. \E k \in 1..Len(pipeline[p]) : pipeline[p][k].name = n
  <2>1. CASE S[i].include = None
    BY <2>1, <1>1 DEF Made, Products
  <2>2. CASE S[i].include # None
    <3> DEFINE inner == Template[S[i].include]
    <3>1. PICK b \in 1..Len(inner) : n = Qualified(S[i].name, inner[b].name)
      BY <2>2 DEF Products
    <3>2. \E k \in 1..Len(pipeline[p]) : pipeline[p][k].name = Qualified(S[i].name, inner[b].name)
      BY <2>2, <1>1 DEF Made
    <3> QED
      BY <3>1, <3>2
  <2> QED
    BY <2>1, <2>2
<1> QED
  BY <1>2 DEF Names

LEMMA MadeOnce ==
  ASSUME NEW p, MadeOf(source[p], p) PROVE AllOnce(p)
<1> DEFINE S == source[p]
           P == pipeline[p]
<1>1. /\ Len(P) \in Nat /\ Len(sorted[p]) = Len(P)
      /\ \A k \in 1..Len(P) : P[sorted[p][k]].name \in Names(p)
      /\ \A n \in Names(p) : Place(p, n) \in 1..Len(P) /\ P[sorted[p][Place(p, n)]].name = n
  BY PlaceFacts DEF MadeOf
<1>2. {P[sorted[p][k]].name : k \in 1..Len(sorted[p])} = Names(p)
  BY <1>1
<1>3. ASSUME NEW n \in Names(p) PROVE \E i \in 1..Len(S) : n \in Products(S[i])
  BY DEF MadeOf, FromSource, Names
<1>4. ASSUME NEW i \in 1..Len(S), NEW n \in Products(S[i]) PROVE n \in Names(p)
  BY MadeIsThere
<1>5. Names(p) = UNION {Products(S[i]) : i \in 1..Len(S)}
  BY <1>3, <1>4
<1> QED
  BY <1>1, <1>2, <1>5 DEF AllOnce

\* A step of a template is there, with the needs that the template says.
LEMMA MadeInner ==
  ASSUME NEW S, NEW p, MadeOf(S, p), NEW i \in 1..Len(S), S[i].include # None,
         NEW b \in 1..Len(Template[S[i].include])
  PROVE  LET t == Template[S[i].include][b]
             n == Qualified(S[i].name, t.name)
         IN  /\ n \in Names(p) /\ n \in Products(S[i])
             /\ t.needs = <<>> => Linked(S, i, NeedsOf(p, n))
             /\ \A d \in NeedSet(t) : Qualified(S[i].name, d) \in NeedsOf(p, n)
<1> DEFINE t == Template[S[i].include][b]
           n == Qualified(S[i].name, t.name)
           P == pipeline[p]
<1>1. PICK k \in 1..Len(P) : /\ P[k].name = n
                             /\ t.needs = <<>> => Linked(S, i, NeedSet(P[k]))
                             /\ \A d \in NeedSet(t) : Qualified(S[i].name, d) \in NeedSet(P[k])
  <2>1. Made(S, P, i)
    BY DEF MadeOf
  <2> QED
    BY <2>1 DEF Made
<1>2. P[k].name \in Names(p) /\ NeedsOf(p, P[k].name) = NeedSet(P[k])
  BY PlaceFacts DEF MadeOf
<1>3. n \in Products(S[i])
  BY DEF Products
<1> QED
  BY <1>1, <1>2, <1>3

LEMMA MadeHoldsTemplates ==
  ASSUME NEW p, MadeOf(source[p], p) PROVE TemplatesHold(p)
<1> DEFINE S == source[p]
<1> SUFFICES ASSUME NEW i \in 1..Len(S), S[i].include # None,
                    NEW a \in 1..Len(Template[S[i].include]),
                    NEW b \in 1..Len(Template[S[i].include]),
                    Template[S[i].include][a].name \in NeedSet(Template[S[i].include][b])
             PROVE  Waits(p, Qualified(S[i].name, Template[S[i].include][b].name),
                             Qualified(S[i].name, Template[S[i].include][a].name))
  BY DEF TemplatesHold
<1> DEFINE m == Qualified(S[i].name, Template[S[i].include][a].name)
           n == Qualified(S[i].name, Template[S[i].include][b].name)
<1>1. n \in Names(p) /\ m \in NeedsOf(p, n)
  BY MadeInner
<1>2. m \in Upstream(p, n) /\ Place(p, m) < Place(p, n)
  BY <1>1, UpstreamFacts DEF MadeOf
<1> QED
  BY <1>2 DEF Waits

\* A set of names of a phase has one that is sorted first, and one that is last.
LEMMA FirstAndLast ==
  ASSUME NEW p, Ordered(p), NEW T \in SUBSET Names(p), NEW t \in T
  PROVE  /\ \E m \in T : \A d \in T : ~ (Place(p, d) < Place(p, m))
         /\ \E m \in T : \A d \in T : ~ (Place(p, m) < Place(p, d))
<1> DEFINE N == Len(pipeline[p])
           Firsts == {Place(p, d) : d \in T}
           Lasts == {N - Place(p, d) : d \in T}
<1>1. N \in Nat /\ \A d \in T : Place(p, d) \in 1..N
  BY PlaceFacts
<1>2. PICK k \in Firsts : \A l \in Firsts : k <= l
  <2>1. Firsts \in SUBSET Nat /\ Place(p, t) \in Firsts
    BY <1>1
  <2> HIDE DEF Firsts
  <2> QED
    BY <2>1, Least
<1>3. PICK k2 \in Lasts : \A l \in Lasts : k2 <= l
  <2>1. Lasts \in SUBSET Nat /\ N - Place(p, t) \in Lasts
    BY <1>1
  <2> HIDE DEF Lasts
  <2> QED
    BY <2>1, Least
<1>4. PICK m \in T : k = Place(p, m)
  BY <1>2
<1>5. PICK m2 \in T : k2 = N - Place(p, m2)
  BY <1>3
<1>6. ASSUME NEW d \in T, Place(p, d) < Place(p, m) PROVE FALSE
  <2>1. Place(p, d) \in Firsts
    OBVIOUS
  <2>2. Place(p, m) <= Place(p, d)
    BY <2>1, <1>2, <1>4
  <2>3. Place(p, d) \in Int /\ Place(p, m) \in Int
    BY <1>1
  <2> QED
    BY <2>2, <2>3, <1>6
<1>7. ASSUME NEW d \in T, Place(p, m2) < Place(p, d) PROVE FALSE
  <2>1. N - Place(p, d) \in Lasts
    OBVIOUS
  <2>2. N - Place(p, m2) <= N - Place(p, d)
    BY <2>1, <1>3, <1>5
  <2>3. Place(p, d) \in Int /\ Place(p, m2) \in Int
    BY <1>1
  <2> QED
    BY <2>2, <2>3, <1>1, <1>7
<1> QED
  BY <1>6, <1>7

\* The names of a phase as written tell its steps apart.
NamesUnique(S) == \A i, j \in 1..Len(S) : S[i].name = S[j].name => i = j

\* What a step becomes waits for, or is, a step of it with the needs of the step itself.
LEMMA EntryUpstream ==
  ASSUME NamesApart, NEW p \in 1..3, NEW S, S = source[p], source \in Sources,
         MadeOf(S, p), NamesUnique(S),
         NEW j \in 1..Len(S), NEW n \in Products(S[j])
  PROVE  \E e \in Names(p) : (e = n \/ e \in Upstream(p, n)) /\ Linked(S, j, NeedsOf(p, e))
<1>1. n \in Names(p) /\ Ordered(p)
  BY MadeIsThere DEF MadeOf
<1>2. CASE S[j].include = None
  <2>1. n = S[j].name
    BY <1>2 DEF Products
  <2>2. PICK k \in 1..Len(pipeline[p]) :
          pipeline[p][k].name = n /\ Linked(S, j, NeedSet(pipeline[p][k]))
    BY <1>2, <2>1 DEF MadeOf, Made
  <2>3. NeedsOf(p, n) = NeedSet(pipeline[p][k])
    BY <2>2, <1>1, PlaceFacts
  <2> QED
    BY <2>2, <2>3, <1>1
<1>3. CASE S[j].include # None
  <2> DEFINE inner == Template[S[j].include]
             name == S[j].name
             T == {m \in Products(S[j]) : m \in Names(p) /\ (m = n \/ m \in Upstream(p, n))}
  <2>1. T \in SUBSET Names(p) /\ n \in T
    BY <1>1
  <2>2. PICK m \in T : \A d \in T : ~ (Place(p, d) < Place(p, m))
    <3> HIDE DEF T
    <3> QED
      BY <2>1, <1>1, FirstAndLast
  <2>3. PICK b \in 1..Len(inner) : m = Qualified(name, inner[b].name)
    BY <2>2, <1>3 DEF Products
  <2>4. /\ m \in Names(p)
        /\ inner[b].needs = <<>> => Linked(S, j, NeedsOf(p, m))
        /\ \A d \in NeedSet(inner[b]) : Qualified(name, d) \in NeedsOf(p, m)
    BY <2>3, <1>3, MadeInner
  <2>5. inner \in Seq([name : STRING, needs : Seq(STRING)]) /\ NeedSet(inner[b]) \subseteq Locals(S[j].include)
    BY <1>3, WrittenTypes
  <2>6. ASSUME inner[b].needs # <<>> PROVE FALSE
    <3>1. inner[b] \in [name : STRING, needs : Seq(STRING)]
      BY <2>5, ElementOfSeq
    <3>2. inner[b].needs \in Seq(STRING)
      BY <3>1
    <3>3. 1 \in 1..Len(inner[b].needs)
      BY <3>2, <2>6
    <3>4. PICK d \in NeedSet(inner[b]) : TRUE
      BY <3>3 DEF NeedSet
    <3> DEFINE q == Qualified(name, d)
    <3>5. q \in NeedsOf(p, m) /\ d \in Locals(S[j].include)
      BY <3>4, <2>4, <2>5
    <3>6. q \in Names(p) /\ Place(p, q) < Place(p, m)
      BY <3>5, <2>4, <1>1, PlaceFacts
    <3>7. q \in Upstream(p, n)
      <4>1. CASE m = n
        BY <4>1, <3>5, <1>1, UpstreamFacts
      <4>2. CASE m \in Upstream(p, n)
        BY <4>2, <3>5, <1>1, UpstreamFacts
      <4> QED
        BY <4>1, <4>2, <2>2
    <3>8. q \in Products(S[j])
      <4>1. PICK i \in 1..Len(S) : q \in Products(S[i])
        BY <3>6 DEF MadeOf, FromSource, Names
      <4>2. Apart(S, j, i)
        BY <1>3 DEF NamesApart
      <4>3. CASE S[i].include = None
        <5>1. q = S[i].name
          BY <4>1, <4>3 DEF Products
        <5> QED
          BY <5>1, <4>2, <3>5 DEF Apart
      <4>4. CASE S[i].include # None
        <5>1. PICK a \in 1..Len(Template[S[i].include]) :
                q = Qualified(S[i].name, Template[S[i].include][a].name)
          BY <4>1, <4>4 DEF Products
        <5>2. Template[S[i].include][a].name \in Locals(S[i].include)
          BY DEF Locals
        <5>3. name = S[i].name
          BY <5>1, <5>2, <4>2, <4>4, <3>5 DEF Apart
        <5>4. i = j
          BY <5>3 DEF NamesUnique
        <5> QED
          BY <5>4, <4>1
      <4> QED
        BY <4>3, <4>4
    <3>9. q \in T
      BY <3>6, <3>7, <3>8
    <3> HIDE DEF T
    <3> QED
      BY <3>6, <3>9, <2>2
  <2>7. m = n \/ m \in Upstream(p, n)
    BY <2>2
  <2> QED
    BY <2>4, <2>6, <2>7
<1> QED
  BY <1>2, <1>3

\* What an include becomes is a leaf of its template, or a leaf waits for it.
LEMMA LeafDownstream ==
  ASSUME NEW S, NEW p, MadeOf(S, p), NEW i \in 1..Len(S), S[i].include # None,
         NEW n \in Products(S[i])
  PROVE  \E l \in LeafNames(S[i]) : l \in Names(p) /\ (l = n \/ n \in Upstream(p, l))
<1> DEFINE inner == Template[S[i].include]
           T == {m \in Products(S[i]) : m \in Names(p) /\ (m = n \/ n \in Upstream(p, m))}
<1>1. n \in Names(p) /\ Ordered(p)
  BY MadeIsThere DEF MadeOf
<1>2. T \in SUBSET Names(p) /\ n \in T
  BY <1>1
<1>3. PICK m \in T : \A d \in T : ~ (Place(p, m) < Place(p, d))
  <2> HIDE DEF T
  <2> QED
    BY <1>1, <1>2, FirstAndLast
<1>4. PICK a \in 1..Len(inner) : m = Qualified(S[i].name, inner[a].name)
  BY <1>3 DEF Products
<1>5. ASSUME NEW b \in 1..Len(inner), inner[a].name \in NeedSet(inner[b]) PROVE FALSE
  <2> DEFINE d == Qualified(S[i].name, inner[b].name)
  <2>1. d \in Names(p) /\ d \in Products(S[i]) /\ m \in NeedsOf(p, d)
    BY <1>4, <1>5, MadeInner
  <2>2. m \in Upstream(p, d) /\ Place(p, m) < Place(p, d)
    BY <2>1, <1>1, UpstreamFacts
  <2>3. n \in Upstream(p, d)
    <3>1. CASE m = n
      BY <3>1, <2>2
    <3>2. CASE n \in Upstream(p, m)
      BY <3>2, <2>1, <2>2, <1>1, UpstreamOfUpstream
    <3> QED
      BY <3>1, <3>2, <1>3
  <2>4. d \in T
    BY <2>1, <2>3
  <2> HIDE DEF T
  <2> QED
    BY <2>2, <2>4, <1>3
<1>6. m \in LeafNames(S[i])
  BY <1>4, <1>5 DEF LeafNames
<1> QED
  BY <1>3, <1>6

LEMMA MadeHoldsNeeds ==
  ASSUME NamesApart, NEW p \in 1..3, source \in Sources, MadeOf(source[p], p)
  PROVE  NeedsHold(p)
<1>1. PICK S : S = source[p]
  OBVIOUS
<1> SUFFICES ASSUME NamesUnique(S),
                    NEW i \in 1..Len(S), NEW j \in 1..Len(S), S[i].name \in NeedSet(S[j]),
                    NEW m \in Products(S[i]), NEW n \in Products(S[j])
             PROVE  Waits(p, n, m)
  BY <1>1 DEF NeedsHold, NamesUnique
<1>2. MadeOf(S, p) /\ Ordered(p) /\ Len(S) \in Nat
  BY <1>1, WrittenTypes DEF MadeOf
<1>3. n \in Names(p) /\ m \in Names(p)
  BY <1>2, MadeIsThere
<1>4. PICK e \in Names(p) : (e = n \/ e \in Upstream(p, n)) /\ Linked(S, j, NeedsOf(p, e))
  BY <1>1, <1>2, EntryUpstream
<1>5. NeedsOf(p, e) \subseteq Upstream(p, n) /\ Upstream(p, e) \subseteq Upstream(p, n)
  <2>1. CASE e = n
    BY <2>1, <1>2, <1>3, UpstreamFacts
  <2>2. CASE e \in Upstream(p, n)
    BY <2>2, <1>2, <1>3, UpstreamFacts, UpstreamOfUpstream
  <2> QED
    BY <2>1, <2>2, <1>4
<1>6. m \in Upstream(p, n)
  <2>1. CASE /\ S[i].name \in NeedsOf(p, e)
             /\ \A h \in 1..(j - 1) : ~IncludeNamed(S, h, S[i].name)
    <3>1. S[i].name \in Names(p)
      BY <2>1, <1>2, <1>4, PlaceFacts
    <3>2. PICK h \in 1..Len(S) : S[i].name \in Products(S[h])
      BY <3>1, <1>2 DEF MadeOf, FromSource, Names
    <3>3. S[h].include = None
      <4> SUFFICES ASSUME S[h].include # None PROVE FALSE
        OBVIOUS
      <4>1. PICK a \in 1..Len(Template[S[h].include]) :
              S[i].name = Qualified(S[h].name, Template[S[h].include][a].name)
        BY <3>2 DEF Products
      <4>2. Template[S[h].include][a].name \in Locals(S[h].include)
        BY DEF Locals
      <4>3. Apart(S, h, i)
        BY <1>1 DEF NamesApart
      <4> QED
        BY <4>1, <4>2, <4>3 DEF Apart
    <3>4. h = i
      BY <3>2, <3>3 DEF Products, NamesUnique
    <3>5. m = S[i].name
      BY <3>3, <3>4 DEF Products
    <3> QED
      BY <3>5, <2>1, <1>5
  <2>2. CASE \E h \in 1..(j - 1) : IncludeNamed(S, h, S[i].name) /\ LeafNames(S[h]) \subseteq NeedsOf(p, e)
    <3>1. PICK h \in 1..(j - 1) : IncludeNamed(S, h, S[i].name) /\ LeafNames(S[h]) \subseteq NeedsOf(p, e)
      BY <2>2
    <3>2. h \in 1..Len(S)
      BY <1>2
    <3>3. h = i /\ S[i].include # None
      BY <3>1, <3>2 DEF IncludeNamed, NamesUnique
    <3>4. PICK l \in LeafNames(S[i]) : l \in Names(p) /\ (l = m \/ m \in Upstream(p, l))
      BY <3>3, <1>2, LeafDownstream
    <3>5. l \in Upstream(p, n)
      BY <3>1, <3>3, <3>4, <1>5
    <3> QED
      BY <3>4, <3>5, <1>2, <1>3, UpstreamOfUpstream
  <2> QED
    BY <2>1, <2>2, <1>4 DEF Linked
<1>7. Place(p, m) < Place(p, n)
  BY <1>2, <1>3, <1>6, UpstreamFacts
<1> QED
  BY <1>6, <1>7 DEF Waits

LEMMA AcceptedAsWritten == NamesApart /\ ExpandInv => OrderAsWritten
<1> SUFFICES ASSUME NamesApart, ExpandInv, stage = "accepted", NEW p \in 1..3
             PROVE  AllOnce(p) /\ TemplatesHold(p) /\ NeedsHold(p)
  BY DEF OrderAsWritten
<1>1. source \in Sources /\ DagInv /\ pipeline \in [1..3 -> Seq(Step)]
      /\ FromSource(source[p], pipeline[p])
      /\ \A i \in 1..Len(source[p]) : Made(source[p], pipeline[p], i)
  BY DEF ExpandInv, Expanded, Step
<1>2. WellFormed(p) /\ InOrder(p)
  <2>1. DagTypeOK /\ Verdicts
    BY <1>1 DEF DagInv
  <2>2. phase = 4
    BY <2>1 DEF DagTypeOK
  <2> QED
    BY <2>1, <2>2 DEF Verdicts
<1>3. MadeOf(source[p], p)
  BY <1>1, <1>2 DEF MadeOf, Ordered, WellFormed
<1> QED
  BY <1>1, <1>3, MadeOnce, MadeHoldsTemplates, MadeHoldsNeeds

\* Whatever the includes and their templates, a pipeline is accepted only as it was
\* written: every step, and every step of an included template, is sorted once, those
\* of a template behind what their template says, and all that a step becomes behind
\* all that the steps it needs become.
THEOREM ExpansionKeepsOrder == NamesApart /\ ExpandSpec => []OrderAsWritten
<1>1. NamesApart /\ ExpandInv => OrderAsWritten
  BY AcceptedAsWritten
<1>2. NamesApart => []NamesApart
  <2> SUFFICES ASSUME NamesApart PROVE []NamesApart
    OBVIOUS
  <2> QED
    BY PTL
<1> QED
  BY <1>1, <1>2, AlwaysExpandInv, PTL

\* The verdict on a pipeline with includes is right as well.
THEOREM ExpandedIffWellFormed == ExpandSpec => []AcceptsWellFormed
<1>1. ExpandInv => AcceptsWellFormed
  BY DEF ExpandInv, DagInv, DagTypeOK, Verdicts, AcceptsWellFormed
<1> QED
  BY <1>1, AlwaysExpandInv, PTL
=============================================================================
