------------------------------ MODULE DnsRecords ------------------------------
(***************************************************************************)
(* The plugin dns_record and the zone it edits at Aliyun or Cloudflare: one *)
(* listing of the records, then one API call per change, by the record's    *)
(* id.  A call may fail, or succeed while its answer is lost; nothing is   *)
(* retried, nothing is rolled back, and others edit the zone meanwhile.    *)
(***************************************************************************)
EXTENDS FiniteSets, Naturals

CONSTANTS
  Ip,      \* addresses
  Record,  \* ids of records
  Page     \* how many records one request lists

ASSUME DnsAssumption ==
  IsFiniteSet(Ip) /\ IsFiniteSet(Record) /\ Ip \cap {"none", "other"} = {} /\ Page \in Nat \ {0}

\* A record points the step's own name to an address, or is of a name that Aliyun's
\* RRKeyWord finds as well, or does not exist.
Content == Ip \cup {"none", "other"}

VARIABLES
  provider,  \* "aliyun" or "cloudflare"
  zone,      \* the records by their ids
  at,        \* where the plugin is, "idle" between calls of it
  wanted,    \* the addresses of the target roles
  doomed,    \* listed records that are to be deleted or repurposed
  have,      \* used, satisfied: wanted addresses that have a record
  whole,     \* history: the listing was complete
  foreign,   \* history: records that someone else touched since the listing
  answer     \* what the plugin returned last

dnsVars == <<provider, zone, at, wanted, doomed, have, whole, foreign, answer>>
listing == <<doomed, have, whole>>

Existing == {r \in Record : zone[r] # "none"}
OwnRecords == {r \in Record : zone[r] \in Ip}
Own == {zone[r] : r \in OwnRecords}

\* Both providers refuse a second record of the same name and address.
DnsInit ==
  /\ provider \in {"aliyun", "cloudflare"}
  /\ zone \in [Record -> Content]
  /\ \A r, q \in OwnRecords : zone[r] = zone[q] => r = q
  /\ at = "idle"
  /\ wanted = {} /\ doomed = {} /\ have = {}
  /\ whole = TRUE /\ foreign = {}
  /\ answer = "none"

\* The plugin returns.
Answer(a) == at' = "idle" /\ answer' = a /\ doomed' = {} /\ have' = {}

Fails == Answer("error") /\ UNCHANGED zone

\* A call of the API puts a content into record r, unless it refuses; then the
\* loop goes on with the rest.  Where it did nothing, or its answer is lost, the
\* plugin returns the error.
Call(accepted, r, content, found) ==
  \/ /\ accepted
     /\ zone' = [zone EXCEPT ![r] = content]
     /\ doomed' = doomed \ {r} /\ have' = found
     /\ UNCHANGED <<at, answer>>
  \/ accepted /\ zone' = [zone EXCEPT ![r] = content] /\ Answer("error")
  \/ Fails

FirstPage(records) == IF Cardinality(records) < Page THEN Cardinality(records) ELSE Page

\* Mutant of Listing: the name is not compared with the one looked for.
ListingFuzzy(s) ==
  s \in SUBSET Existing /\ Cardinality(s) = FirstPage(Existing)

\* Aliyun returns the first page of what the keyword matches, of which only the
\* name itself counts; Cloudflare returns every record of the name, page by page:
\* an update lists all pages before it edits, but a purge deletes while it pages,
\* and a page further on begins where records have moved up.
Listing(s) ==
  IF provider = "cloudflare"
  THEN /\ s \in SUBSET OwnRecords
       /\ IF at = "list" THEN s = OwnRecords ELSE Cardinality(s) >= FirstPage(OwnRecords)
  ELSE \E page \in SUBSET Existing :
         Cardinality(page) = FirstPage(Existing) /\ s = page \cap OwnRecords

-----------------------------------------------------------------------------
(* Execute.                                                                *)

\* Options, roles without addresses, provider and credentials are looked at
\* before the zone is.
DnsExecute(ips) ==
  /\ at = "idle"
  /\ wanted' = ips
  /\ \/ ips # {} /\ at' = "list" /\ UNCHANGED <<answer, doomed, have>>
     \/ Answer("error")
  /\ UNCHANGED <<provider, zone, whole, foreign>>

\* The listing, or an error: of the zone's id, or of the listing itself.
List ==
  /\ at \in {"list", "listAll"}
  /\ \/ \E s \in SUBSET Record :
          /\ Listing(s)
          /\ doomed' = {r \in s : zone[r] \notin wanted}
          /\ have' = wanted \cap {zone[r] : r \in s}
          /\ whole' = (OwnRecords \subseteq s)
          /\ foreign' = {}
          /\ at' = IF at = "listAll" THEN "purge" ELSE "ensure"
          /\ UNCHANGED <<zone, answer>>
     \/ Fails /\ UNCHANGED <<whole, foreign>>
  /\ UNCHANGED <<provider, wanted>>

\* Mutant of DeleteWrong: wrong records are deleted at Cloudflare too.
DeleteWrongEverywhere(r) ==
  /\ at = "ensure"
  /\ r \in doomed
  /\ Call(r \in Existing, r, "none", have)
  /\ UNCHANGED <<provider, wanted, whole, foreign>>

\* Aliyun: wrong records are deleted first, by id: whatever they hold by now.
DeleteWrong(r) ==
  /\ at = "ensure" /\ provider = "aliyun"
  /\ r \in doomed
  /\ Call(r \in Existing, r, "none", have)
  /\ UNCHANGED <<provider, wanted, whole, foreign>>

\* Mutant of Repurpose: one record satisfies every address.
RepurposeForAll(r, ip) ==
  /\ at = "ensure" /\ provider = "cloudflare"
  /\ r \in doomed /\ ip \in wanted \ have
  /\ Call(r \in Existing /\ ip \notin Own, r, ip, wanted)
  /\ UNCHANGED <<provider, wanted, whole, foreign>>

\* Cloudflare: wrong records, by id, get the addresses that have none.
Repurpose(r, ip) ==
  /\ at = "ensure" /\ provider = "cloudflare"
  /\ r \in doomed /\ ip \in wanted \ have
  /\ Call(r \in Existing /\ ip \notin Own, r, ip, have \cup {ip})
  /\ UNCHANGED <<provider, wanted, whole, foreign>>

\* What still has no record gets a new one; the API refuses a second of a kind, and
\* any once the model has no id left.
Add(ip) ==
  /\ at = "ensure"
  /\ doomed = {} /\ ip \in wanted \ have
  /\ \/ \E r \in Record \ Existing : Call(ip \notin Own, r, ip, have \cup {ip})
     \/ Fails
  /\ UNCHANGED <<provider, wanted, whole, foreign>>

\* Where Cloudflare has more wrong records than addresses without one, the rest stays.
Ensured ==
  /\ at = "ensure"
  /\ have = wanted /\ (provider = "aliyun" => doomed = {})
  /\ Answer("ok")
  /\ UNCHANGED <<provider, zone, wanted, whole, foreign>>

-----------------------------------------------------------------------------
(* Uninstall, and the others.                                              *)

\* Only a full purge deletes records, and only if the provider is still configured;
\* then no address is wanted.
DnsUninstall(full) ==
  /\ at = "idle"
  /\ \/ full /\ at' = "listAll" /\ UNCHANGED <<answer, doomed, have>>
     \/ full /\ Answer("error")
     \/ Answer("skipped")
  /\ wanted' = {}
  /\ UNCHANGED <<provider, zone, whole, foreign>>

Purge(r) ==
  /\ at = "purge"
  /\ r \in doomed
  /\ Call(r \in Existing, r, "none", have)
  /\ UNCHANGED <<provider, wanted, whole, foreign>>

Purged ==
  /\ at = "purge" /\ doomed = {}
  /\ Answer("purged")
  /\ UNCHANGED <<provider, zone, wanted, whole, foreign>>

\* Someone adds a record, removes one, or edits one in place, which keeps its id; an
\* id that the plugin still holds is given to no other record.
Foreign ==
  \E r \in Record, content \in Content :
    /\ content # zone[r] /\ content \notin Own
    /\ zone[r] = "none" => r \notin doomed
    /\ zone' = [zone EXCEPT ![r] = content]
    /\ foreign' = foreign \cup {r}
    /\ UNCHANGED <<provider, at, wanted, listing, answer>>

DnsCall ==
  \/ List
  \/ \E r \in doomed : DeleteWrong(r) \/ Purge(r) \/ (\E ip \in wanted : Repurpose(r, ip))
  \/ \E ip \in wanted : Add(ip)
  \/ Ensured \/ Purged

-----------------------------------------------------------------------------
(* Properties.                                                             *)

DnsTypeOK ==
  /\ provider \in {"aliyun", "cloudflare"}
  /\ zone \in [Record -> Content] /\ doomed \subseteq Record
  /\ at \in {"idle", "list", "listAll", "ensure", "purge"}
  /\ wanted \subseteq Ip /\ have \subseteq wanted
  /\ whole \in BOOLEAN /\ foreign \subseteq Record
  /\ answer \in {"none", "ok", "error", "skipped", "purged"}

\* A step of the plugin, not one of someone else.
PluginActs == at' # at \/ listing' # listing

\* When the step succeeds and nobody else edited the zone since its listing, every
\* wanted address has a record, and with Aliyun no other address has one if the
\* listing fitted into one page.
EnsuredCovers ==
  at = "idle" /\ answer = "ok" /\ foreign = {} =>
    /\ wanted \subseteq Own
    /\ provider = "aliyun" /\ whole => Own = wanted

\* A name that resolves never stops resolving because of its update: at Cloudflare
\* no record of the name goes, short of a purge; it is only given another address.
CloudflareKeepsResolving ==
  [][provider = "cloudflare" /\ at = "ensure" /\ PluginActs =>
       OwnRecords \subseteq OwnRecords']_dnsVars
=============================================================================
