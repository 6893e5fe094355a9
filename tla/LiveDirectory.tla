---------------------------- MODULE LiveDirectory ----------------------------
(***************************************************************************)
(* The live website directory: the import of the topology snapshot         *)
(* (live_candidates.sync_topology), the evidence queue and its probes      *)
(* (live_runner.run_probe_batch), the promotion of roots found by a sweep  *)
(* or by the handoff preflight (live_sweep.py) and the listing state of    *)
(* each host (live_db.store_probe_result), all src/hns_topology.           *)
(*                                                                         *)
(* A host is a root's apex or the one subdomain evidence may name.  A      *)
(* resource is its hash; dates are "due" or "not due".  A batch selects    *)
(* its candidates once and stores each result, in completion order, with   *)
(* the resource hash it was selected with.                                 *)
(***************************************************************************)
EXTENDS Naturals, FiniteSets

CONSTANTS
  None,        \* no row, no sync in progress
  Roots,
  Limit,       \* candidates of one evidence batch (--limit)
  MaxHash,     \* bound: different resources of a root
  Subdomain,   \* may evidence name a subdomain of a root
  Sweeps,      \* do sweeps and preflights promote roots
  Locked       \* is every command run under run/live-directory.lock

Hosts == Roots \X ({"apex"} \cup IF Subdomain THEN {"sub"} ELSE {})
Apex(r) == <<r, "apex">>
Sub(r) == <<r, "sub">>

Hash == 1 .. MaxHash

\* The rows of the three tables.
RootRow == [hash : Hash, active : BOOLEAN]
CandidateRow ==
  [hash : Hash, active : BOOLEAN, recent : BOOLEAN,
   sources : SUBSET {"broad_sweep", "probe_dns"}, new : BOOLEAN]
StatusRow ==
  [hash : Hash, listing : {"listed", "degraded", "unlisted"}, failures : 0 .. 2,
   good : BOOLEAN, due : BOOLEAN]

ASSUME LiveAssumption ==
  /\ {Limit, MaxHash} \subseteq Nat \ {0}
  /\ {Subdomain, Sweeps, Locked} \subseteq BOOLEAN
  /\ None \notin RootRow \cup CandidateRow \cup StatusRow
  /\ None \notin {"probe", "sweep", "preflight"} /\ \A S \in SUBSET Roots : S # None

VARIABLES
  \* the published topology
  topo,      \* topology.sqlite: root -> resource hash (0: gone, expired, or of a
             \* parking or public resolver provider), has it a synth, glue or NS
             \* record, is it a candidate root, does evidence name its subdomain
  artifact,  \* data/hns-handoff-groups.json: root -> resource hash
  \* the live database
  synced,    \* topology_fingerprint is that of topology.sqlite
  roots,     \* roots: hash, active
  cand,      \* candidates: hash, active, sources, seen lately, seen first
             \* since the last sync
  status,    \* host_status: hash, listing state, consecutive failures,
             \* was it ever online, is next_check_at past
  \* the running commands
  jobs,      \* probes in flight: kind, host, hash
  batch,     \* kind of the running batch, or None
  syncing,   \* promoted roots read by the running sync, or None
  \* auxiliary
  answered   \* roots whose endpoint a sweep has found

dbVars == <<synced, roots, cand, status>>
sourceVars == <<topo, artifact>>
vars == <<sourceVars, dbVars, jobs, batch, syncing, answered>>

-----------------------------------------------------------------------------
(* The topology, changed by the indexer and published each week *)

TopologyRow ==
  {row \in [hash : 0 .. MaxHash, routed : BOOLEAN, listed : BOOLEAN, owner : {FALSE, Subdomain}] :
     (row.routed => row.hash > 0) /\ (row.listed => row.routed) /\ (row.owner => row.listed)}

Published(r, row) ==
  /\ row # topo[r]
  /\ topo' = [topo EXCEPT ![r] = row]
  /\ synced' = FALSE
  /\ UNCHANGED <<artifact, roots, cand, status, jobs, batch, syncing, answered>>

\* The weekly job also exports the handoff artifact, with the roots whose
\* nameserver is an HNS handoff.
ArtifactExported ==
  /\ Sweeps
  /\ \E S \in SUBSET {r \in Roots : topo[r].routed} :
       artifact' = [r \in Roots |-> IF r \in S THEN topo[r].hash ELSE 0]
  /\ UNCHANGED <<topo, dbVars, jobs, batch, syncing, answered>>

-----------------------------------------------------------------------------
(* upsert_root, upsert_candidate, store_probe_result *)

Seen(old, hash, source) ==
  [hash |-> hash, active |-> TRUE, recent |-> TRUE,
   sources |-> source \cup (IF old = None THEN {} ELSE old.sources),
   new |-> old = None \/ old.new]

UpsertRoot(r, hash) == roots' = [roots EXCEPT ![r] = [hash |-> hash, active |-> TRUE]]

Capped(n) == IF n > 2 THEN 2 ELSE n
Failures(old) == IF old = None THEN 0 ELSE old.failures
Good(old) == old # None /\ old.good

\* Mutant: a DNSSEC failure does not count as a failed check.
ListingForgiving(old, outcome) ==
  CASE outcome = "online" -> [listing |-> "listed", failures |-> 0]
    [] outcome = "dnssec" -> [listing |-> "unlisted", failures |-> Failures(old)]
    [] OTHER -> [listing |-> IF Good(old) /\ Failures(old) + 1 < 2 THEN "degraded" ELSE "unlisted",
                 failures |-> Capped(Failures(old) + 1)]

\* _listing_state; nothing distinguishes two failures from more.
Listing(old, outcome) ==
  CASE outcome = "online" -> [listing |-> "listed", failures |-> 0]
    [] outcome = "dnssec" -> [listing |-> "unlisted", failures |-> Capped(Failures(old) + 1)]
    [] OTHER -> [listing |-> IF Good(old) /\ Failures(old) + 1 < 2 THEN "degraded" ELSE "unlisted",
                 failures |-> Capped(Failures(old) + 1)]

\* Mutant: ON CONFLICT leaves topology_resource_hash alone.
CheckedOldHash(old, hash, outcome) ==
  [hash |-> IF old = None THEN hash ELSE old.hash,
   good |-> Good(old) \/ outcome = "online", due |-> FALSE,
   listing |-> Listing(old, outcome).listing, failures |-> Listing(old, outcome).failures]

Checked(old, hash, outcome) ==
  [hash |-> hash, good |-> Good(old) \/ outcome = "online", due |-> FALSE,
   listing |-> Listing(old, outcome).listing, failures |-> Listing(old, outcome).failures]

StoreStatus(c, hash, outcome) == status' = [status EXCEPT ![c] = Checked(@, hash, outcome)]

\* upsert_discovered_hosts, after the apex candidate of a promotion.
Discovered(r, found, hash, known) ==
  cand' = IF found THEN [known EXCEPT ![Sub(r)] = Seen(@, hash, {"probe_dns"})] ELSE known

-----------------------------------------------------------------------------
(* The import of the topology *)

Idle == batch = None /\ syncing = None

\* Mutant: only roots that are active now count as promoted.
PromotedActive ==
  {r \in Roots : /\ cand[Apex(r)] # None /\ cand[Apex(r)].active
                 /\ "broad_sweep" \in cand[Apex(r)].sources /\ Good(status[Apex(r)])}

\* _promoted_sweep_root_names
Promoted ==
  {r \in Roots : /\ cand[Apex(r)] # None /\ "broad_sweep" \in cand[Apex(r)].sources
                 /\ Good(status[Apex(r)])}

\* sync_topology_if_changed: an equal fingerprint skips the import.
SyncStart ==
  /\ syncing = None /\ Locked => batch = None
  /\ ~synced
  /\ syncing' = Promoted
  /\ UNCHANGED <<sourceVars, dbVars, jobs, batch, answered>>

Imported(r) == topo[r].listed
\* _promoted_sweep_root_rows
Kept(r) == Imported(r) \/ (r \in syncing /\ topo[r].routed)

RootAfterSync(r) ==
  IF Kept(r) THEN [hash |-> topo[r].hash, active |-> TRUE]
  ELSE IF roots[r] = None THEN None
  ELSE [roots[r] EXCEPT !.active = FALSE]

\* A candidate that was there before the sync is no longer new.
Aged(old) == IF old = None THEN None ELSE [old EXCEPT !.new = FALSE]
Inactive(old) == IF old = None THEN None ELSE [Aged(old) EXCEPT !.active = FALSE]

ApexAfterSync(r) ==
  LET old == cand[Apex(r)]
  IN  IF Kept(r)
      THEN Seen(Aged(old), topo[r].hash, IF r \in syncing THEN {"broad_sweep"} ELSE {})
      ELSE Inactive(old)

\* Mutant: a retained discovery keeps the resource it was found under.
SubAfterSyncStale(r) ==
  LET old == cand[Sub(r)]
  IN  CASE Imported(r) /\ topo[r].owner -> Seen(Aged(old), topo[r].hash, {})
        [] OTHER -> IF old # None /\ Kept(r) /\ old.recent /\ "probe_dns" \in old.sources
                    THEN [Aged(old) EXCEPT !.active = TRUE]
                    ELSE Inactive(old)

\* Evidence names the subdomain, or finish_topology_sync keeps a discovery of
\* the last 90 days, under the root's new resource.
SubAfterSync(r) ==
  LET old == cand[Sub(r)]
  IN  CASE Imported(r) /\ topo[r].owner -> Seen(Aged(old), topo[r].hash, {})
        [] OTHER -> IF old # None /\ Kept(r) /\ old.recent /\ "probe_dns" \in old.sources
                    THEN [Aged(old) EXCEPT !.active = TRUE, !.hash = topo[r].hash]
                    ELSE Inactive(old)

\* The import reads one snapshot file, which a publication replaces as a whole,
\* and writes in one transaction.
SyncCommit ==
  /\ syncing # None
  /\ roots' = [r \in Roots |-> RootAfterSync(r)]
  /\ cand' = [c \in Hosts |-> IF c[2] = "apex" THEN ApexAfterSync(c[1]) ELSE SubAfterSync(c[1])]
  /\ synced' = TRUE
  /\ syncing' = None
  /\ UNCHANGED <<sourceVars, status, jobs, batch, answered>>

-----------------------------------------------------------------------------
(* The evidence queue *)

Queued(c) == cand[c] # None /\ cand[c].active /\ roots[c[1]] # None /\ roots[c[1]].active

Changed(c) == status[c] # None /\ status[c].hash # cand[c].hash

Due == {c \in Hosts : Queued(c) /\ (status[c] = None \/ Changed(c) \/ status[c].due)}

QueueTier(c) ==
  CASE Changed(c) -> 0
    [] status[c] = None -> IF cand[c].new THEN 0 ELSE 2
    [] OTHER -> IF status[c].good THEN 1 ELSE 3

\* select_due_candidates: strictly by tier; within a tier by provider rank,
\* priority and date.
StartProbes ==
  /\ Idle /\ Due # {}
  /\ \E S \in SUBSET Due :
       /\ Cardinality(S) = Limit \/ (S = Due /\ Cardinality(S) < Limit)
       /\ \A c \in S, d \in Due \ S : QueueTier(c) <= QueueTier(d)
       /\ jobs' = {[kind |-> "probe", host |-> c, hash |-> cand[c].hash] : c \in S}
  /\ batch' = "probe"
  /\ UNCHANGED <<sourceVars, dbVars, syncing, answered>>

StoreProbe(job, outcome, found) ==
  /\ job.kind = "probe"
  /\ StoreStatus(job.host, job.hash, outcome)
  /\ Discovered(job.host[1], found, job.hash, cand)
  /\ jobs' = jobs \ {job}
  /\ UNCHANGED <<sourceVars, synced, roots, batch, syncing, answered>>

-----------------------------------------------------------------------------
(* Promotion by the sweeps and by the handoff preflight *)

\* A sweep reads the root from topology.sqlite or from the handoff artifact, a
\* preflight from the artifact.  A shared delegation is swept under the nameserver
\* of the stored group: of the root's row it only takes the resource.
StartSweep(kind, r, hash) ==
  /\ Sweeps /\ Idle /\ hash > 0
  /\ hash = artifact[r] \/ (kind = "sweep" /\ hash = topo[r].hash)
  /\ jobs' = {[kind |-> kind, host |-> Apex(r), hash |-> hash]}
  /\ batch' = kind
  /\ UNCHANGED <<sourceVars, dbVars, syncing, answered>>

\* Mutant: a promotion does not write the root.
PromoteRootless(r, hash) == UNCHANGED roots

PromoteRoot(r, hash) == UpsertRoot(r, hash)

PromotedApex(r, hash, source) ==
  [cand EXCEPT ![Apex(r)] = Seen(@, hash, source)]

\* An answering endpoint is promoted with its status in one transaction; any
\* other outcome only writes sweep_coverage.
StoreSweep(job, outcome, found) ==
  /\ job.kind = "sweep"
  /\ jobs' = jobs \ {job}
  /\ LET r == job.host[1]
     IN  \/ /\ outcome = "online"
            /\ PromoteRoot(r, job.hash)
            /\ Discovered(r, found, job.hash, PromotedApex(r, job.hash, {"broad_sweep"}))
            /\ StoreStatus(job.host, job.hash, outcome)
            /\ answered' = answered \cup {r}
         \/ outcome # "online" /\ UNCHANGED <<roots, cand, status, answered>>
  /\ UNCHANGED <<sourceVars, synced, batch, syncing>>

\* An AD-validated address only admits the apex to the queue.
StorePreflight(job, validated) ==
  /\ job.kind = "preflight"
  /\ jobs' = jobs \ {job}
  /\ LET r == job.host[1]
     IN  \/ validated /\ PromoteRoot(r, job.hash) /\ cand' = PromotedApex(r, job.hash, {})
         \/ ~validated /\ UNCHANGED <<roots, cand>>
  /\ UNCHANGED <<sourceVars, synced, status, batch, syncing, answered>>

EndBatch ==
  /\ batch # None /\ jobs = {}
  /\ batch' = None
  /\ UNCHANGED <<sourceVars, dbVars, jobs, syncing, answered>>

\* A kill, or an exception while a result is handled, loses the results that
\* are not stored; a sync rolls back.
Crash ==
  /\ ~Idle
  /\ jobs' = {} /\ batch' = None /\ syncing' = None
  /\ UNCHANGED <<sourceVars, dbVars, answered>>

\* Dates pass.
CheckDue(c) ==
  /\ status[c] # None /\ ~status[c].due
  /\ status' = [status EXCEPT ![c].due = TRUE]
  /\ UNCHANGED <<sourceVars, synced, roots, cand, jobs, batch, syncing, answered>>

DiscoveryOld(c) ==
  /\ cand[c] # None /\ cand[c].recent /\ "probe_dns" \in cand[c].sources
  /\ cand' = [cand EXCEPT ![c].recent = FALSE]
  /\ UNCHANGED <<sourceVars, synced, roots, status, jobs, batch, syncing, answered>>

-----------------------------------------------------------------------------
Init ==
  /\ topo \in [Roots -> {row \in TopologyRow : row.hash = 1 /\ row.owner = FALSE}]
  /\ artifact = [r \in Roots |-> 0]
  /\ synced = FALSE
  /\ roots = [r \in Roots |-> None]
  /\ cand = [c \in Hosts |-> None]
  /\ status = [c \in Hosts |-> None]
  /\ jobs = {} /\ batch = None /\ syncing = None
  /\ answered = {}

Outcomes == {"online", "failed", "dnssec"}
Found == {FALSE, Subdomain}

Probing ==
  \/ StartProbes
  \/ \E job \in jobs, outcome \in Outcomes, found \in Found : StoreProbe(job, outcome, found)
  \/ EndBatch

Promotion ==
  \/ \E kind \in {"sweep", "preflight"}, r \in Roots, hash \in 1 .. MaxHash : StartSweep(kind, r, hash)
  \/ \E job \in jobs, outcome \in Outcomes, found \in Found : StoreSweep(job, outcome, found)
  \/ \E job \in jobs, validated \in BOOLEAN : StorePreflight(job, validated)

World ==
  \/ \E r \in Roots, row \in TopologyRow : Published(r, row)
  \/ ArtifactExported
  \/ \E c \in Hosts : CheckDue(c) \/ DiscoveryOld(c)

Next == SyncStart \/ SyncCommit \/ Probing \/ Promotion \/ Crash \/ World

\* The service timer starts a cycle 30 seconds after the last one ended.
Fairness == WF_vars(SyncCommit) /\ WF_vars(Probing)

Spec == Init /\ [][Next]_vars /\ Fairness

-----------------------------------------------------------------------------
(* Properties *)

IsListing(row, listing) == row # None /\ row.listing = listing

\* The types of the variables and the foreign keys of the schema.
TypeOK ==
  /\ topo \in [Roots -> TopologyRow]
  /\ artifact \in [Roots -> 0 .. MaxHash]
  /\ synced \in BOOLEAN
  /\ roots \in [Roots -> {None} \cup RootRow]
  /\ cand \in [Hosts -> {None} \cup CandidateRow]
  /\ status \in [Hosts -> {None} \cup StatusRow]
  /\ jobs \subseteq [kind : {"probe", "sweep", "preflight"}, host : Hosts, hash : Hash]
  /\ batch \in {None, "probe", "sweep", "preflight"}
  /\ syncing = None \/ syncing \subseteq Roots
  /\ answered \subseteq Roots
  /\ \A c \in Hosts : (status[c] # None => cand[c] # None) /\ (cand[c] # None => roots[c[1]] # None)

\* "A changed resource ... run[s] ahead of routine weekly rechecks"
\* (docs/LIVE_DIRECTORY.md): a host of the queue that was last checked under
\* another resource than its root has now is due, without waiting for a date.
ChangedResourceIsDue ==
  \A c \in Hosts :
    Queued(c) /\ status[c] # None /\ status[c].hash # roots[c[1]].hash => c \in Due

\* A host is shown as degraded only right after it was listed: no order of
\* failures, DNSSEC failures and resource changes brings an unlisted host back
\* to the directory without an answer.
NoResurrection ==
  [][\A c \in Hosts :
       IsListing(status'[c], "degraded") /\ ~IsListing(status[c], "degraded")
         => IsListing(status[c], "listed")]_status

\* A root whose endpoint a sweep once found is in the directory whenever the
\* imported topology has it with an address or a nameserver, unexpired and not of a
\* parking or public resolver provider, whatever imports, disappearances and failed
\* checks.
PromotionSticks ==
  \A r \in answered :
    synced /\ syncing = None /\ topo[r].routed => roots[r].active

\* When only the evidence queue runs, it becomes and stays empty.
QueueDrains == <>[][Probing]_vars /\ <>[](syncing = None) => <>[](Due = {})

=============================================================================
