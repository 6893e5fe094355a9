# HNScrawler: formal models

TLA+ specifications of HNScrawler (an indexer of the Handshake root zone and a
live directory of the websites behind it), the TLC runs that check them on small
instances, and the TLAPS proofs of what holds for every instance. Paths below are
relative to the repository; the Python package is `src/hns_topology`.

Run from this directory:

    tlc -workers 2 -config IndexerReorg.cfg MCTopologyIndexer
    tlapm TopologyIndexerProofs.tla

`PROJECT.json` lists, for every definition, the source lines it stands for; for
every property, a mutated definition under which TLC finds it violated; and the
hazards of the code with the properties that watch them.

## 1. The system

| Component | State it keeps | Operations |
|---|---|---|
| HSD full node (external), reached through `hsd_rpc.py` | chain of blocks, name states at the tip | `getblockchaininfo`, `getblockhash`, `getblockbyheight`, `getnames`, `getnameinfo`, `getnameresource`, `getnamebyhash` |
| Topology indexer: `indexer.py`, `db.py`, `cli.py` | `topology.sqlite`: `names`, `resource_summary`, `block_history`, `changed_name_rollbacks`, `provider_summary`, `snapshot_meta` | bootstrap (RPC, JSONL, fixture), catch-up, block scan, names file, `reorg-check`, rollback, pruning |
| Derived tables: `db.py`, `indexer.py`, `tlsa_evidence.py` | labels in `names`, `resource_ip`, `dns_evidence`, `tlsa_evidence_summary` | `reclassify`, `rebuild-resource-ip`, `import-dns-evidence`, `init_db` |
| Classifier and rules: `classifier.py`, `provider_rules.py`, `compliance.py` | none (pure) | classify one resource |
| Topology exporter: `exporter.py`, `ns_handoff.py` | temporary tables; writes a tree | summary, row store, postings, lists per address and nameserver, evidence, handoff groups, manifest |
| Site generation: `site_generator.py`, `live_exporter.py` | the tree at `--out`, the tree moved aside | generate into a staging directory, replace the old tree |
| Release: `validator.py`, `archiver.py`, `run-indexer-pipeline-local.sh`, `publish-indexer-site.sh`, `archive-release.sh` | archives, published site, lookup database and service | validate, archive and prune, publish |
| Live import and evidence queue: `live_candidates.py`, `live_db.py`, `live_runner.py` | `live.sqlite`: `roots`, `candidates`, `host_status`, run tables, `meta` | import of the topology, selection of due hosts, storing results |
| Broad sweep: `live_sweep.py` | `sweep_coverage`, `authority_health`, cursors and gates in `meta` | select, probe, store, promote, store progress |
| Handoff index and preflight, shared delegations: `live_handoffs.py`, `live_delegations.py` | `hns_handoff_groups`, `hns_handoff_preflight`, shared-group tables | refresh, preflight, record |
| Probe engine: `live_probe.py`, `dane.py` | rate limiters, caches of one batch | DNS, HNS DoH, HTTP(S), DANE |
| Live export: `live_exporter.py`, `live_cli.py` | `site` tree of the directory | cycle, export, validate |
| Name lookup API, status polling, replay scripts, cloud scripts, site assets | none or external | read-only service, provisioning, presentation |

### How they interact

* The nightly job (`scripts/full-nightly-job.sh`) runs `reorg-check --rollback`,
  then `incremental --catch-up`. Every block is one SQLite
  transaction; RPC calls are made while it is open, and HSD connects and
  disconnects blocks meanwhile.
* A release publishes `topology.sqlite` and the handoff artifact. The live
  cycle (`scripts/run-live-directory.sh`, `live_cli.cmd_cycle`) holds
  `run/live-directory.lock` while it imports the topology (where `LIVE_SYNC_TOPOLOGY=1`
  asks for it), runs the evidence queue, the handoff preflight and the two priority
  tiers, and exports the site. The generic sweep tiers run only when an operator
  issues `hns-live sweep --tiers` (`live_cli.py:314`, `docs/LIVE_DIRECTORY.md:122`).
* An export reads the same database in one connection while the indexer, `reclassify`,
  `rebuild-resource-ip` and `import-dns-evidence` write to it in theirs.
* An hourly timer (`scripts/run-live-delegation-index.sh`) refreshes the handoff
  index under the same lock and gives up at once when it is taken. Commands run by
  hand take no lock.
* Within a batch, probes run in threads; each result is stored in a transaction
  of its own, in completion order, with data read when the batch was selected.

### What is hard

* **The chain moves between any two calls.** Names are read at the tip while an
  older block is indexed; the two halves of a row come from two calls.
* **Undo.** A rollback must invert any sequence of indexed, pruned and
  rolled-back blocks, from snapshots captured inside transactions that may be lost.
* **Kills.** A cycle has a time limit and the VM is stopped on purpose. What is
  committed stays, everything in memory is lost.
* **Results out of order and late**, possibly after a new import replaced the rows
  they were selected from.
* **Files imported late.** A JSONL export may be imported many blocks after it was
  written, over a database that is newer.
* **Cursors, gates and limits.** A tier is closed for a week when a pass is
  complete; a wrong cursor or gate hides roots for that week or for ever.
* **Read first, write later.** `reclassify`, `rebuild-resource-ip` and an export read
  before the statement that opens their transaction; other commands commit in
  between.
* **A world that answers in parts.** A probe asks servers, a resolver and web servers
  one after the other; answers are lost and change meanwhile.
* **One table, several writers.** The shared-delegation tier and the handoff
  tier write the same coverage row; sweeps and imports write the same candidates.

### What makes each component correct

* Indexer: the recorded history is a window without gaps; rolling back undoes
  exactly; a stale row is one a block still ahead will re-read; an index that has
  caught up equals the chain; nightly runs reach the tip.
* Sweep: the cursor passes no root that was not dealt with; the gate closes only
  after a whole pass; a pass ends; new authorities are sampled sparingly.
* Live directory: a changed resource is checked ahead of its date; an unlisted
  host comes back only by an answer; a root once found stays while the topology
  has it; the queue is worked off.
* Handoff tiers: a new route does not wait behind the weekly gate; every
  published route is probed in the end.
* Derived tables: labels, addresses and the TLSA summary are those of the rows they
  derive from, in any order of updates, rollbacks, rebuilds and imports.
* Probe: nothing is reported online that a validating client would refuse, nothing
  under https that did not prove itself; the verdict is right when nothing
  disturbs it; a probe ends.
* Export: pages, postings, lists and links agree; an accepted release shows the
  database.
* Release: the site is never lost to an overlap or a failing rename; a tree that
  passed validation shows one state; an archive is always left; the next run repairs
  whatever a kill has left on the indexer and the web server.

## 2. Modules

Every date is abstracted to "due" or "not due", every digest and resource to a
version, a root or a name to a member of a small set. What a step writes in one
SQLite transaction is one action; a step that calls the network or HSD is cut at
every call. The exact lines are in `PROJECT.json` under `map`.

### HsdChain (external)

`chain` is the sequence of connected blocks; a block carries its hash, the names
it changed, and the state of every name after it. A name's state is identified by
the block that last changed it. `Connect` mines a block that changes any set of
names, `Disconnect` removes the last one. RPC answers are read from `chain` at the
moment of the call, which is how `hsd_rpc.py` sees the node. `Export` writes the names
of the tip to a file; `exports` holds all files ever written, each identified by the
chain it was read from.

### TopologyIndexer (extends HsdChain)

| State | Code |
|---|---|
| `rows` | `names` and `resource_summary`, as the pair of versions the two RPC calls returned |
| `history`, `undo` | `block_history`, `changed_name_rollbacks` |
| `lastHeight`, `summary` | `snapshot_meta.last_indexed_height`, `provider_summary` |
| `pc`, `cmd`, `rollback`, `pending`, `cur`, `target` | the command that runs, where it is, its options |
| `hash`, `todo`, `work`, `snap` | its open transaction; published by a commit, lost by an interruption |
| `before` | auxiliary: the rows as they were when a height was first indexed |

| Action | Code |
|---|---|
| `BootstrapTip`, `BootstrapNames`, `BootstrapCommit` | `bootstrap_from_hsd`: the height is read first, then all names, then each resource |
| `ExportJsonl` | `export-hsd-jsonl.sh`: a file of the names at the tip |
| `ImportJsonl` | `bootstrap_from_jsonl` of any file written so far, however old (`PIPELINE_MODE=jsonl`, `docs/DEPLOYMENT.md:186`): its names, its height and the hashes of its last blocks, over whatever is stored |
| `StartCheck`, `CompareHash`, `CheckPassed` | `find_reorg_mismatch`, run first by every incremental command, and its outcomes |
| `RollbackReorg` | `rollback_to_height` and the provider summary |
| `PlanCatchUp` | the target of `incremental --catch-up` and its refusals |
| `FetchBlock`, `ReadInfo`, `ReadResource`, `CommitBlock` | one block: `getblockbyheight` and its changed names; per name the rollback row, `getnameinfo`, `getnameresource` and the upserts; the commit with history, snapshots, pruning and height |
| `FinishCatchUp` | the provider summary a catch-up defers |
| `Interrupted` | a kill or a failed RPC call at any point |

The model shows the tip being read while an older block is indexed: `ReadInfo`
and `ReadResource` take `TipView`, and `ChainMoves` may happen between them.

`ChainReplica` is the promise of an index that keeps up: a replica of the name states
of one block, taken at the tip or from an older export of the chain, moved one block further, or back to a lower block
that is on the chain. `Replica` instantiates it with the two halves of the stored rows.

### SweepTier

One generic tier of `select_sweep_candidates` and `run_sweep_batch`. `covered`,
`health`, `cursor` and `open` are the tables and `meta` keys; `at`, `first`,
`next`, `waiting`, `samples`, `complete` and `batch` are local variables of the
selection and of the batch. `ReadPage` … `EndPage` walk the pages: `PassOver` is
the `continue` of a root with nothing to do, `Postpone` the one whose unknown
authority has its samples already, `ReachLimit` the early return, `Select` an
appended candidate. Authorities count as shared when roots of the same page share
them (`SharedKeys`). `StoreResult` is the transaction of one probe, in completion
order, with the keys computed at selection. `StoreProgress` is
`_store_selection_progress`. `Crash` loses everything but the tables.

`TierPass` is the promise of a tier: the roots left in this pass, a cursor that only
advances and passes none of them, a rest when none is left, then a new pass. `Pass`
instantiates it with the roots that are not `accounted` for and the closed gate.

### LiveDirectory

`topo` and `artifact` are the published inputs. `roots`, `cand` and `status` are
the tables of `live_db.py`, one record per row; `jobs` are probes in flight with
the resource hash they were selected with. A published root is `routed` when
`_promoted_sweep_root_rows` would return it (unexpired, not of a parking or public
resolver provider, with NS, glue or synth), `listed` when the import takes it on
evidence. `SyncStart` and `SyncCommit` are the
import, cut where it has read `_promoted_sweep_root_names`; `StartProbes` and
`StoreProbe` are the evidence queue; `StartSweep`, `StoreSweep` and
`StorePreflight` are the promotions. `Listing` is `_listing_state`. `Locked`
says whether every command runs under the lock; without it an import may overlap
a batch, which is what running `hns-live` by hand allows.

### HandoffTiers

`site` is the published artifact (resource hash and route of each root),
`groups` and `preflight` the two tables of the index, `coverage` the one row per
root that the handoff tier and the shared-delegation tier both write. `Refresh`
is `refresh_hns_handoff_groups`; `StartCycle` … `EndSweep` are the preflight and
the two priority tiers of one cycle. `Unswept` are the roots of routes with too
many roots to sweep, whose only probe is the preflight.

`WeeklyGate` is the promise of the gate: it rests only when each indexed route has been
probed, a new index ends the rest, and no route is probed during it.
`Gate` instantiates it with the index, the rows ever probed and the gate.

### Probe

One probe of one host, `probe_host`, one action per query or connection. `zone` is
the world: which servers answer, the addresses, the alias, keys, TLSA records and web
servers; `Move` changes it between two queries. `cand` is the candidate (`details`:
of the evidence queue; `ds`, `preflight`: the two reasons to insist on validation; only
hosts of the queue are admitted by a preflight, a sweep's candidate has no sources).

| State | Code |
|---|---|
| `pc`, `lookup`, `hop` | the place in `probe_host`, first or second `probe_dns`, aliases followed |
| `look` | what the running lookup has heard so far |
| `dns`, `fallback` | the `DnsProbeResult` of the lookup, the one it has when the resolver finds nothing |
| `i`, `http`, `https` | address being tried, the two `WebProbeResult`s |
| `category` | the verdict |
| `quiet`, `vouched` | auxiliary: nothing was lost or moved; TLSA sets read from signed answers |

`FindServers` … `AskTlsa` is the lookup by authoritative servers, `AskResolver` and
`AskResolverTlsa` the HNS DoH resolver it falls back to (`ToResolver`), `AskHttp`,
`AskHttps`, `AskAgain` (the connection without certificate checks) the web probes,
`Responded` the decision to look up again, `Conclude` the verdict with the DNSSEC gate
(`Blocked`), `ProbeError` the exception handler. DNSSEC validation is its outcome
(`KeyStatus`), and certificates are model values, some of them trusted.
In `LiveDirectory` and `SweepTier` the result of a probe is a free choice.

### DerivedRows and LatestTlsa

`rows` is `names` joined with `resource_summary`, `ips` is `resource_ip`, `index` the
two marks by which it is current, `evidence` and `tlsa` the observations and their
summary, `blocks` the history with its rollback rows. `job` is a
running rebuild or reclassification, `read` what it has read. A transaction is one
action; `DropIndex`, `ScanResources`, `InsertIps` and `ScanNames`, `UpdateNames` are
two commands cut where other connections can commit, `KillJob` ends either.
Two auxiliary fields make exceptions precise: `stale` holds the names whose addresses
a rebuild put back in time or a bootstrap has left out, `by` in a row the rule
set of its labels, None where a reclassification judged another row, or one
whose resource had been malformed.

`LatestTlsa` is the promise of the TLSA summary, a register of the latest observation
of each vantage point; `Latest` instantiates it over the evidence table.

### Pages (extends DerivedRows)

`export_all`, one action per query whose result can differ from the next one's,
and `validate-release` against the database. `snap` is the
snapshot of the transaction that the INSERT of `Number` opens; before it each
query sees the database of its moment (`View`). `ordinals` and `handoff` are the temporary
tables; `store`, `posts`, `lookups`, `files` the written files, with the counts they
state and the pages they have; `ReadBack` and `RowAt` are how a reader resolves them.
`calm` is auxiliary: only index updates and bootstraps were committed since the
export began.

### SiteSwap, Archive and Release (which extends both)

`SiteSwap` is `generate_site` with `_replace_tree`, by several processes into one
directory. `public` is the tree at `--out`; `gen[p]` a command's step, its staged
tree and the tree it has moved aside. A tree is known by two database states: the
one its summary was read from (first) and the one its last page was read from.
`LookAtOut`, `MoveAside`, `Place`, `Restore` and `Clean` are `exists()`, the two
renames, the exception handler and the removal of the old tree, each a step of its
own. `export_live_site` repeats the same code for the directory.

`Archive` is the archive directory, one entry per manifest: `"whole"`, `"cut"` (some
of its files are pruned) or `"torn"` (the manifest's writing was cut). `Excess` is
what `prune_archives` removes, one file at a time in `RemoveFile`.

`Release` is the pipeline, `pc` its step: `Update`, `Generate`, `VerifyDatabase` and
`VerifyPublic` (`validate-release` reads the database first), `TarSite` …
`ValidateArchive` (`archive-release.sh`), `ValidatePublic` … `StartLookup`
(`publish-indexer-site.sh`). `site`, `incoming`, `lookup` and `up` are on the web
server. `file` is the main database file: rsync copies it without the write-ahead
log, into which a commit goes first. `Shown(v)` is what the summary of state `v`
shows and `validate-release` compares (counts, height, tip); a commit of DNS
evidence leaves it as it is. `KillPipeline` is a kill, or a failing command that
stops the pipeline; `ByHand` and `CommitByHand` are an operator's.

### MC and proof modules

`MC<Module>` gives the model values and the constant functions of the instances.
`<Module>Proofs` extends the module and TLAPS. A definition whose comment starts
with "Mutant:" is a faulty form of the definition after it: it is used by no
action, and `PROJECT.json` names the property that fails when it is put in place.

## 3. What is checked

| Run | Instance | Shows |
|---|---|---|
| `IndexerReorg` | 1 name, 3 blocks mined, window of 1, nightly commands, reorganisations and interruptions anywhere | `HistoryIsContiguous`, `ExactUndo`, `Converges`: the window has no gap, a rollback is the exact inverse of indexing, the index reaches the tip |
| `IndexerGrowth` | 1 name, growing chain of 3 blocks, scans, names file, bootstraps repeated, files imported when they were written or later | `StaleOnlyAhead`, `RowsNeverGoBack`: what is stale will be read again; nothing but the import of an older file makes a row older |
| `IndexerLockstep` | 2 names, 4 blocks, one block per catch-up, still chain | `IndexIsReplica` (it implements `ChainReplica`), `CaughtUpIsExact`, `SummaryCurrent`: in the best circumstances a rollback is clean and the index is the chain |
| `IndexerReadAhead` | 1 name, still chain, two blocks per catch-up | `RolledBackToBefore` fails (section 6) |
| `SweepPass` | 6 roots behind one or both of 2 authorities, pages of 3, limit 3, one sample, kills, passing dates | `NothingSkipped`, `SweepIsPass` (it implements `TierPass`), `SamplesAreLimited`, `SweepCompletes` |
| `LiveQueue` | 1 root with a subdomain, 2 resources, import and queue | `ChangedResourceIsDue`, `NoResurrection`, `QueueDrains` |
| `LivePromotion` | 1 root with a subdomain, sweeps and preflights, a topology that loses the root's route or evidence | `PromotionSticks` |
| `HandoffGate` | 3 roots, 1 route, overlapping shared groups, limit 1 | `TierIsGated` (it implements `WeeklyGate`), `RoutesGetProbed` |
| `ReleaseSteps` | pipeline and one generation by hand, 2 database states, 1 archive kept | `SiteNotLost`, `VerifiedIsOneSnapshot`, `ArchiveSurvives`, `PrunedToKeep`, `ReleaseRecovers` |
| `ProbeSteps` | 15 zones, one change, any query lost, aliases cut at 3, two addresses | `QueuedIsValidated`, `HttpsIsAuthenticated`, `AgreesWhenQuiet`, `ProbeEnds` |
| `ProbeSwept` | 7 zones, no change, any query lost | `OnlineIsValidated` fails (section 6) |
| `ExportPages` | 3 names, 1 address, 4 resources, 2 rule sets, pages of 2, two transactions or jobs beside an export | `IpIndexInSync`, `LabelsMatch`, `TlsaIsLatest`, `PostingsResolve`, `LookupsMatchRows`, `AcceptedIsCurrent` |

`TypeOK` of each module is an invariant of its first run and says more than types
where the schema does: foreign keys in `LiveDirectory`, agreement of the two
tables in `HandoffTiers`.

**Bounds.** `MaxHeight` and `MaxBlocks` bound the chain: three mined blocks are
one indexed block, a reorganisation of it and its replacement, or a catch-up over
two blocks and a reorganisation of the second. `KeepBlocks = 1` prunes within
these blocks, so pruning meets rollback. One name is enough for `IndexerReorg`
since rows of different names are independent but for the commit, which a window
of several heights exercises; `IndexerLockstep` takes two. In `SweepPass`, six
roots are two full pages (the last page is full, which is the boundary case), the
limit is met at and within pages, each authority has more roots than `Samples`, roots
behind both stand first and last on a page, and a root alone on its page with an
authority occurs when a batch starts behind the others. In `IndexerGrowth` two blocks
are mined and files can be written before each of them. One root
with a subdomain is the smallest set of hosts that one promotion can split; two
resources are an old and a new one. In `HandoffGate`, limit 1 cuts the tier short
and one route with three roots contains the case of a root that only the shared
tier reaches. `ReleaseSteps` has two processes, the least that can overlap, two
database states, an old and a new one, and three archives: one whole, one broken by
a kill, and the one whose run prunes both. `ProbeSteps` has a zone for each way a lookup can end (valid, bogus, unsigned,
without addresses, aliases inside, outside and in a loop, servers or resolver away)
and for each order of a trusted and an untrusted web server; both addresses have one.
One change meets every query. `ExportPages` starts from two names and a gap,
so that names come, go and shift ordinals; two names on pages of two fill a page and
three need a second one; one foreign transaction moves what the export reads next,
two make a rollback possible or a rebuild with an update inside. Three, such as
evidence, block and rollback, are left to the theorems, and an export of the first two names
(`NamesLimit = 2`) can be tried by changing the constant.
What holds for every bound is proved (section 4).

**Fairness.**

* `TopologyIndexer`: weak fairness of the steps of a running command (the process
  runs), strong fairness of starting `reorg-check --rollback` and
  `incremental --catch-up`: the nightly timer starts both again and again, while
  neither is continuously possible, as the other may be running. Mining, scans, exports, imports and
  a second bootstrap are not forced. `Converges` assumes that interruptions stop
  at some point, and that the node's tip is not below the indexed height for ever.
* `SweepTier`: weak fairness of the steps of a sweep that runs (every probe has a
  timeout), and none of its start: no timer sweeps a generic tier, the cycles run only
  `hns_handoff,shared_delegation` (`live_cli.py:314`, `scripts/run-live-directory.sh:26`).
  `SweepCompletes` therefore has as a premise that the operator repeats the command as
  long as the tier is open (`Repeated`), besides that kills and passing dates stop.
* `LiveDirectory`: weak fairness of the import's commit and of the queue.
  `QueueDrains` is about the queue alone: it assumes that from some point on only
  the queue runs.
* `HandoffTiers`: weak fairness of the cycle. The hourly refresh gives up at once
  when a cycle holds the lock, hence it is enabled only between cycles; strong
  fairness stands for randomised timers and the pause between two cycles.
* `Probe`: weak fairness of the probe's own steps: every query and connection has a
  timeout, after which it counts as lost.
* `Release`: weak fairness of the pipeline's steps: its commands end, and it is
  started again after each run. `ReleaseRecovers` assumes that kills, failures and
  commands by hand stop.

`CHECK_DEADLOCK` stays on everywhere: no instance may stop. A finished probe and a
finished export stutter in `Done`.

## 4. What is proved

All proofs hold for every value of the constants allowed by the module's `ASSUME`,
which says what the code relies on (positive limits, a resource for every name that
exists, None none of the values). "Under" names what a theorem assumes besides; each
of these is discussed below. Every safety property that a passing run checks is
stated by one of the theorems.

| Theorem | Under | Says |
|---|---|---|
| `TypeCorrect` | | `TypeOK` of the indexer |
| `NoGapInHistory` | `NightlyOnly` | `HistoryIsContiguous` |
| `RollbackUndoesIndexing` | `NightlyOnly` | `ExactUndo` |
| `RowsAreWhole` | | no row or snapshot has its info without its resource |
| `GrowingRowsNeverGoBack` | `~Reorgs` | `RowsNeverGoBack`, imports of older files excepted |
| `RowsAreStaleOnlyAhead` | `~Reorgs`, `ByHand` | `StaleOnlyAhead`, imports of older files included |
| `SummaryIsCurrent` | `UnbrokenCatchUp` | `SummaryCurrent` |
| `RollbackForgetsReplaced` | `Lockstep` | `RolledBackToBefore` |
| `CaughtUpRowsAreExact` | `Lockstep`, `WindowCovers` | `CaughtUpIsExact` |
| `IndexerRefines` | `Lockstep`, `WindowCovers` | `IndexIsReplica`: `TopologyIndexer` implements `ChainReplica` |
| `SweepTyped` | | `TypeOK` of a tier |
| `SweepSkipsNothing` | | `NothingSkipped` |
| `SweepPassIsComplete` | | the gate is closed only over roots dealt with (`PassIsComplete`) |
| `SweepRefines` | | `SweepIsPass`: `SweepTier` implements `TierPass` |
| `SamplesAreBounded` | | `SamplesAreLimited` |
| `TablesRefer` | | `TypeOK` and foreign keys of the live tables |
| `NoHostComesBack` | | `NoResurrection` |
| `PromotedRootStays` | `Locked` | `PromotionSticks` |
| `ChangedIsSelected` | `NoSplitPromotion` | `ChangedResourceIsDue` |
| `TablesAgree` | | `TypeOK` of the handoff tables |
| `NewRouteIsSwept` | `Locked` | the gate is closed only over probed routes (`NewRouteNotGated`) |
| `GateRefines` | `Locked` | `TierIsGated`: `HandoffTiers` implements `WeeklyGate` |
| `ReleaseTyped` | | `TypeOK` of the release |
| `SiteNotLostAlways` | | `SiteNotLost` |
| `VerifiedSnapshot` | | `VerifiedIsOneSnapshot`, whatever the summary shows of a commit |
| `ArchiveAlwaysThere` | | `ArchiveSurvives` |
| `PruningIsComplete` | | `PrunedToKeep` |
| `ResultsConsistent` | | `TypeOK` of the probe |
| `QueuedValidated` | | `QueuedIsValidated` |
| `HttpsAuthenticated` | | `HttpsIsAuthenticated` |
| `QuietProbesAgree` | `Roomy` | `AgreesWhenQuiet` |
| `TablesTyped` | | types of the derived tables |
| `IpIndexStaysInSync` | | `IpIndexInSync` |
| `LabelsStayTrue` | | `LabelsMatch` |
| `TlsaRefines` | | `TlsaIsLatest`: `DerivedRows` implements `LatestTlsa` |
| `PagesTyped` | | `TypeOK` of an export |
| `ExportLeavesTables` | | `Pages` implements `DerivedRows` |
| `TablesStayTrue` | | the three properties of the derived tables, beside an export |
| `PostingsAlwaysResolve` | | `PostingsResolve` |
| `LookupsAlwaysMatch` | | `LookupsMatchRows` |
| `AcceptedShowsNow` | | `AcceptedIsCurrent` |

The arguments:

* **Indexer types** (`TypeInv`). `TypeOK` is not inductive: a command's program
  counter must say which of its fields are set (`CommandOK`), and a name that is
  half read must have its info already (`HalfRead`).
* **`NoGapInHistory`** (`NightlyInv`, `WindowInv`). `NightlyOnly` excludes what
  only an operator does by hand: scans of any height, names files, a second
  bootstrap into a database with history, and imports with more history than the
  window. Then `cur` is always the height after the last one, so a commit extends
  the window at its end, pruning cuts it at its start, and a rollback at its end.
* **`RollbackUndoesIndexing`** (`UndoInv`). Two more facts are needed: `before`
  and `undo` have the same heights, all in `history`, and the open transaction
  has captured exactly the rows it changed (`CapturedOld`). A commit adds one
  snapshot above all others (`UndoneCommit`); a rollback followed by a deeper one
  is the deeper one (`UndoneTwice`). The recursion of "restore the heights one
  after the other" is avoided by stating what it leaves: the lowest snapshot of
  each name (`Undone`).
* **`RowsAreWhole`** (`WholeInv`). A name that is half read has its work undone with
  the transaction: between the two RPC calls nothing commits, and `HalfRead` of the
  types says which name it is.
* **`GrowingRowsNeverGoBack`** (`ChainInv`, `GrowInv`, `MonotoneInv`). A hash carries
  the number of its block, so versions are ordered. While no block is disconnected the tip's
  state of a name is the newest there is, what a command has read is between the
  stored row and the tip, and no reorganisation check can fail: hence no rollback. A file
  that shows the tip is as new as any row. An older one may replace newer
  rows, and only such an import is excepted.
* **`RowsAreStaleOnlyAhead`** (`FreshInv`). A row older than the tip was changed by a
  block above the height the row was read for; the transaction of a block re-reads
  exactly the names it changed. Every file is a prefix of the chain (`OnChain`), so what its import
  makes stale changes in a block above the file's height, to which the import also
  sets the index (`FileFacts`). `ByHand` excludes `--scan-block-height` beyond the index and
  names files that leave names out: both move `last_indexed_height` past blocks that
  nobody will read again, which is what the operator asks for.
* **`SummaryIsCurrent`** (`SummaryInv`). Only the blocks of a longer catch-up leave
  the summary behind, and `FinishCatchUp` renews it. `UnbrokenCatchUp` excludes what
  ends a catch-up between two blocks (a kill, a failing RPC call, a height that the chain
  has lost): then the summary stays behind until the next command that renews it.
* **`RollbackForgetsReplaced`** (`LockInv`, `HeightsInv`). In `Lockstep` every block is
  read while it is the tip, so a row, a snapshot and the open transaction hold
  only states of blocks up to their own height; `Lockstep` also has bootstraps and exports
  read final blocks, which no rollback touches. Section 6 shows what happens without
  it: the hypothesis is what the statement of the command needs, and it is met
  when the node keeps still during a command that has one block to do.
* **`CaughtUpRowsAreExact`** (`StoredInv`, `RunInv`). Where the recorded hash of
  a height is the chain's, the snapshots and rows of that height are the chain's states, block by
  block down to the final ones. `WindowCovers` is needed because a replaced block
  below the window has no recorded hash left to differ from (section 7).
* **`IndexerRefines`** (`RewindInv`). By `StoredInv` the rows between two steps are the
  state of one block (`ExactIsReplica`), so a bootstrap is `Start`, as is the import of
  a file, which in `Lockstep` shows a block no reorganisation reaches (`Final`). A catch-up
  commits the block after it, read while it is the tip: `Follow`. `RewindInv` is for `Rewind`:
  the check stops at the lowest recorded height that differs, so the recorded
  heights below it are blocks of the present chain, and undoing down to there gives
  their state. A command that is interrupted or refused stores nothing: a stutter.
* **`SamplesAreBounded`** (`SampleInv`). The samples of an authority are the roots in
  the batch that were selected although nothing shared was known to be healthy, and
  whose first unknown authority it is (`Sampled`). They are counted from the batch and
  not from the selection's counter; the invariant is that the counter is never
  behind them, over all pages of a selection.
  Roots selected for another reason are no samples, and the bound does not
  hold for them (section 6).
* **`SweepSkipsNothing`, `SweepPassIsComplete`** (`CursorInv`). What is true of
  the stored cursor must be true of the local one, with the batch: every root up to
  `at` is accounted for or still in the batch. As long as no sample holds `at` back
  it is right behind the root to examine, so that the last page can complete the
  tier only when `at` stands at the last root.
* **`SweepRefines`** (`PassInv`). To save is to advance because a batch runs from the stored
  cursor onwards, only while the gate is open; the tier rests with an empty account, so
  the pass after it starts with every root. One stored result is one `Deal` (`DealStep`),
  a kill or a selection that ends early is a stutter.
* **`NoHostComesBack`** (`ListingInv`). A host that is not listed and was once
  good has at least one failure, so one more makes it unlisted, never degraded.
* **`PromotedRootStays`** (`LockInv`, `StickInv`). Under the lock no promotion
  happens while an import holds its set of promoted roots, and the set of
  promoted roots only grows (`PromotedGrows`): discovery sources and the
  "ever good" mark are never removed. It speaks of the roots that are `routed` in the imported
  topology: a promoted root without route, or of a provider the sweep does not act
  on, is deactivated by the next import.
* **`ChangedIsSelected`** (`AgreeInv`). A queued candidate carries its root's
  hash. It holds if a promotion cannot split the root from a subdomain.
* **`NewRouteIsSwept`** (`GateInv`). Coverage that names a route was written by a
  probe of it, and a complete selection has every indexed route that was never
  probed in flight. Under the lock the index cannot change under a sweep.
* **`GateRefines`** (`FlightInv`). The probes of the tier in flight carry the rows of the present
  index, and the gate stays open until they are stored: so each stored result is a
  `ProbeRoute`. A shared-delegation result writes the same coverage row and is a stutter.
* **Release** (`IInv`). `SwapStepInv` shows for one step of any process that the
  trees stay ordered (summary before pages, pages before now) and the old tree is
  held. `ReadIsLater` is what makes validation sound: the state it compares with is
  no older than the pages, so the summary, the pages and the database agree on what
  is shown when the summary and the database do. That no tip comes back is an
  assumption on `Shown`: two reorganisations during one export would be needed.
  `NewestIsWhole` holds from the manifest's writing to the end of the pruning, hence
  the newest archive, which is never in `Excess`, is whole.

* **Probe** (`TypeInv`, `WebInv`, `AuthInv`). `WebInv` carries the verdict back to the
  lookup: a detailed probe never leaves its first one, so at the end `dns` is
  the result the web responses were fetched with, and the gate applies to it, because
  without addresses there is no web response. `AuthInv` says that whatever a lookup holds as secure TLSA
  records was read from one signed answer (`vouched`), which
  no later change of the zone undoes.
* **`QuietProbesAgree`** (`QuietInv` = `LookInv`, `SearchInv`). While nothing is lost
  and nothing moves, each query's answer is a function of the zone. `LookInv` follows the
  lookup along its aliases: what it has heard is what the zone gives so far, so it ends with
  `Found`, the client's own addresses, keys and records (`LookupEnds`). `SearchInv` follows the
  web search: every address before the one being tried has failed to prove itself, and what is kept is
  what some reachable server shows; this survives the second lookup of a broad probe. `ProvenIs` is the
  equivalence of the code's test (`Authenticated`) and the client's. `Roomy` says that
  an alias can be followed and two addresses are tried; the code follows five
  (`live_probe.py:464`), and the evidence queue, the preflight and the sweeps try two addresses
  (`live_cli.py:277`-`319`, `live_runner.py:26`; the engine's own default is four).
* **`IpIndexStaysInSync`** (`IpInv`). While a rebuild runs the table holds
  all addresses of a name or none, and a name without them still has the resource
  that was read (`Refilling`). So the INSERT completes the names nobody has touched;
  those indexed meanwhile either collide with it, and nothing changes, or become `stale`.
* **`LabelsStayTrue`** (`LabelInv`). The rows kept for rollbacks must be labelled as
  the stored ones are: a rollback puts them back.
* **`TlsaRefines`** (`EvidenceInv`). Identifiers grow with imports, so observations
  are totally ordered, each vantage point has exactly one that counts, and the
  stored summary is the one computed from the table. An import is `Observe` (adding
  to a set leaves the maximum or replaces it), a deletion `Forget`, all else a
  stutter. It is stated of `DerivedSpec`; `Pages` adds actions
  that leave its variables alone (`ExportLeavesTables`), so that all three hold beside an
  export (`TablesStayTrue`).
* **`PostingsAlwaysResolve`, `LookupsAlwaysMatch`, `AcceptedShowsNow`** (`TipInv`, `ViewInv`).
  `InOrder` of a finite set of names is a bijection that respects their order
  (`RankIsPlace`), and pages read in order give back the sequence that was cut
  (`ReadBackPaged`), by arithmetic on the place of an entry and not by induction over pages. `ViewInv` says
  that there is one view of the database all files written so far show: the view the names
  were numbered in, which the open transaction holds until the export ends. Without a
  name the INSERT opens no transaction, and then there is nothing to link or to resolve. What the
  validator compares (count, tip, height, rules, totals of lists) is enough to carry this
  to the database of the moment only if nothing but index updates and bootstraps was committed:
  each of them leaves another tip (`TipInv`).

## 5. What is only model-checked

* Liveness (`Converges`, `SweepCompletes`, `QueueDrains`, `RoutesGetProbed`,
  `ReleaseRecovers`, `ProbeEnds`):
  fairness and ENABLED are out of the prover's reach.
* The safety properties under other conditions than the theorems': `StaleOnlyAhead`
  and `RowsNeverGoBack` hold in `IndexerGrowth` under what its constants say, which
  implies `ByHand` and `~Reorgs`. Without those hypotheses they are false, as are
  `SummaryCurrent` when a longer catch-up may be interrupted, `CaughtUpIsExact` without
  `WindowCovers`, `RolledBackToBefore` without `Lockstep` (`IndexerReadAhead`): on the same modules with
  such constants TLC finds counterexamples, and they are of the program.
* The refinements of `TopologyIndexer` and `HandoffTiers` elsewhere than under the
  hypotheses of their theorems are not claimed: `IndexerLockstep` sets constants that imply
  `Lockstep` and `WindowCovers`, `HandoffGate` sets `Locked`. Without them both fail (section 6).
* That a reference definition computed by folds agrees with the code's on every
  input: what a recursive definition yields for every sequence needs induction over
  data. The proofs avoid it by describing sequences by their places.

## 6. Where code and text disagree

Each is a run that TLC must find violated.

* **A rollback can keep orphaned state** (`IndexerReadAhead`). Names are read at the
  tip. A catch-up over blocks h and h+1 stores at h what h+1 put on the chain and
  captures it as the state before h+1; rolling back h+1 keeps it, although the
  command reports "rolled back … to before height". It is repaired only if the
  name changes on the new branch. The same happens after a manual scan of a block
  already indexed, and for imported history, which has no rollback rows.
* **A broad probe may publish what it did not validate** (`ProbeSwept`). A comment
  says that a DS makes validation mandatory. A broad probe looks the host up again
  after a response, and the gate applies only to a lookup that resolved: if the second
  one finds no server or no address, nothing was validated, and the responses of
  the first one are reported as online. Detailed probes do not (`QueuedValidated`).

Smaller observations, without a run of their own:

* The comment "retries after 30 days" for preflights (`docs/LIVE_DIRECTORY.md:33`): a new
  artifact deletes and re-inserts every row without its date, so unchanged routes are
  due again at once.
* "Samples a new shared authority up to three times" (`docs/LIVE_DIRECTORY.md:122`): the
  code probes an authority of unknown health more often. A root that is alone on its page
  with the authority is selected without counting (`live_sweep.py:1027`-`1037`), as is one that has a
  healthy authority besides, and only the first unknown key of a root is counted, so a
  nameserver that is every root's second one gets a probe for each selected root.
  `SweepPass` has all of these roots; `SamplesAreLimited` claims the limit for
  the samples only.
* Importing an older JSONL file over a newer database replaces newer rows and lowers the
  indexed height, but keeps the newer `block_history` and its rollback rows: the
  window then ends above the indexed height until catch-up passes it again.
  `HistoryIsContiguous` and `ExactUndo` are stated of nightly use, without it.
* "A changed resource … ahead of routine weekly rechecks" (`docs/LIVE_DIRECTORY.md:97`):
  a sweep promotes root and apex at a new resource; the root's other hosts keep the old
  hash, equal to the one they were checked under, until the next import. `LiveQueue`
  therefore has no sweeps, and `ChangedIsSelected` assumes `NoSplitPromotion`.
* `rebuild-resource-ip` reads before its transaction begins. A block indexed in between
  leaves addresses of the old resource in an index marked current
  (`docs/INDEXING_AUDIT.md:25`), or makes the rebuild fail when they overlap or the name is
  gone. `reclassify` has the same gap: the row gets labels of the row it was.
  A rebuild started between an export's check of the index and its
  snapshot empties the pages of addresses.
* A bootstrap with `--limit`, or from a smaller file, into a database whose IP index is
  not current marks it current although the other names' addresses are missing.
* A stored row does not say that its resource was malformed, so `reclassify` classifies
  it by what was parsed. A rollback restores rows classified under older rules
  while `provider_rules_hash` names the new ones.
* `validate-release` compares totals, height, tip and rules, not the single counts or
  pages. Evidence, a rollback followed by the same blocks, or a rebuild during the
  export goes unnoticed, hence `calm` in `AcceptedIsCurrent`. The export's transaction begins with the
  numbering of the names: summary and handoff table are older than the pages.
* The count `needs_dane` and the stage `tlsa_gap` differ for names without glue.
* The addresses a broad probe stores are of its second lookup, the responses of its
  first. It does not try the other address over HTTPS once it knows the TLSA
  records, so it can miss a DANE-valid server (`AgreesWhenQuiet` claims less for it).
  Authoritative lookups validate keys and TLSA records, not the addresses themselves.

* A DNSSEC failure unlists a host at once (`_listing_state`, asserted by
  `tests/test_live_db.py`), while `docs/LIVE_DIRECTORY.md` describes two failures.
* Refreshing the handoff index by hand during a sweep lets the end of that sweep
  close the gate the refresh has cleared. `NewRouteIsSwept` therefore assumes the
  lock, which the timers take.
* A kill between the two renames leaves the site absent until the next generation;
  the old tree stays beside it under a hidden name that nothing looks for, as do
  staging directories. The swap comes before `validate-release`, so a tree that
  fails validation is in place, only not published.
* `validate-release` compares counts, height, tip and rules. A commit during an
  export that changes none of them (DNS evidence, a re-read name) goes unnoticed,
  which is why `VerifiedIsOneSnapshot` speaks of what the summary shows.
* `archive-release.sh` validates the new archive and then copies everything in the
  archive directory, files of archives that were never validated included.
* `publish-indexer-site.sh` stops the lookup service before it moves the database: a
  kill there leaves it down until the next publication. Site and lookup database are
  read one after the other and may be of different states.
* Catch-up refuses a backlog above `--catch-up-max-blocks` and then stays behind
  until an operator raises it: `IndexerReorg` sets `MaxCatchUp` to the largest
  backlog of its instance.

## 7. What is not modelled

* Encoding and parsing of resources, rules and JSON, HTML. Which provider a
  nameserver belongs to is an attribute of a resource; `provider_type`, which exporting
  reads from `provider_summary`, is taken from the same attribute.
* Overview pages, the content of the handoff groups, downloads, the choice between full and
  compact rows, totals of truncated collections; validation of canary names and of the
  form of files.
* The migration of old schemas beyond its effect: an IP index that is not current.
* In a probe: hosts discovered in answers, texts of failures, redirects, address
  families beyond one A and one AAAA record, private addresses.
* Rate limiters: they delay queries, and the models leave all delays free.
* The worker threads of a batch, which appear as results in any order.
* Order by provider rank, priority and date within a tier of the evidence queue:
  the model takes any set of the right size within the tiers.
* Dates: a retry due in seven days and a gate that opens in seven days are both "due
  at some time". That a transient failure's retry falls just after the gate has opened
  (`live_sweep.py:616`), and waits another week, is thus not visible.
* Name expiry by height: `names.expired` is written when a block changes the name
  (`indexer.py:690`) and stays as it is afterwards; the models take it as stored.
* The age of the handoff artifact relative to the imported topology
  (`live_candidates.py:176`): an older one can move a root back to an older hash.
* Reorganisations deeper than the stored window, which the code does not detect.
* The name lookup API, status polling, replay scripts and verification rows: they
  change no state of the program.
* Cloud and service scripts but for the timers and the lock, which appear as
  fairness and guards; `publish-site.sh`, which publishes from another machine;
  SSH keys and firewall rules of a publication.
* Files of archives that no manifest names, staging directories and trees left
  aside: nothing reads them. A copy of the database file while another process
  writes to it appears as its state before or after.

## 8. What could come next

1. Abstract specifications for the listing of a root in `LiveDirectory` (unlisted, listed,
   degraded) and for what the web server shows in `Release` (one validated state after
   another); their safety properties are proved directly so far.
2. Several tiers in one module, with `authority_health` written by each of them.
3. Dates as days, to see retries and gates fall next to each other (section 7).
