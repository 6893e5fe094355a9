---------------------------- MODULE HandoffTiers ----------------------------
(***************************************************************************)
(* The priority tiers of the live directory: the index of HNS handoff      *)
(* routes and its resolver preflight (src/hns_topology/live_handoffs.py),  *)
(* the shared-delegation groups, and their sweep (live_sweep.py), which    *)
(* share one sweep_coverage row per root.                                  *)
(*                                                                         *)
(* A root is published with the route (nameserver, HNS root, bootstrap     *)
(* address and field) that leads to it, or none.  A coverage row records   *)
(* what was probed: a resource over a route, or the resource alone when    *)
(* another tier probed it.  Dates are "due" or "not due".                  *)
(***************************************************************************)
EXTENDS Naturals, FiniteSets

CONSTANTS
  None,         \* no route, no row
  N,            \* number of roots
  Routes,       \* handoff routes an artifact may hold
  MaxHash,      \* bound: different resources of a root
  DsRoots,      \* roots with DS records: they get a preflight
  Unswept,      \* DS roots of routes with too many roots to sweep, but for
                \* their canaries: a preflight is all they get
  Shared,       \* shared-delegation groups: a set of sets of roots
  Limit,        \* --sweep-limit
  PreLimit,     \* --handoff-preflight-limit
  Locked        \* is the index refreshed under run/live-directory.lock

Roots == 1 .. N

ASSUME HandoffAssumption ==
  /\ {N, MaxHash, Limit, PreLimit} \subseteq Nat \ {0}
  /\ Unswept \subseteq DsRoots /\ DsRoots \subseteq Roots
  /\ Shared \subseteq SUBSET Roots
  /\ None \notin Routes \cup {"due", "waiting"} \cup [hash : 1 .. MaxHash, route : Routes \cup {None}]
  /\ Locked \in BOOLEAN

VARIABLES
  site,       \* the published artifacts: root -> resource hash and route
  current,    \* the source signature of the index is that of the artifact
  groups,     \* hns_handoff_groups: root -> its published row, or None
  preflight,  \* hns_handoff_preflight: root -> "due", "waiting" or None
  coverage,   \* sweep_coverage: root -> what was probed and is it due
  open,       \* sweep.not_before.hns_handoff has passed
  pc,         \* the cycle: "idle", "preflight" or "sweep"
  jobs,       \* probes of the cycle in flight
  complete,   \* the handoff tier is in completed_tiers
  probed      \* auxiliary: rows probed over their route, ever

vars == <<site, current, groups, preflight, coverage, open, pc, jobs, complete, probed>>

Row == [hash : 1 .. MaxHash, route : Routes \cup {None}]

\* _candidate_from_handoff_member: coverage of the handoff tier names the
\* route; that of any other tier is the resource hash alone.
Plain(hash) == [hash |-> hash, route |-> None]

-----------------------------------------------------------------------------
(* Publication and the refresh of the index *)

Republish(r, row) ==
  /\ site' = [site EXCEPT ![r] = row]
  /\ current' = FALSE
  /\ UNCHANGED <<groups, preflight, coverage, open, pc, jobs, complete, probed>>

HasRoute(row) == row.route # None

Indexed == [r \in Roots |-> IF HasRoute(site[r]) /\ r \notin Unswept THEN site[r] ELSE None]

\* Mutant: the refresh leaves the gate of the tier as it is.
RefreshKeepsGate ==
  /\ Locked => pc = "idle"
  /\ ~current
  /\ groups' = Indexed
  /\ preflight' = [r \in Roots |-> IF r \in DsRoots /\ HasRoute(site[r]) THEN "due" ELSE None]
  /\ current' = TRUE
  /\ UNCHANGED <<site, coverage, open, pc, jobs, complete, probed>>

\* Mutant: rows of roots that lost their route stay in the preflight table.
RefreshAddsPreflights ==
  /\ Locked => pc = "idle"
  /\ ~current
  /\ groups' = Indexed
  /\ preflight' = [r \in Roots |-> IF r \in DsRoots /\ HasRoute(site[r]) THEN "due" ELSE preflight[r]]
  /\ current' = TRUE
  /\ open' = TRUE
  /\ UNCHANGED <<site, coverage, pc, jobs, complete, probed>>

\* refresh_hns_handoff_groups: an equal signature leaves everything alone; a
\* new one replaces both tables in one transaction and clears the gate.
Refresh ==
  /\ Locked => pc = "idle"
  /\ ~current
  /\ groups' = Indexed
  /\ preflight' = [r \in Roots |-> IF r \in DsRoots /\ HasRoute(site[r]) THEN "due" ELSE None]
  /\ current' = TRUE
  /\ open' = TRUE
  /\ UNCHANGED <<site, coverage, pc, jobs, complete, probed>>

-----------------------------------------------------------------------------
(* The cycle *)

DuePreflights == {r \in Roots : preflight[r] = "due"}

\* The first PreLimit due rows in the order of their names.
StartCycle ==
  /\ pc = "idle"
  /\ pc' = "preflight"
  /\ jobs' = {[tier |-> "preflight", root |-> r] :
                r \in {q \in DuePreflights : Cardinality({p \in DuePreflights : p < q}) < PreLimit}}
  /\ UNCHANGED <<site, current, groups, preflight, coverage, open, complete, probed>>

\* UPDATE ... WHERE root_name = ?: a row that is gone stays gone.
PreflightRecorded(r) ==
  [preflight EXCEPT ![r] = IF @ = None THEN None ELSE "waiting"]

StorePreflight(job) ==
  /\ pc = "preflight" /\ job \in jobs
  /\ preflight' = PreflightRecorded(job.root)
  /\ jobs' = jobs \ {job}
  /\ UNCHANGED <<site, current, groups, coverage, open, pc, complete, probed>>

\* Mutant: any coverage that is not due suppresses the route.
RouteDueByDate(r) == groups[r] # None /\ (coverage[r] = None \/ coverage[r].due)

\* _coverage_is_due, for the handoff tier.
RouteDue(r) ==
  /\ groups[r] # None
  /\ coverage[r] = None \/ coverage[r].due \/ coverage[r].probe # groups[r]

\* _coverage_may_be_due and _coverage_is_due, for the shared tier; the roots
\* of a group come with the group, so a root may come twice.
SharedDue ==
  UNION {{[tier |-> "shared", root |-> r, group |-> g, probe |-> Plain(site[r].hash)] :
            r \in {q \in g : coverage[q] = None \/ coverage[q].due}} : g \in Shared}

\* At most `limit` of the candidates, and all of them if they fit.
Chosen(candidates, limit) ==
  {S \in SUBSET candidates :
     Cardinality(S) = limit \/ (S = candidates /\ Cardinality(S) < limit)}

HandoffDue == IF open THEN {r \in Roots : RouteDue(r)} ELSE {}

\* select_sweep_candidates for the two priority tiers.  The tier is complete
\* when every route was looked at; the shared tier gets what the limit leaves.
StartSweep ==
  /\ pc = "preflight" /\ jobs = {}
  /\ pc' = "sweep"
  /\ \E H \in Chosen(HandoffDue, Limit) :
       \E S \in Chosen(SharedDue, Limit - Cardinality(H)) :
         jobs' = {[tier |-> "handoff", root |-> r, probe |-> groups[r]] : r \in H} \cup S
  /\ complete' = (open /\ Cardinality(HandoffDue) <= Limit)
  /\ UNCHANGED <<site, current, groups, preflight, coverage, open, probed>>

\* store_sweep_coverage: one row per root, the last result wins.
StoreSweep(job) ==
  /\ pc = "sweep" /\ job \in jobs
  /\ coverage' = [coverage EXCEPT ![job.root] = [probe |-> job.probe, due |-> FALSE]]
  /\ probed' = IF job.tier = "handoff" THEN probed \cup {<<job.root, job.probe>>} ELSE probed
  /\ jobs' = jobs \ {job}
  /\ UNCHANGED <<site, current, groups, preflight, open, pc, complete>>

\* _store_selection_progress, a week from the selection.
EndSweep ==
  /\ pc = "sweep" /\ jobs = {}
  /\ open' = (open /\ ~complete)
  /\ pc' = "idle" /\ complete' = FALSE
  /\ UNCHANGED <<site, current, groups, preflight, coverage, jobs, probed>>

Crash ==
  /\ pc # "idle"
  /\ pc' = "idle" /\ jobs' = {} /\ complete' = FALSE
  /\ UNCHANGED <<site, current, groups, preflight, coverage, open, probed>>

CoverageDue(r) ==
  /\ coverage[r] # None /\ ~coverage[r].due
  /\ coverage' = [coverage EXCEPT ![r].due = TRUE]
  /\ UNCHANGED <<site, current, groups, preflight, open, pc, jobs, complete, probed>>

PreflightDue(r) ==
  /\ preflight[r] = "waiting"
  /\ preflight' = [preflight EXCEPT ![r] = "due"]
  /\ UNCHANGED <<site, current, groups, coverage, open, pc, jobs, complete, probed>>

GateOpens ==
  /\ ~open
  /\ open' = TRUE
  /\ UNCHANGED <<site, current, groups, preflight, coverage, pc, jobs, complete, probed>>

-----------------------------------------------------------------------------
Init ==
  /\ site \in [Roots -> Row]
  /\ current = FALSE
  /\ groups = [r \in Roots |-> None]
  /\ preflight = [r \in Roots |-> None]
  /\ coverage = [r \in Roots |-> None]
  /\ open = TRUE
  /\ pc = "idle" /\ jobs = {} /\ complete = FALSE
  /\ probed = {}

CycleStep ==
  \/ StartCycle \/ StartSweep \/ EndSweep
  \/ \E job \in jobs : StorePreflight(job) \/ StoreSweep(job)

DatesPass ==
  GateOpens \/ \E r \in Roots : CoverageDue(r) \/ PreflightDue(r)

Next ==
  \/ Refresh \/ CycleStep \/ Crash \/ DatesPass
  \/ \E r \in Roots, row \in Row : Republish(r, row)

\* The service timer starts a cycle after each one.  The hourly refresh gives
\* up when a cycle holds the lock, so only strong fairness of the refresh,
\* which randomised timers and the pause between cycles justify, lets it in.
Fairness == WF_vars(CycleStep) /\ SF_vars(Refresh)

Spec == Init /\ [][Next]_vars /\ Fairness

-----------------------------------------------------------------------------
(* Properties *)

\* The types, and: swept DS roots have a preflight row and no other root has, also
\* when results of the previous index arrive after a refresh.
TypeOK ==
  /\ site \in [Roots -> Row]
  /\ groups \in [Roots -> Row \cup {None}]
  /\ preflight \in [Roots -> {None, "due", "waiting"}]
  /\ coverage \in [Roots -> {None} \cup [probe : Row, due : BOOLEAN]]
  /\ {current, open, complete} \subseteq BOOLEAN
  /\ pc \in {"idle", "preflight", "sweep"}
  /\ {job.root : job \in jobs} \subseteq Roots
  /\ probed \subseteq Roots \X Row
  /\ \A r \in Roots \ Unswept : preflight[r] # None <=> groups[r] # None /\ r \in DsRoots
  /\ \A r \in Unswept : groups[r] = None

\* The tier is the gate of WeeklyGate: whatever limits, kills and coverage rows of the
\* other tier do, it rests for a week only when every indexed route was probed over
\* that route, a new index wakes it, and it sends no probe while it rests.
Gate == INSTANCE WeeklyGate WITH routes <- groups
TierIsGated == Gate!GateSpec

\* Once nothing new is published and no date passes, every cohort's route is
\* indexed and probed over its route: neither the gate, the limit, nor coverage
\* written by the other tier keeps it out.
RoutesGetProbed ==
  <>[][Refresh \/ CycleStep]_vars =>
    <>[](\A r \in Roots \ Unswept : HasRoute(site[r]) => <<r, site[r]>> \in probed)

=============================================================================
