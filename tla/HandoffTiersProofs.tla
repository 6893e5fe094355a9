-------------------------- MODULE HandoffTiersProofs --------------------------
(***************************************************************************)
(* Theorems about the priority tiers: the tables agree with each other     *)
(* with and without the lock, and under the lock no indexed route is ever  *)
(* left behind the weekly gate.                                            *)
(***************************************************************************)
EXTENDS HandoffTiers, FiniteSetTheorems, TLAPS

-----------------------------------------------------------------------------
(* Types *)

\* What the tiers put in flight.
Job ==
  [tier : {"preflight"}, root : Roots]
    \cup [tier : {"handoff"}, root : Roots, probe : Row]
    \cup [tier : {"shared"}, root : Roots, group : Shared, probe : Row]

\* TypeOK, the shape of the jobs, and which of them a phase of the cycle has.
TypeInv ==
  /\ TypeOK
  /\ jobs \subseteq Job
  /\ pc = "idle" => jobs = {}
  /\ \A job \in jobs : pc = "sweep" <=> job.tier # "preflight"
  /\ \A r \in Roots : groups[r] # None => groups[r].route # None

\* Publication leaves the database alone.
LEMMA RepublishType ==
  ASSUME TypeInv, NEW r \in Roots, NEW row \in Row, Republish(r, row)
  PROVE  TypeInv'
BY DEF TypeInv, TypeOK, Republish, Row, Job, Roots

\* The refresh replaces both tables together.
LEMMA RefreshType == TypeInv /\ Refresh => TypeInv'
<1> SUFFICES ASSUME TypeInv, Refresh
             PROVE  TypeInv'
  OBVIOUS
<1>1. groups' \in [Roots -> Row \cup {None}]
  BY DEF Refresh, Indexed, TypeInv, TypeOK
<1>2. preflight' \in [Roots -> {None, "due", "waiting"}]
  BY DEF Refresh
<1>3. \A r \in Roots : site[r] # None
  BY HandoffAssumption DEF TypeInv, TypeOK, Row
<1>4. \A r \in Roots \ Unswept : preflight'[r] # None <=> groups'[r] # None /\ r \in DsRoots
  BY <1>3, HandoffAssumption DEF Refresh, Indexed
<1>5. \A r \in Unswept : groups'[r] = None
  BY HandoffAssumption DEF Refresh, Indexed
<1>6. \A r \in Roots : groups'[r] # None => groups'[r].route # None
  BY DEF Refresh, Indexed, HasRoute
<1>7. /\ {current', open', complete'} \subseteq BOOLEAN
      /\ UNCHANGED <<site, coverage, pc, jobs, complete, probed>>
  BY DEF Refresh, TypeInv, TypeOK
<1> QED BY <1>1, <1>2, <1>4, <1>5, <1>6, <1>7 DEF TypeInv, TypeOK

\* The steps of a cycle.
LEMMA StartCycleType == TypeInv /\ StartCycle => TypeInv'
<1> SUFFICES ASSUME TypeInv, StartCycle
             PROVE  TypeInv'
  OBVIOUS
<1>1. \A job \in jobs' : \E r \in DuePreflights : job = [tier |-> "preflight", root |-> r]
  BY DEF StartCycle
<1>2. jobs' \subseteq Job /\ \A job \in jobs' : job.root \in Roots /\ job.tier = "preflight"
  BY <1>1 DEF Job, DuePreflights
<1>3. pc' = "preflight"
  BY DEF StartCycle
<1>4. UNCHANGED <<site, current, groups, preflight, coverage, open, complete, probed>>
  BY DEF StartCycle
<1> QED BY <1>2, <1>3, <1>4 DEF TypeInv, TypeOK

\* Results of preflights and sweeps.
LEMMA StoreType ==
  ASSUME TypeInv, NEW job \in jobs, StorePreflight(job) \/ StoreSweep(job)
  PROVE  TypeInv'
<1>1. job \in Job /\ job.root \in Roots
  BY DEF TypeInv, TypeOK
<1>2. CASE StorePreflight(job)
  BY <1>1, <1>2, HandoffAssumption DEF StorePreflight, PreflightRecorded, TypeInv, TypeOK
<1>3. CASE StoreSweep(job)
  <2>1. pc = "sweep" /\ job.tier # "preflight"
    BY <1>3 DEF StoreSweep, TypeInv
  <2>2. job.probe \in Row
    BY <1>1, <2>1 DEF Job
  <2>3. coverage' \in [Roots -> {None} \cup [probe : Row, due : BOOLEAN]]
    BY <1>1, <1>3, <2>2 DEF StoreSweep, TypeInv, TypeOK
  <2>4. probed' \subseteq Roots \X Row
    BY <1>1, <1>3, <2>2 DEF StoreSweep, TypeInv, TypeOK
  <2>5. jobs' \subseteq jobs
    BY <1>3 DEF StoreSweep
  <2> QED BY <1>3, <2>3, <2>4, <2>5 DEF StoreSweep, TypeInv, TypeOK
<1> QED BY <1>2, <1>3

\* The selection of the two priority tiers.
LEMMA StartSweepType == TypeInv /\ StartSweep => TypeInv'
<1> SUFFICES ASSUME TypeInv, StartSweep
             PROVE  TypeInv'
  OBVIOUS
<1>1. PICK H \in Chosen(HandoffDue, Limit) : \E S \in Chosen(SharedDue, Limit - Cardinality(H)) :
        jobs' = {[tier |-> "handoff", root |-> r, probe |-> groups[r]] : r \in H} \cup S
  BY DEF StartSweep
<1>2. PICK S \in Chosen(SharedDue, Limit - Cardinality(H)) :
        jobs' = {[tier |-> "handoff", root |-> r, probe |-> groups[r]] : r \in H} \cup S
  BY <1>1
<1>3. \A r \in H : r \in Roots /\ groups[r] \in Row
  BY DEF Chosen, HandoffDue, RouteDue, TypeInv, TypeOK
<1>4. \A r \in Roots : Plain(site[r].hash) \in Row
  BY DEF Plain, Row, TypeInv, TypeOK
<1>5. S \subseteq [tier : {"shared"}, root : Roots, group : Shared, probe : Row]
  BY <1>4, HandoffAssumption DEF Chosen, SharedDue
<1>6. \A job \in jobs' : job \in Job /\ job.root \in Roots /\ job.tier # "preflight"
  BY <1>2, <1>3, <1>5 DEF Job
<1>7. pc' = "sweep" /\ complete' \in BOOLEAN
  BY DEF StartSweep, TypeInv, TypeOK
<1>8. UNCHANGED <<site, current, groups, preflight, coverage, open, probed>>
  BY DEF StartSweep
<1> QED BY <1>6, <1>7, <1>8 DEF TypeInv, TypeOK

\* The end of a cycle and the passing of dates.
LEMMA EndType == TypeInv /\ (EndSweep \/ Crash \/ DatesPass) => TypeInv'
<1> SUFFICES ASSUME TypeInv, EndSweep \/ Crash \/ DatesPass
             PROVE  TypeInv'
  OBVIOUS
<1>1. CASE EndSweep
  BY <1>1 DEF EndSweep, TypeInv, TypeOK
<1>2. CASE Crash
  BY <1>2 DEF Crash, TypeInv, TypeOK
<1>3. CASE GateOpens
  BY <1>3 DEF GateOpens, TypeInv, TypeOK
<1>4. ASSUME NEW r \in Roots, CoverageDue(r)
      PROVE  TypeInv'
  <2>1. coverage' \in [Roots -> {None} \cup [probe : Row, due : BOOLEAN]]
    BY <1>4 DEF CoverageDue, TypeInv, TypeOK
  <2> QED BY <1>4, <2>1 DEF CoverageDue, TypeInv, TypeOK
<1>5. ASSUME NEW r \in Roots, PreflightDue(r)
      PROVE  TypeInv'
  BY <1>5, HandoffAssumption DEF PreflightDue, TypeInv, TypeOK
<1> QED BY <1>1, <1>2, <1>3, <1>4, <1>5 DEF DatesPass

\* Every variable keeps its type.
LEMMA TypeInvariant == Spec => []TypeInv
<1>1. Init => TypeInv
  BY HandoffAssumption DEF Init, TypeInv, TypeOK
<1>2. TypeInv /\ [Next]_vars => TypeInv'
  <2> SUFFICES ASSUME TypeInv, [Next]_vars
               PROVE  TypeInv'
    OBVIOUS
  <2>1. CASE UNCHANGED vars
    BY <2>1 DEF TypeInv, TypeOK, vars
  <2> QED BY <2>1, RefreshType, StartCycleType, StoreType, StartSweepType, EndType,
             RepublishType DEF Next, CycleStep
<1> QED BY <1>1, <1>2, PTL DEF Spec

\* The tables keep their types and agree with each other, whether or not the
\* index is refreshed under the lock: a preflight result that arrives after a
\* refresh neither creates a row nor brings one back.
THEOREM TablesAgree == Spec => []TypeOK
<1>1. TypeInv => TypeOK
  BY DEF TypeInv
<1> QED BY <1>1, TypeInvariant, PTL

-----------------------------------------------------------------------------
(* The gate *)

InFlight(r) ==
  \E job \in jobs : job.tier = "handoff" /\ job.root = r /\ job.probe = groups[r]

\* "A new artifact can introduce a route that was absent during the previous
\* empty pass, so do not leave it behind the weekly tier gate."
\* (live_handoffs.py): while the gate is closed, every indexed route has been
\* probed, whatever the other tiers wrote into the same coverage rows.
NewRouteNotGated ==
  ~open => \A r \in Roots : groups[r] # None => <<r, groups[r]>> \in probed

\* A coverage row that names a route was written by a probe over that route,
\* and a selection that will close the gate has every route that is not
\* probed yet in flight.
GateInv ==
  /\ \A r \in Roots : coverage[r] # None /\ coverage[r].probe.route # None
                       => <<r, coverage[r].probe>> \in probed
  /\ \A job \in jobs : job.tier = "shared" => job.probe.route = None
  /\ pc # "sweep" => ~complete
  /\ complete => \A r \in Roots : groups[r] # None => <<r, groups[r]>> \in probed \/ InFlight(r)
  /\ NewRouteNotGated

\* A selection that reports the tier complete holds every due route.
LEMMA CompleteSelection ==
  ASSUME NEW H \in Chosen(HandoffDue, Limit), Cardinality(HandoffDue) <= Limit
  PROVE  H = HandoffDue
<1>1. HandoffDue \subseteq Roots /\ H \subseteq HandoffDue
  BY DEF HandoffDue, Chosen
<1>2. IsFiniteSet(Roots)
  <2>1. 1 \in Int /\ N \in Int
    BY HandoffAssumption
  <2> QED BY <2>1, FS_Interval DEF Roots
<1>3. IsFiniteSet(HandoffDue)
  BY <1>1, <1>2, FS_Subset
<1>4. Cardinality(H) = Limit \/ H = HandoffDue
  BY DEF Chosen
<1>5. CASE Cardinality(H) = Limit
  <2>1. Cardinality(H) <= Cardinality(HandoffDue) /\ Cardinality(HandoffDue) \in Nat
    BY <1>1, <1>3, FS_Subset, FS_CardinalityType
  <2>2. Limit \in Nat
    BY HandoffAssumption
  <2>3. Cardinality(H) = Cardinality(HandoffDue)
    BY <1>5, <2>1, <2>2
  <2> QED BY <1>1, <1>3, <2>3, FS_Subset
<1> QED BY <1>4, <1>5

\* When the gate is open, a route that is not due has been probed.
LEMMA NotDueIsProbed ==
  ASSUME TypeInv, GateInv, open, NEW r \in Roots, groups[r] # None, r \notin HandoffDue
  PROVE  <<r, groups[r]>> \in probed
<1>1. coverage[r] # None /\ coverage[r].probe = groups[r]
  BY DEF HandoffDue, RouteDue
<1>2. groups[r].route # None
  BY DEF TypeInv
<1> QED BY <1>1, <1>2 DEF GateInv

\* A selection keeps GateInv: a complete one has every missing route in flight.
LEMMA GateSelection ==
  ASSUME TypeInv, GateInv, StartSweep
  PROVE  GateInv'
<1>1. PICK H \in Chosen(HandoffDue, Limit) : \E S \in Chosen(SharedDue, Limit - Cardinality(H)) :
        jobs' = {[tier |-> "handoff", root |-> r, probe |-> groups[r]] : r \in H} \cup S
  BY DEF StartSweep
<1>2. PICK S \in Chosen(SharedDue, Limit - Cardinality(H)) :
        jobs' = {[tier |-> "handoff", root |-> r, probe |-> groups[r]] : r \in H} \cup S
  BY <1>1
<1>3. UNCHANGED <<groups, coverage, open, probed>> /\ pc' = "sweep"
  BY DEF StartSweep
<1>4. complete' = (open /\ Cardinality(HandoffDue) <= Limit)
  BY DEF StartSweep
<1>5. \A job \in S : job.tier = "shared" /\ job.probe.route = None
  BY DEF Chosen, SharedDue, Plain
<1>6. \A job \in jobs' : job.tier = "shared" => job.probe.route = None
  BY <1>2, <1>5
<1>7. ASSUME complete', NEW r \in Roots, groups[r] # None, <<r, groups[r]>> \notin probed
      PROVE  InFlight(r)'
  <2>1. r \in HandoffDue
    BY <1>4, <1>7, NotDueIsProbed
  <2>2. r \in H
    BY <1>4, <1>7, <2>1, CompleteSelection
  <2> DEFINE job == [tier |-> "handoff", root |-> r, probe |-> groups[r]]
  <2>3. job \in jobs'
    BY <1>2, <2>2
  <2> QED BY <1>3, <2>3 DEF InFlight
<1> QED BY <1>3, <1>6, <1>7 DEF GateInv, NewRouteNotGated

\* A stored result keeps GateInv: a result of the shared tier names no route.
LEMMA GateStoreSweep ==
  ASSUME TypeInv, GateInv, NEW job \in jobs, StoreSweep(job)
  PROVE  GateInv'
<1>1. job \in Job /\ job.root \in Roots /\ pc = "sweep" /\ job.tier # "preflight"
  BY DEF StoreSweep, TypeInv, TypeOK
<1>2. job.tier \in {"handoff", "shared"} /\ job.probe \in Row
  BY <1>1 DEF Job
<1>3. coverage' = [coverage EXCEPT ![job.root] = [probe |-> job.probe, due |-> FALSE]]
  BY DEF StoreSweep
<1>4. probed' = IF job.tier = "handoff" THEN probed \cup {<<job.root, job.probe>>} ELSE probed
  BY DEF StoreSweep
<1>5. UNCHANGED <<groups, open, pc, complete>> /\ jobs' = jobs \ {job}
  BY DEF StoreSweep
<1>6. probed \subseteq probed'
  BY <1>4
<1>7. ASSUME NEW r \in Roots, coverage'[r] # None, coverage'[r].probe.route # None
      PROVE  <<r, coverage'[r].probe>> \in probed'
  <2>1. CASE r = job.root
    <3>1. coverage'[r].probe = job.probe
      BY <1>3, <2>1 DEF TypeInv, TypeOK
    <3>2. job.tier = "handoff"
      BY <1>2, <1>7, <3>1 DEF GateInv
    <3> QED BY <1>4, <2>1, <3>1, <3>2
  <2>2. CASE r # job.root
    <3>1. coverage'[r] = coverage[r]
      BY <1>3, <2>2 DEF TypeInv, TypeOK
    <3> QED BY <1>6, <1>7, <3>1 DEF GateInv
  <2> QED BY <2>1, <2>2
<1>8. ASSUME complete, NEW r \in Roots, groups[r] # None
      PROVE  <<r, groups[r]>> \in probed' \/ InFlight(r)'
  <2>1. CASE <<r, groups[r]>> \in probed
    BY <1>6, <2>1
  <2>2. CASE InFlight(r)
    <3>1. PICK other \in jobs : other.tier = "handoff" /\ other.root = r /\ other.probe = groups[r]
      BY <2>2 DEF InFlight
    <3>2. CASE other = job
      BY <1>4, <3>1, <3>2
    <3>3. CASE other # job
      BY <1>5, <3>1, <3>3 DEF InFlight
    <3> QED BY <3>2, <3>3
  <2> QED BY <1>8, <2>1, <2>2 DEF GateInv
<1>9. NewRouteNotGated'
  BY <1>5, <1>6 DEF GateInv, NewRouteNotGated
<1> QED BY <1>5, <1>7, <1>8, <1>9 DEF GateInv

\* Under the lock a refresh meets no cycle, whose end would close the gate
\* that it opens.
LEMMA GateOther ==
  ASSUME TypeInv, GateInv, Locked,
         \/ Refresh \/ StartCycle \/ EndSweep \/ Crash \/ DatesPass
         \/ \E job \in jobs : StorePreflight(job)
         \/ \E r \in Roots, row \in Row : Republish(r, row)
  PROVE  GateInv'
<1>1. CASE Refresh
  BY <1>1 DEF Refresh, TypeInv, GateInv, NewRouteNotGated, InFlight
<1>2. CASE StartCycle
  <2>1. \A job \in jobs' : \E r \in DuePreflights : job = [tier |-> "preflight", root |-> r]
    BY <1>2 DEF StartCycle
  <2>2. UNCHANGED <<groups, coverage, open, complete, probed>> /\ pc = "idle" /\ pc' = "preflight"
    BY <1>2 DEF StartCycle
  <2> QED BY <2>1, <2>2 DEF GateInv, NewRouteNotGated
<1>3. CASE EndSweep
  <2>1. /\ jobs = {} /\ open' = (open /\ ~complete) /\ complete' = FALSE
        /\ UNCHANGED <<groups, coverage, jobs, probed>>
    BY <1>3 DEF EndSweep
  <2>2. \A r \in Roots : ~InFlight(r)
    BY <2>1 DEF InFlight
  <2> QED BY <2>1, <2>2 DEF GateInv, NewRouteNotGated
<1>4. CASE Crash
  BY <1>4 DEF Crash, GateInv, NewRouteNotGated
<1>5. CASE GateOpens
  BY <1>5 DEF GateOpens, GateInv, NewRouteNotGated, InFlight
<1>6. ASSUME NEW q \in Roots, CoverageDue(q)
      PROVE  GateInv'
  <2>1. \A r \in Roots : coverage'[r] # None => coverage[r] # None /\ coverage'[r].probe = coverage[r].probe
    BY <1>6 DEF CoverageDue, TypeInv, TypeOK
  <2> QED BY <1>6, <2>1 DEF CoverageDue, GateInv, NewRouteNotGated, InFlight
<1>7. ASSUME NEW q \in Roots, PreflightDue(q)
      PROVE  GateInv'
  BY <1>7 DEF PreflightDue, GateInv, NewRouteNotGated, InFlight
<1>8. ASSUME NEW job \in jobs, StorePreflight(job)
      PROVE  GateInv'
  BY <1>8 DEF StorePreflight, GateInv, NewRouteNotGated, InFlight
<1>9. ASSUME NEW r \in Roots, NEW row \in Row, Republish(r, row)
      PROVE  GateInv'
  BY <1>9 DEF Republish, GateInv, NewRouteNotGated, InFlight
<1> QED BY <1>1, <1>2, <1>3, <1>4, <1>5, <1>6, <1>7, <1>8, <1>9 DEF DatesPass

\* GateInv holds in every state under the lock.
LEMMA GateInvariant == Locked => (Spec => []GateInv)
<1> SUFFICES ASSUME Locked
             PROVE  Spec => []GateInv
  OBVIOUS
<1>1. Init => GateInv
  BY DEF Init, GateInv, NewRouteNotGated
<1>2. TypeInv /\ GateInv /\ [Next]_vars => GateInv'
  <2> SUFFICES ASSUME TypeInv, GateInv, [Next]_vars
               PROVE  GateInv'
    OBVIOUS
  <2>1. CASE UNCHANGED vars
    BY <2>1 DEF GateInv, NewRouteNotGated, InFlight, vars
  <2> QED BY <2>1, GateSelection, GateStoreSweep, GateOther DEF Next, CycleStep
<1> QED BY <1>1, <1>2, TypeInvariant, PTL DEF Spec

\* Under the lock, a route that a new artifact brings is never left behind the
\* weekly gate of its tier, whatever the limits, the groups that share
\* coverage rows with it, and the cycles that were killed.
THEOREM NewRouteIsSwept == Locked => (Spec => []NewRouteNotGated)
<1> SUFFICES ASSUME Locked
             PROVE  Spec => []NewRouteNotGated
  OBVIOUS
<1>1. GateInv => NewRouteNotGated
  BY DEF GateInv
<1> QED BY <1>1, GateInvariant, PTL

\* Under the lock the probes of the tier in flight are those of the index, and the
\* gate stays open until they are stored.
FlightInv ==
  \A job \in jobs : job.tier = "handoff" =>
    open /\ groups[job.root] # None /\ job.probe = groups[job.root]

\* FlightInv holds in every state under the lock.
LEMMA FlightInvariant == Locked => (Spec => []FlightInv)
<1> SUFFICES ASSUME Locked PROVE Spec => []FlightInv
  OBVIOUS
<1>1. Init => FlightInv
  BY DEF Init, FlightInv
<1>2. TypeInv /\ FlightInv /\ [Next]_vars => FlightInv'
  <2> SUFFICES ASSUME TypeInv, FlightInv, [Next]_vars PROVE FlightInv'
    OBVIOUS
  <2>1. CASE StartSweep
    <3>1. PICK H \in Chosen(HandoffDue, Limit) : \E S \in Chosen(SharedDue, Limit - Cardinality(H)) :
            jobs' = {[tier |-> "handoff", root |-> r, probe |-> groups[r]] : r \in H} \cup S
      BY <2>1 DEF StartSweep
    <3>2. PICK S \in Chosen(SharedDue, Limit - Cardinality(H)) :
            jobs' = {[tier |-> "handoff", root |-> r, probe |-> groups[r]] : r \in H} \cup S
      BY <3>1
    <3>3. \A job \in S : job.tier = "shared"
      BY DEF Chosen, SharedDue
    <3>4. \A r \in H : open /\ groups[r] # None
      BY DEF Chosen, HandoffDue, RouteDue
    <3>5. UNCHANGED <<open, groups>>
      BY <2>1 DEF StartSweep
    <3> QED BY <3>2, <3>3, <3>4, <3>5 DEF FlightInv
  <2>2. CASE StartCycle
    <3>1. \A job \in jobs' : \E r \in DuePreflights : job = [tier |-> "preflight", root |-> r]
      BY <2>2 DEF StartCycle
    <3> QED BY <3>1 DEF FlightInv
  <2>3. CASE Refresh \/ EndSweep \/ Crash
    <3>1. jobs' = {}
      BY <2>3 DEF Refresh, EndSweep, Crash, TypeInv
    <3> QED BY <3>1 DEF FlightInv
  <2>4. CASE \/ DatesPass \/ UNCHANGED vars
             \/ \E job \in jobs : StorePreflight(job) \/ StoreSweep(job)
             \/ \E r \in Roots, row \in Row : Republish(r, row)
    <3>1. CASE DatesPass \/ UNCHANGED vars \/ \E r \in Roots, row \in Row : Republish(r, row)
      <4>1. jobs' = jobs /\ UNCHANGED groups
        BY <3>1 DEF DatesPass, GateOpens, CoverageDue, PreflightDue, vars, Republish
      <4>2. open' = open \/ open' = TRUE
        BY <3>1, Zenon DEF DatesPass, GateOpens, CoverageDue, PreflightDue, vars, Republish
      <4> QED BY <4>1, <4>2 DEF FlightInv
    <3>2. ASSUME NEW job \in jobs, StorePreflight(job) \/ StoreSweep(job)
          PROVE  FlightInv'
      <4>1. jobs' = jobs \ {job} /\ UNCHANGED <<groups, open>>
        BY <3>2 DEF StorePreflight, StoreSweep
      <4> QED BY <4>1 DEF FlightInv
    <3> QED BY <2>4, <3>1, <3>2
  <2> QED BY <2>1, <2>2, <2>3, <2>4 DEF Next, CycleStep
<1> QED BY <1>1, <1>2, TypeInvariant, PTL DEF Spec

\* Under the lock the handoff tier implements the gate of WeeklyGate, for any roots,
\* routes, groups and limits: every step is invisible, installs an index and opens
\* the gate, records a probe of an indexed route while it is open, closes it over
\* routes that were all probed, or lets the week pass.
THEOREM GateRefines == Locked => (Spec => TierIsGated)
<1> SUFFICES ASSUME Locked PROVE Spec => TierIsGated
  OBVIOUS
<1>1. Init => Gate!GateInit
  BY DEF Init, Gate!GateInit
<1>2. TypeInv /\ GateInv /\ FlightInv /\ TypeInv' /\ GateInv' /\ [Next]_vars
        => [Gate!GateNext]_(Gate!gateVars)
  <2> SUFFICES ASSUME TypeInv, GateInv, FlightInv, TypeInv', GateInv', [Next]_vars
               PROVE  [Gate!GateNext]_(Gate!gateVars)
    OBVIOUS
  <2>1. CASE Refresh
    <3>1. groups' \in [Roots -> Row \cup {None}]
      BY DEF TypeInv, TypeOK
    <3>2. open' = TRUE /\ UNCHANGED probed
      BY <2>1 DEF Refresh
    <3> QED BY <3>1, <3>2 DEF Gate!GateNext, Gate!NewIndex
  <2>2. ASSUME NEW job \in jobs, StoreSweep(job)
        PROVE  [Gate!GateNext]_(Gate!gateVars)
    <3>1. UNCHANGED <<groups, open>> /\ job.root \in Roots
      BY <2>2 DEF StoreSweep, TypeInv, TypeOK
    <3>2. CASE job.tier = "handoff"
      <4>1. open /\ groups[job.root] # None /\ job.probe = groups[job.root]
        BY <3>2 DEF FlightInv
      <4>2. probed' = probed \cup {<<job.root, groups[job.root]>>}
        BY <2>2, <3>2, <4>1 DEF StoreSweep
      <4> QED BY <3>1, <4>1, <4>2 DEF Gate!GateNext, Gate!ProbeRoute
    <3>3. CASE job.tier # "handoff"
      BY <2>2, <3>1, <3>3 DEF StoreSweep, Gate!gateVars
    <3> QED BY <3>2, <3>3
  <2>3. CASE EndSweep
    <3>1. UNCHANGED <<groups, probed>> /\ open' = (open /\ ~complete)
      BY <2>3 DEF EndSweep
    <3>2. CASE open /\ complete
      <4>1. \A r \in Roots : groups[r] # None => <<r, groups[r]>> \in probed
        BY <3>1, <3>2 DEF GateInv, NewRouteNotGated
      <4>2. open' = FALSE
        BY <3>1, <3>2
      <4> QED BY <3>1, <3>2, <4>1, <4>2 DEF Gate!GateNext, Gate!Rest
    <3>3. CASE ~(open /\ complete)
      <4>1. UNCHANGED open
        BY <3>1, <3>3 DEF TypeInv, TypeOK
      <4> QED BY <3>1, <4>1 DEF Gate!gateVars
    <3> QED BY <3>2, <3>3
  <2>4. CASE GateOpens
    BY <2>4 DEF GateOpens, Gate!GateNext, Gate!WeekPasses
  <2>5. CASE UNCHANGED <<groups, probed, open>>
    BY <2>5 DEF Gate!gateVars
  <2>6. CASE \/ StartCycle \/ StartSweep \/ Crash \/ UNCHANGED vars
             \/ \E r \in Roots : CoverageDue(r) \/ PreflightDue(r)
             \/ \E job \in jobs : StorePreflight(job)
             \/ \E r \in Roots, row \in Row : Republish(r, row)
    BY <2>5, <2>6 DEF StartCycle, StartSweep, Crash, vars, CoverageDue, PreflightDue,
                      StorePreflight, Republish
  <2> QED BY <2>1, <2>2, <2>3, <2>4, <2>6 DEF Next, CycleStep, DatesPass
<1> QED BY <1>1, <1>2, TypeInvariant, GateInvariant, FlightInvariant, PTL
        DEF Spec, TierIsGated, Gate!GateSpec
=============================================================================
