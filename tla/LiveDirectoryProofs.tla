------------------------- MODULE LiveDirectoryProofs -------------------------
(***************************************************************************)
(* Theorems about the live website directory: the tables refer to each     *)
(* other, an unlisted host does not come back as degraded, a changed       *)
(* resource is due, and a promoted root stays.                             *)
(***************************************************************************)
EXTENDS LiveDirectory, TLAPS

-----------------------------------------------------------------------------
(* Hosts and rows *)

\* A host is the apex of its root or, where there are any, its subdomain.
LEMMA HostParts ==
  /\ \A r \in Roots : Apex(r) \in Hosts /\ Apex(r)[1] = r /\ (Subdomain => Sub(r) \in Hosts)
  /\ \A r \in Roots : Sub(r)[1] = r /\ Sub(r)[2] # "apex"
  /\ \A c \in Hosts : /\ c[1] \in Roots
                      /\ c[2] = "apex" <=> c = Apex(c[1])
                      /\ c[2] # "apex" => Subdomain /\ c = Sub(c[1])
BY DEF Hosts, Apex, Sub

\* upsert_candidate writes a candidate row with the given hash and keeps its sources.
LEMMA SeenType ==
  ASSUME NEW old \in {None} \cup CandidateRow, NEW hash \in Hash,
         NEW source \in SUBSET {"broad_sweep", "probe_dns"}
  PROVE  /\ Seen(old, hash, source) \in CandidateRow
         /\ Seen(old, hash, source).hash = hash
         /\ source \subseteq Seen(old, hash, source).sources
         /\ old # None => old.sources \subseteq Seen(old, hash, source).sources
<1>1. old # None => old \in CandidateRow
  OBVIOUS
<1>2. (source \cup (IF old = None THEN {} ELSE old.sources)) \in SUBSET {"broad_sweep", "probe_dns"}
  BY <1>1 DEF CandidateRow
<1>3. (old = None \/ old.new) \in BOOLEAN
  BY <1>1 DEF CandidateRow
<1> QED BY <1>2, <1>3 DEF Seen, CandidateRow

\* The start of an import keeps every candidate and its sources.
LEMMA AgedType ==
  ASSUME NEW old \in {None} \cup CandidateRow
  PROVE  /\ Aged(old) \in {None} \cup CandidateRow
         /\ Aged(old) = None <=> old = None
         /\ Inactive(old) \in {None} \cup CandidateRow
         /\ Inactive(old) = None <=> old = None
         /\ old # None => /\ Aged(old).sources = old.sources
                          /\ Inactive(old).sources = old.sources
                          /\ ~Inactive(old).active
BY LiveAssumption DEF Aged, Inactive, CandidateRow

\* _listing_state counts failures, and shows a host as degraded only at the
\* first one.
LEMMA ListingFacts ==
  ASSUME NEW old \in {None} \cup StatusRow, NEW outcome \in Outcomes
  PROVE  /\ Listing(old, outcome).listing \in {"listed", "degraded", "unlisted"}
         /\ Listing(old, outcome).failures \in 0 .. 2
         /\ Listing(old, outcome).failures = 0 => Listing(old, outcome).listing = "listed"
         /\ Listing(old, outcome).listing = "degraded" => old # None /\ old.failures = 0
<1>1. old # None => old.failures \in 0 .. 2
  BY DEF StatusRow
<1>2. Failures(old) \in 0 .. 2 /\ (Good(old) => old # None /\ Failures(old) = old.failures)
  BY <1>1 DEF Failures, Good
<1>3. Capped(Failures(old) + 1) \in 1 .. 2
  BY <1>2 DEF Capped
<1>4. CASE outcome = "online"
  BY <1>4 DEF Listing
<1>5. CASE outcome = "dnssec"
  BY <1>3, <1>5 DEF Listing
<1>6. CASE outcome = "failed"
  <2>1. Listing(old, outcome) =
          [listing |-> IF Good(old) /\ Failures(old) + 1 < 2 THEN "degraded" ELSE "unlisted",
           failures |-> Capped(Failures(old) + 1)]
    BY <1>6 DEF Listing
  <2>2. Failures(old) + 1 < 2 => Failures(old) = 0
    BY <1>2
  <2> QED BY <1>2, <1>3, <2>1, <2>2
<1> QED BY <1>4, <1>5, <1>6 DEF Outcomes

\* store_probe_result writes a status row with the hash of the probe.
LEMMA CheckedType ==
  ASSUME NEW old \in {None} \cup StatusRow, NEW hash \in Hash, NEW outcome \in Outcomes
  PROVE  /\ Checked(old, hash, outcome) \in StatusRow
         /\ Checked(old, hash, outcome).hash = hash
         /\ Checked(old, hash, outcome).listing = Listing(old, outcome).listing
         /\ Checked(old, hash, outcome).failures = Listing(old, outcome).failures
         /\ (Good(old) \/ outcome = "online") => Checked(old, hash, outcome).good
<1>1. (Good(old) \/ outcome = "online") \in BOOLEAN
  OBVIOUS
<1> QED BY <1>1, ListingFacts DEF Checked, StatusRow

-----------------------------------------------------------------------------
(* Types *)

Candidates == [Hosts -> {None} \cup CandidateRow]

\* TypeOK, and what is known of a job: the candidate of a probe is in the
\* table, a sweep and a preflight are about an apex.
TypeInv ==
  /\ TypeOK
  /\ \A job \in jobs : IF job.kind = "probe" THEN cand[job.host] # None
                       ELSE job.host = Apex(job.host[1])

\* The foreign keys, of given tables.
Refers(R, C, S) ==
  \A c \in Hosts : (S[c] # None => C[c] # None) /\ (C[c] # None => R[c[1]] # None)

\* upsert_discovered_hosts touches only the subdomain of the probed root.
LEMMA DiscoveredType ==
  ASSUME NEW r \in Roots, NEW found \in Found, NEW hash \in Hash, NEW known \in Candidates,
         Discovered(r, found, hash, known)
  PROVE  /\ cand' \in Candidates
         /\ \A c \in Hosts : /\ known[c] # None => cand'[c] # None
                             /\ c # Sub(r) => cand'[c] = known[c]
         /\ found => cand'[Sub(r)] = Seen(known[Sub(r)], hash, {"probe_dns"})
         /\ ~found => cand' = known
<1>1. CASE found
  <2>1. Sub(r) \in Hosts
    BY <1>1, HostParts DEF Found
  <2>2. Seen(known[Sub(r)], hash, {"probe_dns"}) \in CandidateRow
    BY <2>1, SeenType DEF Candidates
  <2>3. cand' = [known EXCEPT ![Sub(r)] = Seen(known[Sub(r)], hash, {"probe_dns"})]
    BY <1>1 DEF Discovered
  <2> QED BY <1>1, <2>1, <2>2, <2>3, LiveAssumption DEF Candidates
<1>2. CASE ~found
  BY <1>2 DEF Discovered
<1> QED BY <1>1, <1>2

\* A promotion touches only the apex candidate of its root.
LEMMA PromotedType ==
  ASSUME TypeOK, NEW r \in Roots, NEW hash \in Hash,
         NEW source \in SUBSET {"broad_sweep", "probe_dns"}
  PROVE  /\ PromotedApex(r, hash, source) \in Candidates
         /\ PromotedApex(r, hash, source)[Apex(r)] = Seen(cand[Apex(r)], hash, source)
         /\ PromotedApex(r, hash, source)[Apex(r)] # None
         /\ \A c \in Hosts : c # Apex(r) => PromotedApex(r, hash, source)[c] = cand[c]
<1>1. Apex(r) \in Hosts /\ cand \in Candidates
  BY HostParts DEF TypeOK, Candidates
<1>2. Seen(cand[Apex(r)], hash, source) \in CandidateRow
  BY <1>1, SeenType DEF Candidates
<1> QED BY <1>1, <1>2, LiveAssumption DEF PromotedApex, Candidates

\* An import keeps the types and the foreign keys, and every root it keeps is
\* active under its published resource.
LEMMA SyncCommitType ==
  ASSUME TypeInv, SyncCommit
  PROVE  /\ TypeInv'
         /\ \A r \in Roots : Kept(r) => /\ roots'[r] = [hash |-> topo[r].hash, active |-> TRUE]
                                        /\ topo[r].hash \in Hash
<1>1. \A r \in Roots : topo[r].routed \/ topo[r].listed => topo[r].hash \in Hash
  <2>1. MaxHash \in Nat
    BY LiveAssumption
  <2> SUFFICES ASSUME NEW r \in Roots, topo[r].routed \/ topo[r].listed
               PROVE  topo[r].hash \in Hash
    OBVIOUS
  <2>2. topo[r] \in TopologyRow
    BY DEF TypeInv, TypeOK
  <2>3. topo[r].hash \in 0 .. MaxHash /\ topo[r].hash > 0
    BY <2>2 DEF TopologyRow
  <2> QED BY <2>1, <2>3 DEF Hash
<1>2. \A r \in Roots : Kept(r) => topo[r].hash \in Hash
  BY <1>1 DEF Kept, Imported
<1>3. ASSUME NEW r \in Roots
      PROVE  /\ RootAfterSync(r) \in {None} \cup RootRow
             /\ Kept(r) \/ roots[r] # None => RootAfterSync(r) # None
  <2>1. roots[r] \in {None} \cup RootRow
    BY DEF TypeInv, TypeOK
  <2>2. None \notin RootRow
    BY LiveAssumption
  <2>3. CASE Kept(r)
    <3>1. RootAfterSync(r) = [hash |-> topo[r].hash, active |-> TRUE]
      BY <2>3 DEF RootAfterSync
    <3>2. topo[r].hash \in Hash
      BY <1>2, <2>3
    <3>3. RootAfterSync(r) \in RootRow
      BY <3>1, <3>2 DEF RootRow
    <3> QED BY <2>2, <3>3
  <2>4. CASE ~Kept(r)
    <3>1. roots[r] # None => [roots[r] EXCEPT !.active = FALSE] \in RootRow
      BY <2>1 DEF RootRow
    <3> QED BY <2>2, <2>4, <3>1 DEF RootAfterSync
  <2> QED BY <2>3, <2>4
<1>4. ASSUME NEW r \in Roots
      PROVE  /\ ApexAfterSync(r) \in {None} \cup CandidateRow
             /\ cand[Apex(r)] # None => ApexAfterSync(r) # None
             /\ ApexAfterSync(r) # None => Kept(r) \/ cand[Apex(r)] # None
  <2>1. cand[Apex(r)] \in {None} \cup CandidateRow
    BY HostParts DEF TypeInv, TypeOK
  <2>2. CASE Kept(r)
    BY <1>2, <2>1, <2>2, AgedType, SeenType, LiveAssumption DEF ApexAfterSync
  <2>3. CASE ~Kept(r)
    BY <2>1, <2>3, AgedType DEF ApexAfterSync
  <2> QED BY <2>2, <2>3
<1>5. ASSUME NEW r \in Roots, Subdomain
      PROVE  /\ SubAfterSync(r) \in {None} \cup CandidateRow
             /\ cand[Sub(r)] # None => SubAfterSync(r) # None
             /\ SubAfterSync(r) # None => Kept(r) \/ cand[Sub(r)] # None
  <2>1. cand[Sub(r)] \in {None} \cup CandidateRow
    BY <1>5, HostParts DEF TypeInv, TypeOK
  <2>2. CASE Imported(r) /\ topo[r].owner
    BY <1>2, <2>1, <2>2, AgedType, SeenType, LiveAssumption DEF SubAfterSync, Kept
  <2>3. CASE ~(Imported(r) /\ topo[r].owner)
    <3>1. SubAfterSync(r) = IF cand[Sub(r)] # None /\ Kept(r) /\ cand[Sub(r)].recent
                                 /\ "probe_dns" \in cand[Sub(r)].sources
                            THEN [Aged(cand[Sub(r)]) EXCEPT !.active = TRUE, !.hash = topo[r].hash]
                            ELSE Inactive(cand[Sub(r)])
      BY <2>3 DEF SubAfterSync
    <3>2. cand[Sub(r)] # None /\ Kept(r) =>
            [Aged(cand[Sub(r)]) EXCEPT !.active = TRUE, !.hash = topo[r].hash] \in CandidateRow
      BY <1>2, <2>1, AgedType, LiveAssumption DEF CandidateRow
    <3> QED BY <2>1, <3>1, <3>2, AgedType, LiveAssumption
  <2> QED BY <2>2, <2>3
<1>6. roots' \in [Roots -> {None} \cup RootRow]
  BY <1>3 DEF SyncCommit
<1>7. \A c \in Hosts : cand'[c] = IF c[2] = "apex" THEN ApexAfterSync(c[1]) ELSE SubAfterSync(c[1])
  BY DEF SyncCommit
<1>8. ASSUME NEW c \in Hosts
      PROVE  /\ cand'[c] \in {None} \cup CandidateRow
             /\ cand[c] # None => cand'[c] # None
             /\ cand'[c] # None => Kept(c[1]) \/ cand[c] # None
  BY <1>4, <1>5, <1>7, HostParts
<1>9. cand' \in [Hosts -> {None} \cup CandidateRow]
  BY <1>8 DEF SyncCommit
<1>10. Refers(roots', cand', status')
  <2> SUFFICES ASSUME NEW c \in Hosts
               PROVE  /\ status[c] # None => cand'[c] # None
                      /\ cand'[c] # None => roots'[c[1]] # None
    BY DEF Refers, SyncCommit
  <2>1. roots'[c[1]] = RootAfterSync(c[1])
    BY HostParts DEF SyncCommit
  <2> QED BY <1>3, <1>8, <2>1, HostParts DEF TypeInv, TypeOK
<1>11. /\ synced' = TRUE /\ syncing' = None
       /\ UNCHANGED <<topo, artifact, status, jobs, batch, answered>>
  BY DEF SyncCommit, sourceVars
<1>12. TypeOK'
  BY <1>6, <1>9, <1>10, <1>11 DEF TypeInv, TypeOK, Refers
<1>13. \A job \in jobs : job.host \in Hosts
  BY DEF TypeInv, TypeOK
<1>14. \A r \in Roots : Kept(r) => roots'[r] = [hash |-> topo[r].hash, active |-> TRUE]
  BY DEF SyncCommit, RootAfterSync
<1> QED BY <1>2, <1>8, <1>11, <1>12, <1>13, <1>14 DEF TypeInv

\* The steps of a batch that write the tables.
LEMMA StoreProbeType ==
  ASSUME TypeInv, NEW job \in jobs, NEW outcome \in Outcomes, NEW found \in Found,
         StoreProbe(job, outcome, found)
  PROVE  /\ TypeInv'
         /\ job.host \in Hosts /\ job.hash \in Hash /\ cand[job.host] # None
         /\ cand \in Candidates
         /\ status[job.host] \in {None} \cup StatusRow
<1>1. job.host \in Hosts /\ job.hash \in Hash /\ cand[job.host] # None /\ job.host[1] \in Roots
  BY HostParts DEF StoreProbe, TypeInv, TypeOK
<1>2. status[job.host] \in {None} \cup StatusRow /\ cand \in Candidates
  BY <1>1 DEF TypeInv, TypeOK, Candidates
<1>3. status' = [status EXCEPT ![job.host] = Checked(status[job.host], job.hash, outcome)]
  BY DEF StoreProbe, StoreStatus
<1>4. Checked(status[job.host], job.hash, outcome) \in StatusRow
  BY <1>1, <1>2, CheckedType
<1>5. Discovered(job.host[1], found, job.hash, cand)
  BY DEF StoreProbe
<1>6. /\ cand' \in Candidates
      /\ \A c \in Hosts : (cand[c] # None => cand'[c] # None) /\ (c # Sub(job.host[1]) => cand'[c] = cand[c])
  BY <1>1, <1>2, <1>5, DiscoveredType
<1>7. status' \in [Hosts -> {None} \cup StatusRow]
  BY <1>1, <1>3, <1>4 DEF TypeInv, TypeOK
<1>8. Refers(roots, cand', status')
  <2> SUFFICES ASSUME NEW c \in Hosts
               PROVE  /\ status'[c] # None => cand'[c] # None
                      /\ cand'[c] # None => roots[c[1]] # None
    BY DEF Refers
  <2>1. roots[job.host[1]] # None
    BY <1>1 DEF TypeInv, TypeOK
  <2>2. status'[c] # None => cand'[c] # None
    BY <1>1, <1>3, <1>6 DEF TypeInv, TypeOK
  <2>3. cand'[c] # None => roots[c[1]] # None
    BY <1>1, <1>6, <2>1, HostParts DEF TypeInv, TypeOK
  <2> QED BY <2>2, <2>3
<1>9. jobs' = jobs \ {job} /\ UNCHANGED <<topo, artifact, synced, roots, batch, syncing, answered>>
  BY DEF StoreProbe, sourceVars
<1>10. TypeOK'
  BY <1>6, <1>7, <1>8, <1>9 DEF TypeInv, TypeOK, Candidates, Refers
<1>11. \A other \in jobs' : other \in jobs /\ other.host \in Hosts
  BY <1>9 DEF TypeInv, TypeOK
<1> QED BY <1>1, <1>2, <1>6, <1>10, <1>11 DEF TypeInv

\* A promotion writes root, apex candidate and status so that they refer to each
\* other.
LEMMA PromoteType ==
  ASSUME TypeInv, NEW r \in Roots, NEW hash \in Hash, PromoteRoot(r, hash),
         NEW job \in jobs, jobs' = jobs \ {job},
         cand' \in Candidates,
         cand'[Apex(r)] # None,
         \A c \in Hosts : /\ cand[c] # None => cand'[c] # None
                          /\ c # Apex(r) /\ c # Sub(r) => cand'[c] = cand[c],
         status' \in [Hosts -> {None} \cup StatusRow],
         \A c \in Hosts : c # Apex(r) => status'[c] = status[c],
         answered' \subseteq Roots,
         UNCHANGED <<topo, artifact, synced, batch, syncing>>
  PROVE  TypeInv'
<1>1. roots' \in [Roots -> {None} \cup RootRow] /\ roots'[r] # None
      /\ \A q \in Roots : roots[q] # None => roots'[q] # None
  <2>1. [hash |-> hash, active |-> TRUE] \in RootRow
    BY DEF RootRow
  <2>2. roots' = [roots EXCEPT ![r] = [hash |-> hash, active |-> TRUE]]
    BY DEF PromoteRoot, UpsertRoot
  <2> QED BY <2>1, <2>2, LiveAssumption DEF TypeInv, TypeOK
<1>2. Refers(roots', cand', status')
  <2> SUFFICES ASSUME NEW c \in Hosts
               PROVE  /\ status'[c] # None => cand'[c] # None
                      /\ cand'[c] # None => roots'[c[1]] # None
    BY DEF Refers
  <2>1. status'[c] # None => cand'[c] # None
    BY DEF TypeInv, TypeOK
  <2>2. CASE c = Apex(r) \/ c = Sub(r)
    BY <1>1, <2>1, <2>2, HostParts
  <2>3. CASE c # Apex(r) /\ c # Sub(r)
    BY <1>1, <2>1, <2>3, HostParts DEF TypeInv, TypeOK
  <2> QED BY <2>1, <2>2, <2>3
<1>3. TypeOK'
  BY <1>1, <1>2 DEF TypeInv, TypeOK, Candidates, Refers
<1>4. \A other \in jobs' : other \in jobs /\ other.host \in Hosts
  BY DEF TypeInv, TypeOK
<1> QED BY <1>3, <1>4 DEF TypeInv

\* The result of a sweep.
LEMMA StoreSweepType ==
  ASSUME TypeInv, NEW job \in jobs, NEW outcome \in Outcomes, NEW found \in Found,
         StoreSweep(job, outcome, found)
  PROVE  TypeInv'
<1> DEFINE r == job.host[1]
<1>1. job.host \in Hosts /\ job.hash \in Hash /\ r \in Roots /\ job.host = Apex(r)
  BY HostParts DEF StoreSweep, TypeInv, TypeOK
<1>2. CASE outcome # "online"
  <2>1. /\ UNCHANGED <<roots, cand, status, answered, topo, artifact, synced, batch, syncing>>
        /\ jobs' = jobs \ {job}
    BY <1>2 DEF StoreSweep, sourceVars
  <2> QED BY <2>1 DEF TypeInv, TypeOK
<1>3. CASE outcome = "online"
  <2> DEFINE known == PromotedApex(r, job.hash, {"broad_sweep"})
  <2>1. /\ PromoteRoot(r, job.hash) /\ Discovered(r, found, job.hash, known)
        /\ StoreStatus(job.host, job.hash, outcome) /\ answered' = answered \cup {r}
        /\ UNCHANGED <<topo, artifact, synced, batch, syncing>> /\ jobs' = jobs \ {job}
    BY <1>3 DEF StoreSweep, sourceVars
  <2>2. /\ known \in Candidates /\ known[Apex(r)] # None
        /\ \A c \in Hosts : c # Apex(r) => known[c] = cand[c]
    BY <1>1, PromotedType DEF TypeInv
  <2>3. /\ cand' \in Candidates
        /\ \A c \in Hosts : (known[c] # None => cand'[c] # None) /\ (c # Sub(r) => cand'[c] = known[c])
    <3> HIDE DEF known
    <3> QED BY <1>1, <2>1, <2>2, DiscoveredType
  <2>4. status[job.host] \in {None} \cup StatusRow
    BY <1>1 DEF TypeInv, TypeOK
  <2>5. Checked(status[job.host], job.hash, outcome) \in StatusRow
    BY <1>1, <2>4, CheckedType
  <2>6. /\ status' \in [Hosts -> {None} \cup StatusRow]
        /\ \A c \in Hosts : c # Apex(r) => status'[c] = status[c]
    BY <1>1, <2>1, <2>5 DEF StoreStatus, TypeInv, TypeOK
  <2>7. /\ cand'[Apex(r)] # None
        /\ \A c \in Hosts : /\ cand[c] # None => cand'[c] # None
                            /\ c # Apex(r) /\ c # Sub(r) => cand'[c] = cand[c]
    BY <1>1, <2>2, <2>3, HostParts
  <2>8. answered' \subseteq Roots
    BY <1>1, <2>1 DEF TypeInv, TypeOK
  <2> QED BY <1>1, <2>1, <2>3, <2>6, <2>7, <2>8, PromoteType
<1> QED BY <1>2, <1>3

\* The result of a preflight.
LEMMA StorePreflightType ==
  ASSUME TypeInv, NEW job \in jobs, NEW validated \in BOOLEAN, StorePreflight(job, validated)
  PROVE  TypeInv'
<1> DEFINE r == job.host[1]
<1>1. job.host \in Hosts /\ job.hash \in Hash /\ r \in Roots
  BY HostParts DEF TypeInv, TypeOK
<1>2. CASE ~validated
  <2>1. /\ UNCHANGED <<roots, cand, status, answered, topo, artifact, synced, batch, syncing>>
        /\ jobs' = jobs \ {job}
    BY <1>2 DEF StorePreflight, sourceVars
  <2> QED BY <2>1 DEF TypeInv, TypeOK
<1>3. CASE validated
  <2>1. /\ PromoteRoot(r, job.hash) /\ cand' = PromotedApex(r, job.hash, {})
        /\ UNCHANGED <<status, answered, topo, artifact, synced, batch, syncing>>
        /\ jobs' = jobs \ {job}
    BY <1>3 DEF StorePreflight, sourceVars
  <2>2. /\ cand' \in Candidates /\ cand'[Apex(r)] # None
        /\ \A c \in Hosts : c # Apex(r) => cand'[c] = cand[c]
    BY <1>1, <2>1, PromotedType DEF TypeInv
  <2>3. status' \in [Hosts -> {None} \cup StatusRow] /\ answered' \subseteq Roots
    BY <2>1 DEF TypeInv, TypeOK
  <2> QED BY <1>1, <2>1, <2>2, <2>3, PromoteType
<1> QED BY <1>2, <1>3

\* The steps that leave the tables alone, and the passing of dates.
LEMMA StartType ==
  ASSUME TypeInv,
         \/ StartProbes
         \/ \E kind \in {"sweep", "preflight"}, r \in Roots, hash \in Hash : StartSweep(kind, r, hash)
  PROVE  TypeInv'
<1>1. CASE StartProbes
  <2>1. PICK S \in SUBSET Due : jobs' = {[kind |-> "probe", host |-> c, hash |-> cand[c].hash] : c \in S}
    BY <1>1 DEF StartProbes
  <2>2. \A c \in Due : c \in Hosts /\ cand[c] # None /\ cand[c] \in CandidateRow
    BY DEF Due, Queued, TypeInv, TypeOK
  <2>3. \A c \in Due : cand[c].hash \in Hash
    BY <2>2 DEF CandidateRow
  <2>4. batch' = "probe" /\ UNCHANGED <<topo, artifact, synced, roots, cand, status, syncing, answered>>
    BY <1>1 DEF StartProbes, sourceVars, dbVars
  <2>5. \A job \in jobs' : /\ job \in [kind : {"probe", "sweep", "preflight"}, host : Hosts, hash : Hash]
                          /\ job.kind = "probe" /\ cand[job.host] # None
    BY <2>1, <2>2, <2>3
  <2> QED BY <2>4, <2>5 DEF TypeInv, TypeOK
<1>2. ASSUME NEW kind \in {"sweep", "preflight"}, NEW r \in Roots, NEW hash \in Hash,
             StartSweep(kind, r, hash)
      PROVE  TypeInv'
  <2>1. jobs' = {[kind |-> kind, host |-> Apex(r), hash |-> hash]}
    BY <1>2 DEF StartSweep
  <2>2. batch' = kind /\ UNCHANGED <<topo, artifact, synced, roots, cand, status, syncing, answered>>
    BY <1>2 DEF StartSweep, sourceVars, dbVars
  <2>3. \A job \in jobs' : /\ job \in [kind : {"probe", "sweep", "preflight"}, host : Hosts, hash : Hash]
                          /\ job.kind # "probe" /\ job.host = Apex(job.host[1])
    BY <2>1, HostParts
  <2> QED BY <2>2, <2>3 DEF TypeInv, TypeOK
<1> QED BY <1>1, <1>2

\* The other steps.
LEMMA QuietType ==
  ASSUME TypeInv,
         \/ SyncStart \/ EndBatch \/ Crash \/ ArtifactExported \/ UNCHANGED vars
         \/ \E r \in Roots, row \in TopologyRow : Published(r, row)
         \/ \E c \in Hosts : CheckDue(c) \/ DiscoveryOld(c)
  PROVE  TypeInv'
<1>1. CASE SyncStart
  <2>1. syncing' \subseteq Roots /\ UNCHANGED <<topo, artifact, synced, roots, cand, status, jobs, batch, answered>>
    BY <1>1 DEF SyncStart, Promoted, sourceVars, dbVars
  <2> QED BY <2>1 DEF TypeInv, TypeOK
<1>2. CASE EndBatch
  BY <1>2 DEF EndBatch, sourceVars, dbVars, TypeInv, TypeOK
<1>3. CASE Crash
  BY <1>3 DEF Crash, sourceVars, dbVars, TypeInv, TypeOK
<1>4. CASE ArtifactExported
  <2>1. \A r \in Roots : topo[r].hash \in 0 .. MaxHash
    BY DEF TypeInv, TypeOK, TopologyRow
  <2>2. 0 \in 0 .. MaxHash
    BY LiveAssumption
  <2>3. PICK S : artifact' = [r \in Roots |-> IF r \in S THEN topo[r].hash ELSE 0]
    BY <1>4 DEF ArtifactExported
  <2>4. artifact' \in [Roots -> 0 .. MaxHash]
    BY <2>1, <2>2, <2>3
  <2> QED BY <1>4, <2>4 DEF ArtifactExported, dbVars, TypeInv, TypeOK
<1>5. CASE UNCHANGED vars
  BY <1>5 DEF vars, sourceVars, dbVars, TypeInv, TypeOK
<1>6. ASSUME NEW r \in Roots, NEW row \in TopologyRow, Published(r, row)
      PROVE  TypeInv'
  BY <1>6 DEF Published, TypeInv, TypeOK
<1>7. ASSUME NEW c \in Hosts, CheckDue(c)
      PROVE  TypeInv'
  <2>1. [status[c] EXCEPT !.due = TRUE] \in StatusRow
    BY <1>7 DEF CheckDue, TypeInv, TypeOK, StatusRow
  <2>2. status' = [status EXCEPT ![c] = [status[c] EXCEPT !.due = TRUE]]
    BY <1>7 DEF CheckDue
  <2>3. status' \in [Hosts -> {None} \cup StatusRow]
        /\ \A d \in Hosts : status'[d] # None => status[d] # None
    BY <1>7, <2>1, <2>2 DEF CheckDue, TypeInv, TypeOK
  <2>4. UNCHANGED <<topo, artifact, synced, roots, cand, jobs, batch, syncing, answered>>
    BY <1>7 DEF CheckDue, sourceVars
  <2> QED BY <2>3, <2>4 DEF TypeInv, TypeOK
<1>8. ASSUME NEW c \in Hosts, DiscoveryOld(c)
      PROVE  TypeInv'
  <2> DEFINE row == [cand[c] EXCEPT !.recent = FALSE]
  <2>1. cand \in Candidates /\ cand[c] # None /\ row \in CandidateRow
    <3>1. cand \in Candidates /\ cand[c] # None
      BY <1>8 DEF DiscoveryOld, TypeInv, TypeOK, Candidates
    <3>2. cand[c] \in CandidateRow
      BY <3>1 DEF Candidates
    <3> QED BY <3>1, <3>2 DEF CandidateRow
  <2>2. cand' = [cand EXCEPT ![c] = row]
    BY <1>8 DEF DiscoveryOld
  <2>3. cand' \in [Hosts -> {None} \cup CandidateRow]
        /\ \A d \in Hosts : cand'[d] # None <=> cand[d] # None
    <3> HIDE DEF row
    <3> QED BY <2>1, <2>2, LiveAssumption DEF Candidates
  <2>4. UNCHANGED <<topo, artifact, synced, roots, status, jobs, batch, syncing, answered>>
    BY <1>8 DEF DiscoveryOld, sourceVars
  <2>5. \A job \in jobs : job.host \in Hosts
    BY DEF TypeInv, TypeOK
  <2> QED BY <2>3, <2>4, <2>5 DEF TypeInv, TypeOK
<1> QED BY <1>1, <1>2, <1>3, <1>4, <1>5, <1>6, <1>7, <1>8

\* Every table keeps its type and its foreign keys.
LEMMA TypeInvariant == Spec => []TypeInv
<1>1. Init => TypeInv
  <2> SUFFICES ASSUME Init
               PROVE  TypeInv
    OBVIOUS
  <2>1. topo \in [Roots -> TopologyRow]
    BY DEF Init
  <2>2. artifact \in [Roots -> 0 .. MaxHash]
    <3>1. 0 \in 0 .. MaxHash
      BY LiveAssumption
    <3> QED BY <3>1 DEF Init
  <2> QED BY <2>1, <2>2 DEF Init, TypeInv, TypeOK
<1>2. TypeInv /\ [Next]_vars => TypeInv'
  BY SyncCommitType, StoreProbeType, StoreSweepType, StorePreflightType, StartType, QuietType
     DEF Next, Probing, Promotion, World, Hash
<1> QED BY <1>1, <1>2, PTL DEF Spec

\* The tables of the live database keep their types and refer to each other,
\* whatever is killed, imported and promoted, and in whatever order, with or
\* without the lock.
THEOREM TablesRefer == Spec => []TypeOK
<1>1. TypeInv => TypeOK
  BY DEF TypeInv
<1> QED BY <1>1, TypeInvariant, PTL

-----------------------------------------------------------------------------
(* Listing *)

\* Who writes a status: a stored result, or the passing of its date.
LEMMA StatusStep ==
  ASSUME TypeInv, [Next]_vars, NEW c \in Hosts
  PROVE  \/ status'[c] = status[c]
         \/ \E hash \in Hash, outcome \in Outcomes : status'[c] = Checked(status[c], hash, outcome)
         \/ status[c] \in StatusRow /\ status'[c] = [status[c] EXCEPT !.due = TRUE]
<1>1. status \in [Hosts -> {None} \cup StatusRow]
  BY DEF TypeInv, TypeOK
<1>2. ASSUME NEW job \in jobs, NEW outcome \in Outcomes, StoreStatus(job.host, job.hash, outcome)
      PROVE  \/ status'[c] = status[c]
             \/ \E hash \in Hash : status'[c] = Checked(status[c], hash, outcome)
  <2>1. job.host \in Hosts /\ job.hash \in Hash
    BY DEF TypeInv, TypeOK
  <2>2. status' = [status EXCEPT ![job.host] = Checked(status[job.host], job.hash, outcome)]
    BY <1>2 DEF StoreStatus
  <2> QED BY <1>1, <2>1, <2>2
<1>3. CASE UNCHANGED vars
  BY <1>3 DEF vars, dbVars
<1>4. CASE SyncStart \/ SyncCommit \/ Crash \/ StartProbes \/ EndBatch \/ ArtifactExported
  BY <1>4 DEF SyncStart, SyncCommit, Crash, StartProbes, EndBatch, ArtifactExported, dbVars
<1>5. ASSUME NEW job \in jobs, NEW outcome \in Outcomes, NEW found \in Found,
             StoreProbe(job, outcome, found) \/ StoreSweep(job, outcome, found)
      PROVE  StoreStatus(job.host, job.hash, outcome) \/ UNCHANGED status
  BY <1>5 DEF StoreProbe, StoreSweep
<1>6. ASSUME NEW kind, NEW r, NEW hash, StartSweep(kind, r, hash)
      PROVE  UNCHANGED status
  BY <1>6 DEF StartSweep, dbVars
<1>7. ASSUME NEW job, NEW validated, StorePreflight(job, validated)
      PROVE  UNCHANGED status
  BY <1>7 DEF StorePreflight
<1>8. ASSUME NEW r, NEW row, Published(r, row)
      PROVE  UNCHANGED status
  BY <1>8 DEF Published
<1>9. ASSUME NEW d \in Hosts, DiscoveryOld(d)
      PROVE  UNCHANGED status
  BY <1>9 DEF DiscoveryOld
<1>10. ASSUME NEW d \in Hosts, CheckDue(d)
       PROVE  \/ status'[c] = status[c]
              \/ status[c] \in StatusRow /\ status'[c] = [status[c] EXCEPT !.due = TRUE]
  BY <1>1, <1>10 DEF CheckDue
<1> QED BY <1>2, <1>3, <1>4, <1>5, <1>6, <1>7, <1>8, <1>9, <1>10
        DEF Next, Probing, Promotion, World

\* Only a listed host has no failed check.
ListingInv ==
  \A c \in Hosts : status[c] # None /\ status[c].failures = 0 => status[c].listing = "listed"

\* A step keeps ListingInv and brings no unlisted host back.
LEMMA ListingStep ==
  ASSUME TypeInv, ListingInv, [Next]_vars, NEW c \in Hosts
  PROVE  /\ status'[c] # None /\ status'[c].failures = 0 => status'[c].listing = "listed"
         /\ IsListing(status'[c], "degraded") /\ ~IsListing(status[c], "degraded")
              => IsListing(status[c], "listed")
<1>1. status[c] \in {None} \cup StatusRow
  BY DEF TypeInv, TypeOK
<1>2. CASE status'[c] = status[c]
  BY <1>2 DEF ListingInv
<1>3. ASSUME NEW hash \in Hash, NEW outcome \in Outcomes,
             status'[c] = Checked(status[c], hash, outcome)
      PROVE  /\ status'[c].failures = 0 => status'[c].listing = "listed"
             /\ status'[c].listing = "degraded" => status[c] # None /\ status[c].listing = "listed"
  <2>1. /\ status'[c].failures = Listing(status[c], outcome).failures
        /\ status'[c].listing = Listing(status[c], outcome).listing
    <3>1. hash \in Hash /\ outcome \in Outcomes
      OBVIOUS
    <3>2. /\ Checked(status[c], hash, outcome).failures = Listing(status[c], outcome).failures
          /\ Checked(status[c], hash, outcome).listing = Listing(status[c], outcome).listing
      BY <1>1, <3>1, CheckedType
    <3> QED BY <1>3, <3>2
  <2> QED BY <1>1, <2>1, ListingFacts DEF ListingInv
<1>4. CASE status[c] \in StatusRow /\ status'[c] = [status[c] EXCEPT !.due = TRUE]
  <2>1. status[c] # None
    BY <1>4, LiveAssumption
  <2>2. status'[c].failures = status[c].failures /\ status'[c].listing = status[c].listing
    BY <1>4 DEF StatusRow
  <2> QED BY <2>1, <2>2 DEF ListingInv, IsListing
<1> QED BY <1>2, <1>3, <1>4, StatusStep DEF IsListing

\* A host that is not listed never becomes degraded: it takes an answer to come
\* back, however failures, DNSSEC failures, imports and kills interleave.
THEOREM NoHostComesBack == Spec => NoResurrection
<1>1. Init => ListingInv
  BY DEF Init, ListingInv
<1>2. TypeInv /\ ListingInv /\ [Next]_vars => ListingInv'
  BY ListingStep DEF ListingInv
<1>3. TypeInv /\ ListingInv /\ [Next]_vars =>
        [\A c \in Hosts : IsListing(status'[c], "degraded") /\ ~IsListing(status[c], "degraded")
                           => IsListing(status[c], "listed")]_status
  BY ListingStep
<1> QED BY <1>1, <1>2, <1>3, TypeInvariant, PTL DEF Spec, NoResurrection

-----------------------------------------------------------------------------
(* Promotion *)

\* What the steps do to the apex of a root: nothing, an import, a promotion, or
\* the passing of a date.
LEMMA ApexStep ==
  ASSUME TypeInv, [Next]_vars, NEW r \in Roots
  PROVE  LET old == cand[Apex(r)]
             new == cand'[Apex(r)]
         IN  \/ new = old
             \/ SyncCommit /\ new = ApexAfterSync(r)
             \/ \E hash \in Hash, source \in {{"broad_sweep"}, {}} : new = Seen(old, hash, source)
             \/ old \in CandidateRow /\ new = [old EXCEPT !.recent = FALSE]
<1> DEFINE old == cand[Apex(r)]
           new == cand'[Apex(r)]
<1>1. Apex(r) \in Hosts /\ cand \in Candidates /\ \A q \in Roots : Apex(r) # Sub(q)
  BY HostParts DEF TypeInv, TypeOK, Candidates, Apex, Sub
<1>2. CASE UNCHANGED vars
  BY <1>2 DEF vars, dbVars
<1>3. CASE SyncStart \/ Crash \/ StartProbes \/ EndBatch \/ ArtifactExported
  BY <1>3 DEF SyncStart, Crash, StartProbes, EndBatch, ArtifactExported, dbVars
<1>4. CASE SyncCommit
  <2>1. new = IF Apex(r)[2] = "apex" THEN ApexAfterSync(Apex(r)[1]) ELSE SubAfterSync(Apex(r)[1])
    BY <1>1, <1>4 DEF SyncCommit
  <2>2. Apex(r)[2] = "apex" /\ Apex(r)[1] = r
    BY DEF Apex
  <2>3. new = ApexAfterSync(r)
    BY <2>1, <2>2
  <2> QED BY <1>4, <2>3
<1>5. ASSUME NEW job \in jobs, NEW outcome \in Outcomes, NEW found \in Found,
             StoreProbe(job, outcome, found)
      PROVE  new = old
  <2>1. job.host[1] \in Roots /\ job.hash \in Hash
    BY HostParts DEF TypeInv, TypeOK
  <2>2. Discovered(job.host[1], found, job.hash, cand)
    BY <1>5 DEF StoreProbe
  <2>3. \A c \in Hosts : c # Sub(job.host[1]) => cand'[c] = cand[c]
    BY <1>1, <2>1, <2>2, DiscoveredType
  <2> QED BY <1>1, <2>1, <2>3
<1>6. ASSUME NEW job \in jobs, NEW hash \in Hash, NEW q \in Roots, NEW source \in {{"broad_sweep"}, {}}
      PROVE  PromotedApex(q, hash, source)[Apex(r)] = IF q = r THEN Seen(old, hash, source) ELSE old
  <2>1. q # r => Apex(q) # Apex(r)
    BY DEF Apex
  <2>2. source \in SUBSET {"broad_sweep", "probe_dns"}
    OBVIOUS
  <2> QED BY <1>1, <2>1, <2>2, PromotedType DEF TypeInv
<1>7. ASSUME NEW job \in jobs, NEW outcome \in Outcomes, NEW found \in Found,
             StoreSweep(job, outcome, found)
      PROVE  \/ new = old
             \/ new = Seen(old, job.hash, {"broad_sweep"}) /\ job.hash \in Hash
  <2>1. job.host[1] \in Roots /\ job.hash \in Hash
    BY HostParts DEF TypeInv, TypeOK
  <2>2. CASE outcome # "online"
    BY <1>7, <2>2 DEF StoreSweep
  <2>3. CASE outcome = "online"
    <3> DEFINE known == PromotedApex(job.host[1], job.hash, {"broad_sweep"})
    <3>1. Discovered(job.host[1], found, job.hash, known)
      BY <1>7, <2>3 DEF StoreSweep
    <3>2. known \in Candidates
      BY <2>1, PromotedType DEF TypeInv
    <3>3. new = known[Apex(r)]
      <4> HIDE DEF known
      <4> QED BY <1>1, <2>1, <3>1, <3>2, DiscoveredType
    <3> QED BY <1>6, <2>1, <3>3
  <2> QED BY <2>2, <2>3
<1>8. ASSUME NEW job \in jobs, NEW validated \in BOOLEAN, StorePreflight(job, validated)
      PROVE  new = old \/ (new = Seen(old, job.hash, {}) /\ job.hash \in Hash)
  <2>1. job.host[1] \in Roots /\ job.hash \in Hash
    BY HostParts DEF TypeInv, TypeOK
  <2>2. cand' = cand \/ cand' = PromotedApex(job.host[1], job.hash, {})
    BY <1>8 DEF StorePreflight
  <2> QED BY <1>6, <2>1, <2>2
<1>9. ASSUME NEW kind, NEW q, NEW hash, StartSweep(kind, q, hash)
      PROVE  new = old
  BY <1>9 DEF StartSweep, dbVars
<1>10. ASSUME NEW q, NEW row, Published(q, row)
       PROVE  new = old
  BY <1>10 DEF Published
<1>11. ASSUME NEW c \in Hosts, CheckDue(c)
       PROVE  new = old
  BY <1>11 DEF CheckDue
<1>12. ASSUME NEW c \in Hosts, DiscoveryOld(c)
       PROVE  new = old \/ (old \in CandidateRow /\ new = [old EXCEPT !.recent = FALSE])
  <2>1. cand' = [cand EXCEPT ![c] = [cand[c] EXCEPT !.recent = FALSE]] /\ cand[c] \in CandidateRow
    BY <1>12 DEF DiscoveryOld, TypeInv, TypeOK
  <2> QED BY <1>1, <2>1 DEF Candidates
<1> HIDE DEF old, new
<1>13. \/ new = old
       \/ SyncCommit /\ new = ApexAfterSync(r)
       \/ \E hash \in Hash, source \in {{"broad_sweep"}, {}} : new = Seen(old, hash, source)
       \/ old \in CandidateRow /\ new = [old EXCEPT !.recent = FALSE]
  <2>1. ASSUME NEW job \in jobs, NEW outcome \in Outcomes, NEW found \in Found,
               StoreSweep(job, outcome, found)
        PROVE  new = old \/ \E hash \in Hash : new = Seen(old, hash, {"broad_sweep"})
    BY <1>7, <2>1
  <2>2. ASSUME NEW job \in jobs, NEW validated \in BOOLEAN, StorePreflight(job, validated)
        PROVE  new = old \/ \E hash \in Hash : new = Seen(old, hash, {})
    BY <1>8, <2>2
  <2>3. CASE UNCHANGED vars \/ SyncStart \/ Crash \/ StartProbes \/ EndBatch \/ ArtifactExported
    BY <1>2, <1>3, <2>3 DEF old, new
  <2>4. CASE SyncCommit
    BY <1>4, <2>4 DEF old, new
  <2> QED BY <1>5, <1>9, <1>10, <1>11, <1>12, <2>1, <2>2, <2>3, <2>4
          DEF Next, Probing, Promotion, World
<1> QED BY <1>13 DEF old, new

\* A root never loses what an import needs to keep it.
LEMMA PromotedGrows ==
  ASSUME TypeInv, [Next]_vars
  PROVE  Promoted \subseteq Promoted'
<1> SUFFICES ASSUME NEW r \in Promoted
             PROVE  r \in Promoted'
  OBVIOUS
<1> DEFINE old == cand[Apex(r)]
           new == cand'[Apex(r)]
<1>1. r \in Roots /\ old # None /\ "broad_sweep" \in old.sources /\ Good(status[Apex(r)])
  BY DEF Promoted
<1>2. Apex(r) \in Hosts /\ old \in CandidateRow
  BY <1>1, HostParts DEF TypeInv, TypeOK
<1>3. Good(status'[Apex(r)])
  <2>1. status[Apex(r)] \in StatusRow /\ status[Apex(r)].good
    BY <1>1, <1>2 DEF Good, TypeInv, TypeOK
  <2>2. ASSUME NEW hash \in Hash, NEW outcome \in Outcomes
        PROVE  Good(Checked(status[Apex(r)], hash, outcome))
    BY <1>1, <2>1, CheckedType, LiveAssumption DEF Good
  <2>3. Good([status[Apex(r)] EXCEPT !.due = TRUE])
    <3>1. [status[Apex(r)] EXCEPT !.due = TRUE] \in StatusRow /\ [status[Apex(r)] EXCEPT !.due = TRUE].good
      BY <2>1 DEF StatusRow
    <3> QED BY <3>1, LiveAssumption DEF Good
  <2> QED BY <1>1, <1>2, <2>2, <2>3, StatusStep
<1>4. new # None /\ "broad_sweep" \in new.sources
  <2>1. CASE new = old
    BY <1>1, <2>1
  <2>2. CASE SyncCommit /\ new = ApexAfterSync(r)
    <3>1. CASE Kept(r)
      <4>1. topo[r].hash \in Hash
        BY <1>1, <2>2, <3>1, SyncCommitType
      <4>2. Aged(old) \in {None} \cup CandidateRow /\ Aged(old) # None /\ "broad_sweep" \in Aged(old).sources
        BY <1>1, <1>2, AgedType
      <4>3. PICK source \in {{"broad_sweep"}, {}} : new = Seen(Aged(old), topo[r].hash, source)
        BY <2>2, <3>1 DEF ApexAfterSync
      <4>4. source \in SUBSET {"broad_sweep", "probe_dns"}
        OBVIOUS
      <4> HIDE DEF old, new
      <4>5. /\ Seen(Aged(old), topo[r].hash, source) \in CandidateRow
            /\ Aged(old).sources \subseteq Seen(Aged(old), topo[r].hash, source).sources
        BY <4>1, <4>2, <4>4, SeenType
      <4> QED BY <4>2, <4>3, <4>5, LiveAssumption
    <3>2. CASE ~Kept(r)
      BY <1>1, <1>2, <2>2, <3>2, AgedType DEF ApexAfterSync
    <3> QED BY <3>1, <3>2
  <2>3. ASSUME NEW hash \in Hash, NEW source \in {{"broad_sweep"}, {}}, new = Seen(old, hash, source)
        PROVE  new # None /\ "broad_sweep" \in new.sources
    <3> HIDE DEF old, new
    <3>1. source \in SUBSET {"broad_sweep", "probe_dns"}
      OBVIOUS
    <3>2. Seen(old, hash, source) \in CandidateRow /\ old.sources \subseteq Seen(old, hash, source).sources
      BY <1>1, <1>2, <3>1, SeenType
    <3> QED BY <1>1, <2>3, <3>2, LiveAssumption
  <2>4. CASE old \in CandidateRow /\ new = [old EXCEPT !.recent = FALSE]
    <3> HIDE DEF old, new
    <3>1. new \in CandidateRow /\ new.sources = old.sources
      BY <2>4 DEF CandidateRow
    <3> QED BY <1>1, <3>1, LiveAssumption
  <2> QED BY <1>1, <2>1, <2>2, <2>3, <2>4, ApexStep
<1> QED BY <1>1, <1>3, <1>4 DEF Promoted

\* Under the lock no import runs while probes are in flight.
LockInv ==
  /\ batch = None => jobs = {}
  /\ syncing # None => batch = None

\* Every step keeps the lock's promise.
LEMMA LockStep == Locked /\ TypeInv /\ LockInv /\ [Next]_vars => LockInv'
<1> SUFFICES ASSUME Locked, TypeInv, LockInv, [Next]_vars
             PROVE  LockInv'
  OBVIOUS
<1>1. CASE UNCHANGED vars
  BY <1>1 DEF vars, LockInv
<1>2. CASE SyncStart
  BY <1>2 DEF SyncStart, LockInv
<1>3. CASE SyncCommit
  BY <1>3 DEF SyncCommit, LockInv
<1>4. CASE StartProbes
  BY <1>4, LiveAssumption DEF StartProbes, Idle, LockInv
<1>5. CASE EndBatch
  BY <1>5 DEF EndBatch, LockInv
<1>6. CASE Crash
  BY <1>6 DEF Crash, LockInv
<1>7. CASE ArtifactExported
  BY <1>7 DEF ArtifactExported, LockInv
<1>8. ASSUME NEW job \in jobs, NEW outcome \in Outcomes, NEW found \in Found,
             StoreProbe(job, outcome, found) \/ StoreSweep(job, outcome, found)
      PROVE  LockInv'
  BY <1>8 DEF StoreProbe, StoreSweep, LockInv
<1>9. ASSUME NEW job \in jobs, NEW validated \in BOOLEAN, StorePreflight(job, validated)
      PROVE  LockInv'
  BY <1>9 DEF StorePreflight, LockInv
<1>10. ASSUME NEW kind \in {"sweep", "preflight"}, NEW r \in Roots, NEW hash \in Hash,
              StartSweep(kind, r, hash)
       PROVE  LockInv'
  BY <1>10, LiveAssumption DEF StartSweep, Idle, LockInv
<1>11. ASSUME NEW r \in Roots, NEW row \in TopologyRow, Published(r, row)
       PROVE  LockInv'
  BY <1>11 DEF Published, LockInv
<1>12. ASSUME NEW c \in Hosts, CheckDue(c) \/ DiscoveryOld(c)
       PROVE  LockInv'
  BY <1>12 DEF CheckDue, DiscoveryOld, LockInv
<1> QED BY <1>1, <1>2, <1>3, <1>4, <1>5, <1>6, <1>7, <1>8, <1>9, <1>10, <1>11, <1>12
        DEF Next, Probing, Promotion, World, Hash

\* The locked commands satisfy LockInv in every state.
LEMMA LockInvariant == Locked => (Spec => []LockInv)
<1> SUFFICES ASSUME Locked
             PROVE  Spec => []LockInv
  OBVIOUS
<1>1. Init => LockInv
  BY DEF Init, LockInv
<1> QED BY <1>1, LockStep, TypeInvariant, PTL DEF Spec

\* Outside an import, a root changes only by becoming active.
LEMMA RootStep ==
  ASSUME TypeInv, [Next]_vars, ~SyncCommit, NEW r \in Roots
  PROVE  roots'[r] = roots[r] \/ (roots'[r] # None /\ roots'[r].active)
<1>1. ASSUME NEW q \in Roots, NEW hash \in Hash, PromoteRoot(q, hash)
      PROVE  roots'[r] = roots[r] \/ (roots'[r] # None /\ roots'[r].active)
  <2>1. roots' = [roots EXCEPT ![q] = [hash |-> hash, active |-> TRUE]]
    BY <1>1 DEF PromoteRoot, UpsertRoot
  <2>2. [hash |-> hash, active |-> TRUE] \in RootRow
    BY DEF RootRow
  <2> QED BY <2>1, <2>2, LiveAssumption DEF TypeInv, TypeOK
<1>2. CASE UNCHANGED vars
  BY <1>2 DEF vars, dbVars
<1>3. CASE SyncStart \/ Crash \/ StartProbes \/ EndBatch \/ ArtifactExported
  BY <1>3 DEF SyncStart, Crash, StartProbes, EndBatch, ArtifactExported, dbVars
<1>4. ASSUME NEW job \in jobs, NEW outcome \in Outcomes, NEW found \in Found,
             StoreProbe(job, outcome, found) \/ StoreSweep(job, outcome, found)
      PROVE  UNCHANGED roots \/ PromoteRoot(job.host[1], job.hash)
  BY <1>4 DEF StoreProbe, StoreSweep
<1>5. ASSUME NEW job \in jobs, NEW validated \in BOOLEAN, StorePreflight(job, validated)
      PROVE  UNCHANGED roots \/ PromoteRoot(job.host[1], job.hash)
  BY <1>5 DEF StorePreflight
<1>6. ASSUME NEW kind, NEW q, NEW hash, StartSweep(kind, q, hash)
      PROVE  UNCHANGED roots
  BY <1>6 DEF StartSweep, dbVars
<1>7. ASSUME NEW q, NEW row, Published(q, row)
      PROVE  UNCHANGED roots
  BY <1>7 DEF Published
<1>8. ASSUME NEW c \in Hosts, CheckDue(c) \/ DiscoveryOld(c)
      PROVE  UNCHANGED roots
  BY <1>8 DEF CheckDue, DiscoveryOld
<1>9. \A job \in jobs : job.host[1] \in Roots /\ job.hash \in Hash
  BY HostParts DEF TypeInv, TypeOK
<1> QED BY <1>1, <1>2, <1>3, <1>4, <1>5, <1>6, <1>7, <1>8, <1>9 DEF Next, Probing, Promotion, World

\* A root that answered a sweep keeps its candidate and its good status, and an
\* import that runs has read them.
StickInv ==
  /\ answered \subseteq Promoted
  /\ syncing # None => answered \subseteq syncing
  /\ synced => \A r \in answered : topo[r].routed => roots[r] # None /\ roots[r].active

\* A root joins `answered` when a sweep has stored its promotion.
LEMMA AnsweredStep ==
  ASSUME TypeInv, LockInv, [Next]_vars
  PROVE  \/ answered' = answered
         \/ /\ syncing = None /\ UNCHANGED <<topo, synced, syncing>>
            /\ \E r \in Roots : /\ answered' = answered \cup {r}
                                /\ r \in Promoted' /\ roots'[r] # None /\ roots'[r].active
<1>1. CASE UNCHANGED vars \/ SyncStart \/ SyncCommit \/ Crash \/ StartProbes \/ EndBatch \/ ArtifactExported
  BY <1>1 DEF vars, SyncStart, SyncCommit, Crash, StartProbes, EndBatch, ArtifactExported
<1>2. ASSUME NEW job \in jobs, NEW outcome \in Outcomes, NEW found \in Found,
             StoreProbe(job, outcome, found)
      PROVE  answered' = answered
  BY <1>2 DEF StoreProbe
<1>3. ASSUME NEW job \in jobs, NEW outcome \in Outcomes, NEW found \in Found,
             StoreSweep(job, outcome, found), outcome = "online"
      PROVE  /\ syncing = None /\ UNCHANGED <<topo, synced, syncing>>
             /\ \E r \in Roots : /\ answered' = answered \cup {r}
                                 /\ r \in Promoted' /\ roots'[r] # None /\ roots'[r].active
  <2> DEFINE r == job.host[1]
             known == PromotedApex(r, job.hash, {"broad_sweep"})
  <2>1. /\ job.host \in Hosts /\ job.hash \in Hash /\ r \in Roots /\ job.host = Apex(r)
        /\ Apex(r) # Sub(r)
    BY <1>3, HostParts DEF StoreSweep, TypeInv, TypeOK, Apex, Sub
  <2>2. /\ PromoteRoot(r, job.hash) /\ Discovered(r, found, job.hash, known)
        /\ StoreStatus(job.host, job.hash, outcome) /\ answered' = answered \cup {r}
        /\ UNCHANGED <<topo, synced, syncing>>
    BY <1>3 DEF StoreSweep, sourceVars
  <2>3. syncing = None
    BY DEF LockInv
  <2>4. roots'[r] # None /\ roots'[r].active
    <3>1. [hash |-> job.hash, active |-> TRUE] \in RootRow
      BY <2>1 DEF RootRow
    <3> QED BY <2>1, <2>2, <3>1, LiveAssumption DEF PromoteRoot, UpsertRoot, TypeInv, TypeOK
  <2>5. known \in Candidates /\ known[Apex(r)] # None /\ "broad_sweep" \in known[Apex(r)].sources
    <3>1. /\ known \in Candidates /\ known[Apex(r)] # None
          /\ known[Apex(r)] = Seen(cand[Apex(r)], job.hash, {"broad_sweep"})
      BY <2>1, PromotedType DEF TypeInv
    <3>2. cand[Apex(r)] \in {None} \cup CandidateRow
      BY <2>1 DEF TypeInv, TypeOK
    <3>3. {"broad_sweep"} \subseteq Seen(cand[Apex(r)], job.hash, {"broad_sweep"}).sources
      BY <2>1, <3>2, SeenType
    <3> HIDE DEF known
    <3> QED BY <3>1, <3>3
  <2>6. cand'[Apex(r)] = known[Apex(r)]
    <3> HIDE DEF known
    <3> QED BY <2>1, <2>2, <2>5, DiscoveredType
  <2>7. Good(status'[Apex(r)])
    <3>1. status[Apex(r)] \in {None} \cup StatusRow
      BY <2>1 DEF TypeInv, TypeOK
    <3>2. /\ Checked(status[Apex(r)], job.hash, outcome) \in StatusRow
          /\ Checked(status[Apex(r)], job.hash, outcome).good
      BY <1>3, <2>1, <3>1, CheckedType
    <3>3. status'[Apex(r)] = Checked(status[Apex(r)], job.hash, outcome)
      BY <2>1, <2>2 DEF StoreStatus, TypeInv, TypeOK
    <3> QED BY <3>2, <3>3, LiveAssumption DEF Good
  <2>8. r \in Promoted'
    <3> HIDE DEF known
    <3> QED BY <2>1, <2>5, <2>6, <2>7 DEF Promoted
  <2> QED BY <2>1, <2>2, <2>3, <2>4, <2>8
<1>4. ASSUME NEW job \in jobs, NEW outcome \in Outcomes, NEW found \in Found,
             StoreSweep(job, outcome, found), outcome # "online"
      PROVE  answered' = answered
  BY <1>4 DEF StoreSweep
<1>5. ASSUME NEW job \in jobs, NEW validated \in BOOLEAN, StorePreflight(job, validated)
      PROVE  answered' = answered
  BY <1>5 DEF StorePreflight
<1>6. ASSUME NEW kind, NEW q, NEW hash, StartSweep(kind, q, hash)
      PROVE  answered' = answered
  BY <1>6 DEF StartSweep
<1>7. ASSUME NEW q, NEW row, Published(q, row)
      PROVE  answered' = answered
  BY <1>7 DEF Published
<1>8. ASSUME NEW c \in Hosts, CheckDue(c) \/ DiscoveryOld(c)
      PROVE  answered' = answered
  BY <1>8 DEF CheckDue, DiscoveryOld
<1> QED BY <1>1, <1>2, <1>3, <1>4, <1>5, <1>6, <1>7, <1>8 DEF Next, Probing, Promotion, World

\* Which steps touch the import and the fingerprint.
LEMMA SyncingStep ==
  ASSUME TypeInv, [Next]_vars
  PROVE  /\ syncing' \in {syncing, None} \/ (syncing' = Promoted /\ UNCHANGED answered)
         /\ synced' => SyncCommit \/ (synced /\ UNCHANGED topo)
<1>1. CASE UNCHANGED vars \/ SyncStart \/ SyncCommit \/ Crash \/ StartProbes \/ EndBatch \/ ArtifactExported
  BY <1>1 DEF vars, dbVars, sourceVars, SyncStart, SyncCommit, Crash, StartProbes, EndBatch, ArtifactExported
<1>2. ASSUME NEW job \in jobs, NEW outcome \in Outcomes, NEW found \in Found,
             StoreProbe(job, outcome, found) \/ StoreSweep(job, outcome, found)
      PROVE  UNCHANGED <<syncing, synced, topo>>
  BY <1>2 DEF StoreProbe, StoreSweep, sourceVars
<1>3. ASSUME NEW job \in jobs, NEW validated \in BOOLEAN, StorePreflight(job, validated)
      PROVE  UNCHANGED <<syncing, synced, topo>>
  BY <1>3 DEF StorePreflight, sourceVars
<1>4. ASSUME NEW kind, NEW q, NEW hash, StartSweep(kind, q, hash)
      PROVE  UNCHANGED <<syncing, synced, topo>>
  BY <1>4 DEF StartSweep, sourceVars, dbVars
<1>5. ASSUME NEW q, NEW row, Published(q, row)
      PROVE  UNCHANGED syncing /\ ~synced'
  BY <1>5 DEF Published
<1>6. ASSUME NEW c \in Hosts, CheckDue(c) \/ DiscoveryOld(c)
      PROVE  UNCHANGED <<syncing, synced, topo>>
  BY <1>6 DEF CheckDue, DiscoveryOld, sourceVars
<1> QED BY <1>1, <1>2, <1>3, <1>4, <1>5, <1>6 DEF Next, Probing, Promotion, World

\* Every step keeps StickInv.
LEMMA StickStep ==
  ASSUME TypeInv, LockInv, StickInv, [Next]_vars
  PROVE  StickInv'
<1>1. answered' \subseteq Promoted'
  BY PromotedGrows, AnsweredStep DEF StickInv
<1>2. syncing' # None => answered' \subseteq syncing'
  <2>1. CASE answered' = answered
    BY <2>1, SyncingStep DEF StickInv
  <2>2. CASE answered' # answered
    BY <2>2, AnsweredStep
  <2> QED BY <2>1, <2>2
<1>3. ASSUME synced', NEW r \in answered', topo'[r].routed
      PROVE  roots'[r] # None /\ roots'[r].active
  <2>1. CASE SyncCommit
    <3>1. /\ UNCHANGED <<topo, answered>> /\ syncing # None
      BY <2>1 DEF SyncCommit, sourceVars
    <3>2. r \in Roots /\ r \in syncing
      BY <3>1 DEF StickInv, TypeInv, TypeOK
    <3>3. Kept(r)
      BY <1>3, <3>1, <3>2 DEF Kept
    <3>4. roots'[r] = [hash |-> topo[r].hash, active |-> TRUE] /\ topo[r].hash \in Hash
      BY <2>1, <3>2, <3>3, SyncCommitType
    <3>5. roots'[r] \in RootRow
      BY <3>4 DEF RootRow
    <3>6. roots'[r] # None
      BY <3>5, LiveAssumption
    <3>7. roots'[r].active
      BY <3>4
    <3> QED BY <3>6, <3>7
  <2>2. CASE ~SyncCommit
    <3>1. synced /\ UNCHANGED topo
      BY <1>3, <2>2, SyncingStep
    <3>2. CASE r \in answered
      <4>1. roots[r] # None /\ roots[r].active /\ r \in Roots
        BY <1>3, <3>1, <3>2 DEF StickInv, TypeInv, TypeOK
      <4> QED BY <2>2, <4>1, RootStep
    <3>3. CASE r \notin answered
      <4>1. PICK q \in Roots : answered' = answered \cup {q} /\ roots'[q] # None /\ roots'[q].active
        BY <1>3, <3>3, AnsweredStep
      <4> QED BY <1>3, <3>3, <4>1
    <3> QED BY <3>2, <3>3
  <2> QED BY <2>1, <2>2
<1> QED BY <1>1, <1>2, <1>3 DEF StickInv

\* Under the lock, a root whose endpoint a sweep has found stays in the
\* directory as long as the topology has it.
THEOREM PromotedRootStays == Locked => (Spec => []PromotionSticks)
<1> SUFFICES ASSUME Locked
             PROVE  Spec => []PromotionSticks
  OBVIOUS
<1>1. Init => StickInv
  BY DEF Init, StickInv
<1>2. TypeInv /\ LockInv /\ StickInv /\ [Next]_vars => StickInv'
  BY StickStep
<1>3. StickInv => PromotionSticks
  BY DEF StickInv, PromotionSticks
<1> QED BY <1>1, <1>2, <1>3, TypeInvariant, LockInvariant, PTL DEF Spec

-----------------------------------------------------------------------------
(* Changed resources *)

\* Where nothing promotes a root behind its subdomain's back, every queued
\* candidate carries its root's resource, and so does every probe in flight.
NoSplitPromotion == ~Subdomain \/ (Locked /\ ~Sweeps)

AgreeInv ==
  /\ \A c \in Hosts : Queued(c) => cand[c].hash = roots[c[1]].hash
  /\ ~Sweeps => \A job \in jobs : job.kind = "probe" /\ (Locked => job.hash = roots[job.host[1]].hash)

\* Every host's candidate and root after an import.
LEMMA SyncCommitAgrees ==
  ASSUME TypeInv, SyncCommit, NEW c \in Hosts, Queued(c)'
  PROVE  cand'[c].hash = roots'[c[1]].hash
<1> DEFINE r == c[1]
<1>1. r \in Roots /\ cand[c] \in {None} \cup CandidateRow
  BY HostParts DEF TypeInv, TypeOK
<1>2. roots'[r] = RootAfterSync(r) /\ roots'[r] # None /\ roots'[r].active
  BY <1>1 DEF SyncCommit, Queued
<1>3. Kept(r)
  <2> SUFFICES ASSUME ~Kept(r)
               PROVE  FALSE
    OBVIOUS
  <2>1. roots'[r] = IF roots[r] = None THEN None ELSE [roots[r] EXCEPT !.active = FALSE]
    BY <1>2 DEF RootAfterSync
  <2>2. roots[r] \in {None} \cup RootRow
    BY <1>1 DEF TypeInv, TypeOK
  <2>3. roots[r] # None => ~[roots[r] EXCEPT !.active = FALSE].active
    BY <2>2 DEF RootRow
  <2>4. CASE roots[r] = None
    BY <1>2, <2>1, <2>4
  <2>5. CASE roots[r] # None
    <3>1. roots'[r] = [roots[r] EXCEPT !.active = FALSE]
      BY <2>1, <2>5
    <3>2. ~roots'[r].active
      BY <2>3, <2>5, <3>1
    <3> QED BY <1>2, <3>2
  <2> QED BY <2>4, <2>5
<1>4. roots'[r].hash = topo[r].hash /\ topo[r].hash \in Hash
  <2>1. roots'[r] = [hash |-> topo[r].hash, active |-> TRUE] /\ topo[r].hash \in Hash
    BY <1>1, <1>3, SyncCommitType
  <2> QED BY <2>1
<1>5. cand'[c] = (IF c[2] = "apex" THEN ApexAfterSync(r) ELSE SubAfterSync(r))
      /\ cand'[c] # None /\ cand'[c].active
  BY DEF SyncCommit, Queued
<1>6. Aged(cand[c]) \in {None} \cup CandidateRow
  BY <1>1, AgedType
<1>7. ASSUME NEW source \in {{"broad_sweep"}, {}}
      PROVE  Seen(Aged(cand[c]), topo[r].hash, source).hash = topo[r].hash
  <2>1. source \in SUBSET {"broad_sweep", "probe_dns"}
    OBVIOUS
  <2> QED BY <1>4, <1>6, <2>1, SeenType
<1>8. CASE c[2] = "apex"
  <2>1. cand'[c] = Seen(Aged(cand[c]), topo[r].hash, IF r \in syncing THEN {"broad_sweep"} ELSE {})
    BY <1>3, <1>5, <1>8, HostParts DEF ApexAfterSync
  <2> QED BY <1>4, <1>7, <2>1
<1>9. CASE c[2] # "apex"
  <2>1. cand'[c] = SubAfterSync(r) /\ c = Sub(r)
    BY <1>5, <1>9, HostParts
  <2>2. CASE Imported(r) /\ topo[r].owner
    <3>1. cand'[c] = Seen(Aged(cand[c]), topo[r].hash, {})
      BY <2>1, <2>2 DEF SubAfterSync
    <3> QED BY <1>4, <1>7, <3>1
  <2>3. CASE ~(Imported(r) /\ topo[r].owner)
    <3>1. cand'[c] = IF cand[c] # None /\ Kept(r) /\ cand[c].recent /\ "probe_dns" \in cand[c].sources
                     THEN [Aged(cand[c]) EXCEPT !.active = TRUE, !.hash = topo[r].hash]
                     ELSE Inactive(cand[c])
      BY <2>1, <2>3 DEF SubAfterSync
    <3>2. cand[c] # None => [Aged(cand[c]) EXCEPT !.active = TRUE, !.hash = topo[r].hash].hash = topo[r].hash
      BY <1>1, <1>6, AgedType DEF CandidateRow
    <3>3. cand[c] # None => ~Inactive(cand[c]).active
      BY <1>1, AgedType
    <3>4. cand[c] = None => Inactive(cand[c]) = None
      BY <1>1, AgedType
    <3> QED BY <1>4, <1>5, <3>1, <3>2, <3>3, <3>4
  <2> QED BY <2>2, <2>3
<1> QED BY <1>8, <1>9

\* A promotion, where a root has only its apex.
LEMMA PromotionAgrees ==
  ASSUME TypeInv, AgreeInv, ~Subdomain, NEW r \in Roots, NEW hash \in Hash,
         NEW source \in {{"broad_sweep"}, {}},
         PromoteRoot(r, hash), cand' = PromotedApex(r, hash, source),
         NEW c \in Hosts, Queued(c)'
  PROVE  cand'[c].hash = roots'[c[1]].hash
<1>1. c = Apex(c[1]) /\ c[1] \in Roots /\ source \in SUBSET {"broad_sweep", "probe_dns"}
  BY HostParts
<1>2. roots' = [roots EXCEPT ![r] = [hash |-> hash, active |-> TRUE]]
  BY DEF PromoteRoot, UpsertRoot
<1>3. CASE c[1] = r
  <2>1. cand[Apex(r)] \in {None} \cup CandidateRow
    BY HostParts DEF TypeInv, TypeOK
  <2>2. Seen(cand[Apex(r)], hash, source).hash = hash
    BY <1>1, <2>1, SeenType
  <2>3. cand'[c] = Seen(cand[Apex(r)], hash, source)
    BY <1>1, <1>3, PromotedType DEF TypeInv
  <2>4. roots'[r].hash = hash
    BY <1>2 DEF TypeInv, TypeOK
  <2> QED BY <1>3, <2>2, <2>3, <2>4
<1>4. CASE c[1] # r
  <2>1. c # Apex(r) /\ roots'[c[1]] = roots[c[1]]
    BY <1>1, <1>2, <1>4, HostParts DEF TypeInv, TypeOK
  <2>2. cand'[c] = cand[c]
    BY <1>1, <2>1, PromotedType DEF TypeInv
  <2> QED BY <2>1, <2>2 DEF AgreeInv, Queued
<1> QED BY <1>3, <1>4

\* Steps that leave candidates and roots alone, with jobs that stay or go.
LEMMA AgreeKept ==
  ASSUME AgreeInv, UNCHANGED <<roots, cand>>, jobs' \subseteq jobs
  PROVE  AgreeInv'
BY DEF AgreeInv, Queued

\* Every step keeps AgreeInv.
LEMMA AgreeStep ==
  ASSUME NoSplitPromotion, TypeInv, Locked => LockInv, AgreeInv, [Next]_vars
  PROVE  AgreeInv'
<1>1. CASE UNCHANGED vars \/ SyncStart \/ Crash \/ EndBatch \/ ArtifactExported
  <2>1. UNCHANGED <<roots, cand>> /\ jobs' \subseteq jobs
    BY <1>1 DEF vars, SyncStart, Crash, EndBatch, ArtifactExported, dbVars
  <2> QED BY <2>1, AgreeKept
<1>2. CASE SyncCommit
  <2>1. jobs' = jobs /\ syncing # None
    BY <1>2 DEF SyncCommit
  <2>2. Locked => jobs = {}
    BY <2>1 DEF LockInv
  <2>3. \A c \in Hosts : Queued(c)' => cand'[c].hash = roots'[c[1]].hash
    BY <1>2, SyncCommitAgrees
  <2> QED BY <2>1, <2>2, <2>3 DEF AgreeInv
<1>3. CASE StartProbes
  <2>1. PICK S \in SUBSET Due : jobs' = {[kind |-> "probe", host |-> c, hash |-> cand[c].hash] : c \in S}
    BY <1>3 DEF StartProbes
  <2>2. \A c \in Due : c \in Hosts /\ cand[c].hash = roots[c[1]].hash
    BY DEF Due, AgreeInv
  <2>3. UNCHANGED <<roots, cand>>
    BY <1>3 DEF StartProbes, dbVars
  <2>4. \A job \in jobs' : job.kind = "probe" /\ job.hash = roots'[job.host[1]].hash
    BY <2>1, <2>2, <2>3
  <2>5. \A c \in Hosts : Queued(c)' => cand'[c].hash = roots'[c[1]].hash
    BY <2>3 DEF AgreeInv, Queued
  <2> QED BY <2>4, <2>5 DEF AgreeInv
<1>4. ASSUME NEW job \in jobs, NEW outcome \in Outcomes, NEW found \in Found,
             StoreProbe(job, outcome, found)
      PROVE  AgreeInv'
  <2> DEFINE r == job.host[1]
  <2>1. /\ roots' = roots /\ jobs' \subseteq jobs
        /\ Discovered(r, found, job.hash, cand)
    BY <1>4 DEF StoreProbe
  <2>2. r \in Roots /\ job.hash \in Hash /\ cand \in Candidates
    BY HostParts DEF TypeInv, TypeOK, Candidates
  <2>3. CASE ~found
    <3>1. cand' = cand
      BY <2>1, <2>3 DEF Discovered
    <3> QED BY <2>1, <3>1, AgreeKept
  <2>4. CASE found
    <3>1. Subdomain /\ Sub(r) \in Hosts
      BY <2>2, <2>4, HostParts DEF Found
    <3>2. job.hash = roots[r].hash /\ ~Sweeps
      BY <3>1 DEF NoSplitPromotion, AgreeInv
    <3>3. cand' = [cand EXCEPT ![Sub(r)] = Seen(cand[Sub(r)], job.hash, {"probe_dns"})]
      BY <2>1, <2>4 DEF Discovered
    <3>4. cand[Sub(r)] \in {None} \cup CandidateRow /\ {"probe_dns"} \in SUBSET {"broad_sweep", "probe_dns"}
      BY <3>1 DEF TypeInv, TypeOK
    <3>5. Seen(cand[Sub(r)], job.hash, {"probe_dns"}).hash = job.hash
      BY <2>2, <3>4, SeenType
    <3>6. Sub(r)[1] = r
      BY <2>2, HostParts
    <3>7. ASSUME NEW c \in Hosts, Queued(c)'
          PROVE  cand'[c].hash = roots'[c[1]].hash
      <4>1. CASE c = Sub(r)
        <5>1. cand'[c] = Seen(cand[Sub(r)], job.hash, {"probe_dns"})
          BY <2>2, <3>1, <3>3, <4>1 DEF Candidates
        <5> QED BY <2>1, <3>2, <3>5, <3>6, <4>1, <5>1
      <4>2. CASE c # Sub(r)
        <5>1. cand'[c] = cand[c]
          BY <2>2, <3>3, <4>2 DEF Candidates
        <5> QED BY <2>1, <3>7, <5>1 DEF AgreeInv, Queued
      <4> QED BY <4>1, <4>2
    <3> QED BY <2>1, <3>7 DEF AgreeInv
  <2> QED BY <2>3, <2>4
<1>5. ASSUME NEW kind \in {"sweep", "preflight"}, NEW r \in Roots, NEW hash \in Hash,
             StartSweep(kind, r, hash)
      PROVE  AgreeInv'
  BY <1>5 DEF StartSweep, dbVars, AgreeInv, Queued
<1>6. ASSUME NEW job \in jobs, NEW outcome \in Outcomes, NEW found \in Found,
             StoreSweep(job, outcome, found)
      PROVE  AgreeInv'
  <2>1. job.host[1] \in Roots /\ job.hash \in Hash /\ Sweeps /\ ~Subdomain
    BY <1>6, HostParts DEF StoreSweep, TypeInv, TypeOK, AgreeInv, NoSplitPromotion
  <2>2. jobs' \subseteq jobs
    BY <1>6 DEF StoreSweep
  <2>3. CASE outcome # "online"
    <3>1. UNCHANGED <<roots, cand>>
      BY <1>6, <2>3 DEF StoreSweep
    <3> QED BY <2>2, <3>1, AgreeKept
  <2>4. CASE outcome = "online"
    <3>1. PromoteRoot(job.host[1], job.hash) /\ cand' = PromotedApex(job.host[1], job.hash, {"broad_sweep"})
      <4>1. ~found
        BY <2>1 DEF Found
      <4>2. /\ PromoteRoot(job.host[1], job.hash)
            /\ Discovered(job.host[1], found, job.hash, PromotedApex(job.host[1], job.hash, {"broad_sweep"}))
        BY <1>6, <2>4 DEF StoreSweep
      <4> QED BY <4>1, <4>2 DEF Discovered
    <3>2. \A c \in Hosts : Queued(c)' => cand'[c].hash = roots'[c[1]].hash
      BY <2>1, <3>1, PromotionAgrees
    <3> QED BY <2>1, <3>2 DEF AgreeInv
  <2> QED BY <2>3, <2>4
<1>7. ASSUME NEW job \in jobs, NEW validated \in BOOLEAN, StorePreflight(job, validated)
      PROVE  AgreeInv'
  <2>1. job.host[1] \in Roots /\ job.hash \in Hash /\ Sweeps /\ ~Subdomain
    BY <1>7, HostParts DEF StorePreflight, TypeInv, TypeOK, AgreeInv, NoSplitPromotion
  <2>2. jobs' \subseteq jobs
    BY <1>7 DEF StorePreflight
  <2>3. CASE ~validated
    <3>1. UNCHANGED <<roots, cand>>
      BY <1>7, <2>3 DEF StorePreflight
    <3> QED BY <2>2, <3>1, AgreeKept
  <2>4. CASE validated
    <3>1. PromoteRoot(job.host[1], job.hash) /\ cand' = PromotedApex(job.host[1], job.hash, {})
      BY <1>7, <2>4 DEF StorePreflight
    <3>2. \A c \in Hosts : Queued(c)' => cand'[c].hash = roots'[c[1]].hash
      BY <2>1, <3>1, PromotionAgrees
    <3> QED BY <2>1, <3>2 DEF AgreeInv
  <2> QED BY <2>3, <2>4
<1>8. ASSUME NEW r, NEW row, Published(r, row)
      PROVE  AgreeInv'
  BY <1>8, AgreeKept DEF Published
<1>9. ASSUME NEW c \in Hosts, CheckDue(c)
      PROVE  AgreeInv'
  BY <1>9, AgreeKept DEF CheckDue
<1>10. ASSUME NEW d \in Hosts, DiscoveryOld(d)
       PROVE  AgreeInv'
  <2>1. cand' = [cand EXCEPT ![d] = [cand[d] EXCEPT !.recent = FALSE]] /\ roots' = roots /\ jobs' = jobs
    BY <1>10 DEF DiscoveryOld
  <2>2. cand \in Candidates /\ cand[d] # None /\ cand[d] \in CandidateRow
    BY <1>10 DEF DiscoveryOld, TypeInv, TypeOK, Candidates
  <2>3. /\ [cand[d] EXCEPT !.recent = FALSE].hash = cand[d].hash
        /\ [cand[d] EXCEPT !.recent = FALSE].active = cand[d].active
    BY <2>2 DEF CandidateRow
  <2>4. ASSUME NEW c \in Hosts, Queued(c)'
        PROVE  cand'[c].hash = roots'[c[1]].hash
    <3>1. CASE c = d
      <4>1. cand'[c] = [cand[d] EXCEPT !.recent = FALSE]
        BY <2>1, <2>2, <3>1 DEF Candidates
      <4>2. cand'[c].hash = cand[d].hash /\ Queued(d)
        BY <2>1, <2>2, <2>3, <2>4, <3>1, <4>1 DEF Queued
      <4> QED BY <2>1, <3>1, <4>2 DEF AgreeInv
    <3>2. CASE c # d
      BY <2>1, <2>2, <2>4, <3>2 DEF AgreeInv, Queued, Candidates
    <3> QED BY <3>1, <3>2
  <2> QED BY <2>1, <2>4 DEF AgreeInv
<1> QED BY <1>1, <1>2, <1>3, <1>4, <1>5, <1>6, <1>7, <1>8, <1>9, <1>10
        DEF Next, Probing, Promotion, World, Hash

\* Where no promotion splits a root from its subdomain, a host of the queue that
\* was checked under another resource than its root's is due at once: with only
\* the evidence queue under the lock, or with roots that have no subdomain even
\* when commands are run by hand beside each other.
THEOREM ChangedIsSelected == NoSplitPromotion => (Spec => []ChangedResourceIsDue)
<1> SUFFICES ASSUME NoSplitPromotion
             PROVE  Spec => []ChangedResourceIsDue
  OBVIOUS
<1>1. Init => AgreeInv
  BY DEF Init, AgreeInv, Queued
<1>2. TypeInv /\ (Locked => LockInv) /\ AgreeInv /\ [Next]_vars => AgreeInv'
  BY AgreeStep
<1>3. AgreeInv => ChangedResourceIsDue
  BY DEF AgreeInv, ChangedResourceIsDue, Due, Changed
<1>4. Spec => [](Locked => LockInv)
  <2>1. CASE Locked
    <3>1. LockInv => (Locked => LockInv)
      OBVIOUS
    <3> QED BY <2>1, <3>1, LockInvariant, PTL
  <2>2. CASE ~Locked
    <3>1. Locked => LockInv
      BY <2>2
    <3> QED BY <3>1, PTL
  <2> QED BY <2>1, <2>2
<1> QED BY <1>1, <1>2, <1>3, <1>4, TypeInvariant, PTL DEF Spec
=============================================================================
