---------------------------- MODULE DerivedRows ----------------------------
(***************************************************************************)
(* The tables of the topology database that are derived from others, and   *)
(* the processes that keep them: index updates, bootstraps and rollbacks   *)
(* (indexer.py, db.py), the rebuild of the IP index, reclassification      *)
(* under other provider rules, and the import of DNS evidence with its     *)
(* summary (cli.py, db.py, tlsa_evidence.py).                              *)
(*                                                                         *)
(* Every process has its own connection; a transaction is one step.  The   *)
(* rebuild and the reclassification read the whole table first and open    *)
(* their transaction with the first write, so that other transactions may  *)
(* commit in between.                                                      *)
(***************************************************************************)
EXTENDS Naturals, Sequences

CONSTANTS
  None,
  N,            \* names are 1..N, in the order of the database
  Ips,          \* addresses
  RuleSets,     \* versions of the provider rules
  Resources,    \* the resources of the instance
  Starts,       \* which resources the first bootstrap finds: [Names -> Resources + None]
  Vantages,     \* points TLSA was observed from
  MaxTime,      \* bound: time of an observation
  MaxWrites     \* bound: transactions and jobs after the first bootstrap

Names == 1..N
Roots == 1..(N + 1)   \* names of nameservers' roots; the last is unknown here

\* summarize_resource: roots of the nameservers, glue and synth addresses; the
\* rule sets that take its nameservers or addresses for a parking provider's.
Resource ==
  [ns : SUBSET Roots, glue : SUBSET Ips, synth : SUBSET Ips, ds : BOOLEAN,
   txt : BOOLEAN, malformed : BOOLEAN, parked : SUBSET RuleSets]

Classes ==
  {"EXPIRED", "MALFORMED_RESOURCE", "EMPTY", "TXT_ONLY", "PARKED_OR_DEFAULT",
   "DNSSEC_CANDIDATE", "DIRECT_SYNTH", "DELEGATED_WITH_GLUE", "DELEGATED_NO_GLUE",
   "UNKNOWN_OTHER"}

\* names joined with resource_summary; parked: provider_guess is a parking
\* provider.  `by` is auxiliary: the rule set the row was classified under, None
\* if that was another row or one that was malformed.
Row ==
  [res : Resources, expired : BOOLEAN, parked : BOOLEAN, class : Classes,
   by : RuleSets \cup {None}]

\* A TLSA observation in dns_evidence; ids grow with the imports.
EvidenceRow == [id : Nat, name : Names, from : Vantages, at : 1..MaxTime, ok : BOOLEAN]

ASSUME DerivedAssumption ==
  /\ N \in Nat \ {0}
  /\ {MaxTime, MaxWrites} \subseteq Nat
  /\ Resources \subseteq Resource
  /\ Starts \subseteq [Names -> Resources \cup {None}]

\* None is none of the values it stands in for.
ASSUME NoneAssumption ==
  /\ None \notin Row /\ None \notin RuleSets
  /\ None \notin [at : 1..MaxTime, ok : BOOLEAN]
  /\ None \notin [Names -> Row \cup {None}]

VARIABLES
  \* the database
  rows,      \* per name its row, None without one
  ips,       \* resource_ip: pairs of name and address
  index,     \* resource_ip_index_version is current; the lookup index exists
  rules,     \* provider_rules_hash of the metadata
  evidence,  \* dns_evidence of type TLSA
  tlsa,      \* tlsa_evidence_summary: has_tlsa, None without a row
  tip,       \* last_indexed_tip_hash
  blocks,    \* block_history with changed_name_rollbacks
  \* a rebuild or a reclassification
  job,       \* what it will do next
  read,      \* the rows it has read
  jobRules,  \* the rules it works with
  \* auxiliary
  writes,    \* transactions and jobs begun
  stale      \* names whose addresses a rebuild replaced by those of an older row,
             \* or a bootstrap left out of the index it made current

dbVars == <<rows, ips, index, rules, evidence, tlsa, tip, blocks>>
jobVars == <<job, read, jobRules>>
derivedVars == <<dbVars, jobVars, writes, stale>>

Present == {n \in Names : rows[n] # None}
IpsOf(res) == res.glue \cup res.synth
Pairs(n, res) == {n} \X IpsOf(res)

-----------------------------------------------------------------------------
(* Classification *)

Class(res, expired, parked) ==
  IF expired THEN "EXPIRED"
  ELSE IF res.malformed THEN "MALFORMED_RESOURCE"
  ELSE IF res.ns = {} /\ IpsOf(res) = {} /\ ~res.ds
       THEN IF res.txt THEN "TXT_ONLY" ELSE "EMPTY"
  ELSE IF parked THEN "PARKED_OR_DEFAULT"
  ELSE IF res.ds /\ (res.ns # {} \/ res.glue # {}) THEN "DNSSEC_CANDIDATE"
  ELSE IF res.synth # {} THEN "DIRECT_SYNTH"
  ELSE IF res.ns = {} THEN "UNKNOWN_OTHER"
  ELSE IF res.glue # {} THEN "DELEGATED_WITH_GLUE" ELSE "DELEGATED_NO_GLUE"

Indexed(res, expired, r) ==
  [res |-> res, expired |-> expired, parked |-> r \in res.parked,
   class |-> Class(res, expired, r \in res.parked), by |-> r]

NewRow(r) == {Indexed(res, expired, r) : res \in Resources, expired \in BOOLEAN}

\* Mutant: the stored row is classified as if it had not expired.
ReclassifiedUnexpired(row, r) ==
  [row EXCEPT !.parked = r \in row.res.parked,
              !.class = Class([row.res EXCEPT !.malformed = FALSE], FALSE, r \in row.res.parked),
              !.by = IF row.res.malformed THEN None ELSE r]

\* A stored row does not say that its resource was malformed.
Reclassified(row, r) ==
  [row EXCEPT !.parked = r \in row.res.parked,
              !.class = Class([row.res EXCEPT !.malformed = FALSE], row.expired, r \in row.res.parked),
              !.by = IF row.res.malformed THEN None ELSE r]

-----------------------------------------------------------------------------
(* The index *)

\* Mutant: only the version is looked at.
VersionCurrent == index.version

\* resource_ip_index_is_current
IndexCurrent == index.version /\ index.lookup

Write == writes < MaxWrites /\ writes' = writes + 1

\* Upserted rows replace the addresses of their names; `left` are names whose
\* addresses the step leaves as they are in an index it makes current.
Upsert(new, left) ==
  LET changed == {n \in Names : new[n] # None}
  IN  /\ rows' = [n \in Names |-> IF n \in changed THEN new[n] ELSE rows[n]]
      /\ ips' = {p \in ips : p[1] \notin changed}
                  \cup UNION {Pairs(n, new[n].res) : n \in changed}
      /\ stale' = (stale \cup left) \ changed

\* A block changes a name: its row is kept for a rollback, then replaced.
IndexBlock(n, r) ==
  /\ Write
  /\ \E row \in NewRow(r) : Upsert([m \in Names |-> IF m = n THEN row ELSE None], {})
  /\ rules' = r
  /\ tip' = writes'
  /\ blocks' = Append(blocks, [hash |-> writes', name |-> n, before |-> rows[n]])
  /\ UNCHANGED <<index, evidence, tlsa, jobVars>>

\* A bootstrap over the database: names of it come again, one with another state
\* or for the first time.  The history and the other names are left alone.
Bootstrap(n, among, r) ==
  /\ Write
  /\ \E row \in NewRow(r) :
       Upsert([m \in Names |-> IF m = n THEN row
                               ELSE IF m \in among
                               THEN Indexed(rows[m].res, rows[m].expired, r) ELSE None],
              IF IndexCurrent THEN {} ELSE Present)
  /\ rules' = r
  /\ index' = [version |-> TRUE, lookup |-> TRUE]
  /\ tip' = writes'
  /\ UNCHANGED <<blocks, evidence, tlsa, jobVars>>

\* ON DELETE CASCADE: with a name go its addresses, evidence and summary.
Delete(n) ==
  /\ rows' = [rows EXCEPT ![n] = None]
  /\ ips' = {p \in ips : p[1] # n}
  /\ evidence' = {e \in evidence : e.name # n}
  /\ tlsa' = [tlsa EXCEPT ![n] = None]
  /\ stale' = stale \ {n}

\* The last block was disconnected: its name goes back to the row kept.
Rollback ==
  /\ Write
  /\ blocks # <<>>
  /\ LET b == blocks[Len(blocks)]
     IN  IF b.before = None THEN Delete(b.name)
         ELSE /\ Upsert([m \in Names |-> IF m = b.name THEN b.before ELSE None], {})
              /\ UNCHANGED <<evidence, tlsa>>
  /\ blocks' = SubSeq(blocks, 1, Len(blocks) - 1)
  /\ tip' = IF Len(blocks) = 1 THEN None ELSE blocks[Len(blocks) - 1].hash
  /\ UNCHANGED <<index, rules, jobVars>>

-----------------------------------------------------------------------------
(* rebuild-resource-ip *)

\* The tables are dropped and created outside of any transaction.
DropIndex ==
  /\ job = "idle"
  /\ Write
  /\ job' = "dropped"
  /\ ips' = {}
  /\ index' = [index EXCEPT !.lookup = FALSE]
  /\ UNCHANGED <<rows, rules, evidence, tlsa, tip, blocks, read, jobRules, stale>>

ScanResources ==
  /\ job = "dropped"
  /\ job' = "rebuild"
  /\ read' = rows
  /\ UNCHANGED <<dbVars, jobRules, writes, stale>>

\* The rows read go into the table in one transaction.  It fails on an address
\* that another transaction put there, or one of a name that is gone.
InsertIps ==
  LET found == UNION {Pairs(n, read[n].res) : n \in {m \in Names : read[m] # None}}
      clash == found \cap ips # {} \/ \E p \in found : rows[p[1]] = None
  IN  /\ job = "rebuild"
      /\ IF clash THEN UNCHANGED <<ips, index, stale>>
         ELSE /\ ips' = ips \cup found
              /\ index' = [version |-> TRUE, lookup |-> TRUE]
              /\ stale' = {n \in Present : read[n] # None /\ rows[n].res # read[n].res}
      /\ job' = "idle"
      /\ read' = None
      /\ UNCHANGED <<rows, rules, evidence, tlsa, tip, blocks, jobRules, writes>>

-----------------------------------------------------------------------------
(* reclassify *)

ScanNames(r) ==
  /\ job = "idle"
  /\ Write
  /\ job' = "reclassify"
  /\ jobRules' = r
  /\ read' = rows
  /\ UNCHANGED <<dbVars, stale>>

\* Only rows whose labels differ from those read are written.
Relabelled(n) ==
  LET to == Reclassified(read[n], jobRules)
      differs == to.parked # read[n].parked \/ to.class # read[n].class
  IN  IF rows[n] = read[n] THEN to
      ELSE IF read[n] # None /\ differs
           THEN [rows[n] EXCEPT !.parked = to.parked, !.class = to.class, !.by = None]
           ELSE rows[n]

UpdateNames ==
  /\ job = "reclassify"
  /\ rows' = [n \in Names |-> IF read[n] = None \/ rows[n] = None THEN rows[n] ELSE Relabelled(n)]
  /\ rules' = jobRules
  /\ job' = "idle"
  /\ read' = None
  /\ jobRules' = None
  /\ UNCHANGED <<ips, index, evidence, tlsa, tip, blocks, writes, stale>>

\* The process of a job dies between two transactions.
KillJob ==
  /\ job # "idle"
  /\ job' = "idle"
  /\ read' = None
  /\ jobRules' = None
  /\ UNCHANGED <<dbVars, writes, stale>>

-----------------------------------------------------------------------------
(* import-dns-evidence *)

\* Mutant: the observation imported last counts.
LaterById(e, f) == e.id > f.id

\* _observation_order
Later(e, f) == e.at > f.at \/ (e.at = f.at /\ e.id > f.id)

\* Of one name and vantage point the observation that counts, as a set.
LatestOf(ev, n, v) ==
  LET seen == {e \in ev : e.name = n /\ e.from = v}
  IN  {e \in seen : \A f \in seen \ {e} : Later(e, f)}

\* summarize_tlsa_evidence
Summary(ev, n) ==
  IF \A e \in ev : e.name # n THEN None
  ELSE \E v \in Vantages : \E e \in LatestOf(ev, n, v) : e.ok

\* One observation of a known name; one of an unknown name fails the import.
ImportEvidence(n, v) ==
  /\ n \in Present
  /\ Write
  /\ \E at \in 1..MaxTime, ok \in BOOLEAN :
       evidence' = evidence \cup {[id |-> writes', name |-> n, from |-> v, at |-> at, ok |-> ok]}
  /\ tlsa' = [tlsa EXCEPT ![n] = Summary(evidence', n)]
  /\ UNCHANGED <<rows, ips, index, rules, tip, blocks, jobVars, stale>>

-----------------------------------------------------------------------------

\* After a first bootstrap, by a version of the program that kept the IP index or by an older one.
DerivedInit ==
  /\ \E start \in Starts, r \in RuleSets, current \in BOOLEAN :
       /\ rows = [n \in Names |-> IF start[n] = None THEN None ELSE Indexed(start[n], FALSE, r)]
       /\ ips = IF current THEN UNION {Pairs(n, start[n]) : n \in {m \in Names : start[m] # None}}
                ELSE {}
       /\ index = [version |-> current, lookup |-> current]
       /\ rules = r
  /\ evidence = {}
  /\ tlsa = [n \in Names |-> None]
  /\ tip = 0
  /\ blocks = <<>>
  /\ job = "idle" /\ read = None /\ jobRules = None
  /\ writes = 0
  /\ stale = {}

JobStep == DropIndex \/ ScanResources \/ InsertIps \/ UpdateNames \/ KillJob
             \/ \E r \in RuleSets : ScanNames(r)

\* A bootstrap of all names, or of one (--limit).
IndexStep ==
  \E n \in Names, r \in RuleSets :
    IndexBlock(n, r) \/ \E among \in {{}, Present} : Bootstrap(n, among, r)

ImportStep == \E n \in Names, v \in Vantages : ImportEvidence(n, v)

DerivedNext == IndexStep \/ Rollback \/ JobStep \/ ImportStep

DerivedSpec == DerivedInit /\ [][DerivedNext]_derivedVars

-----------------------------------------------------------------------------
(* Properties *)

DerivedTypeOK ==
  /\ rows \in [Names -> Row \cup {None}]
  /\ ips \subseteq Names \X Ips
  /\ index \in [version : BOOLEAN, lookup : BOOLEAN]
  /\ rules \in RuleSets
  /\ evidence \subseteq EvidenceRow
  /\ tlsa \in [Names -> BOOLEAN \cup {None}]
  /\ tip \in Nat \cup {None}
  /\ blocks \in Seq([hash : Nat, name : Names, before : Row \cup {None}])
  /\ job \in {"idle", "dropped", "rebuild", "reclassify"}
  /\ read \in [Names -> Row \cup {None}] \cup {None}
  /\ jobRules \in RuleSets \cup {None}
  /\ job \in {"rebuild", "reclassify"} => read # None
  /\ job = "reclassify" => jobRules # None
  /\ writes \in Nat
  /\ stale \subseteq Names

\* Wherever a rebuild was cut and whatever was indexed, rolled back or deleted
\* since, an index that export accepts as current holds exactly the addresses of
\* the stored resources (docs/INDEXING_AUDIT.md: indexing keeps it in sync), but
\* for names indexed between the reading and the writing of a rebuild, and names
\* left out of a bootstrap that found the index not current.
IpIndexInSync ==
  IndexCurrent =>
    \A n \in Present \ stale, ip \in Ips : <<n, ip>> \in ips <=> ip \in IpsOf(rows[n].res)

\* Every stored label is the one of the stored row under the rules it was last
\* classified with, through updates, rollbacks and reclassifications in any order
\* (docs/ARCHITECTURE.md: reclassify applies rules without extracting again), but
\* for rows indexed while a reclassification ran and for malformed resources.
LabelsMatch ==
  \A n \in Present :
    rows[n].by # None =>
      /\ rows[n].parked <=> rows[n].by \in rows[n].res.parked
      /\ rows[n].class = Class(rows[n].res, rows[n].expired, rows[n].parked)

\* The observation that counts, as the abstract register holds it.
Counting(ev, n, v) ==
  IF LatestOf(ev, n, v) = {} THEN None
  ELSE LET e == CHOOSE e \in LatestOf(ev, n, v) : TRUE
       IN  [at |-> e.at, ok |-> e.ok]

Latest ==
  INSTANCE LatestTlsa WITH
    Times <- 1..MaxTime,
    latest <- [n \in Names |-> [v \in Vantages |-> Counting(evidence, n, v)]],
    has <- tlsa

\* The summary of TLSA evidence is the register of the latest observations,
\* whatever the order of the imports and whichever names a rollback removes.
TlsaIsLatest == Latest!LatestSpec
=============================================================================
