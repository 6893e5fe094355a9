------------------------- MODULE DerivedRowsProofs -------------------------
(***************************************************************************)
(* Proofs about DerivedRows, for any names, resources, rule sets and any   *)
(* number of transactions: types, the IP index, the labels, and that the   *)
(* TLSA summary implements the register of LatestTlsa.                     *)
(***************************************************************************)
EXTENDS DerivedRows, TLAPS

RowOrNone == Row \cup {None}
NameTable == [Names -> RowOrNone]

-----------------------------------------------------------------------------
(* Types *)

\* Every resource falls into one of the classes.
LEMMA ClassType ==
  ASSUME NEW res, NEW expired, NEW parked
  PROVE  Class(res, expired, parked) \in Classes
BY DEF Class, Classes

\* The addresses of a resource are known ones.
LEMMA ResourceIps ==
  ASSUME NEW res \in Resources
  PROVE  res \in Resource /\ IpsOf(res) \subseteq Ips
BY DerivedAssumption DEF Resource, IpsOf

\* The indexer's row of a resource is a row, under the rules it was given.
LEMMA IndexedType ==
  ASSUME NEW res \in Resources, NEW expired \in BOOLEAN, NEW r \in RuleSets
  PROVE  /\ Indexed(res, expired, r) \in Row
         /\ Indexed(res, expired, r).res = res
         /\ Indexed(res, expired, r).by = r
<1>1. Class(res, expired, r \in res.parked) \in Classes
  BY ClassType
<1>2. (r \in res.parked) \in BOOLEAN
  OBVIOUS
<1> QED BY <1>1, <1>2 DEF Indexed, Row

\* A reclassified row is a row of the same resource.
LEMMA ReclassifiedType ==
  ASSUME NEW row \in Row, NEW r \in RuleSets
  PROVE  /\ Reclassified(row, r) \in Row
         /\ Reclassified(row, r).res = row.res
<1>1. Class([row.res EXCEPT !.malformed = FALSE], row.expired, r \in row.res.parked) \in Classes
  BY ClassType
<1>2. (r \in row.res.parked) \in BOOLEAN
  OBVIOUS
<1>3. (IF row.res.malformed THEN None ELSE r) \in RuleSets \cup {None}
  OBVIOUS
<1> QED BY <1>1, <1>2, <1>3 DEF Reclassified, Row

\* What an upsert leaves behind, whichever rows it writes.
LEMMA UpsertType ==
  ASSUME DerivedTypeOK, NEW new \in NameTable, NEW left \in SUBSET Names, Upsert(new, left)
  PROVE  rows' \in NameTable /\ ips' \subseteq Names \X Ips /\ stale' \subseteq Names
<1>1. rows' \in NameTable
  BY DEF Upsert, DerivedTypeOK, NameTable, RowOrNone
<1>2. ASSUME NEW n \in Names, new[n] # None
      PROVE  Pairs(n, new[n].res) \subseteq Names \X Ips
  <2>1. new[n] \in Row
    BY <1>2 DEF NameTable, RowOrNone
  <2>2. IpsOf(new[n].res) \subseteq Ips
    BY <2>1, ResourceIps DEF Row
  <2> QED BY <2>2 DEF Pairs
<1>3. ips' \subseteq Names \X Ips
  BY <1>2 DEF Upsert, DerivedTypeOK
<1> QED BY <1>1, <1>3 DEF Upsert, DerivedTypeOK

\* The tables handed to Upsert.
LEMMA OneRow ==
  ASSUME NEW n \in Names, NEW row \in RowOrNone
  PROVE  [m \in Names |-> IF m = n THEN row ELSE None] \in NameTable
BY DEF NameTable, RowOrNone

\* What a bootstrap writes of its block, and of the names it relabels, is a table.
LEMMA AllRows ==
  ASSUME DerivedTypeOK, NEW n \in Names, NEW among \in SUBSET Present,
         NEW row \in Row, NEW r \in RuleSets
  PROVE  [m \in Names |-> IF m = n THEN row
                          ELSE IF m \in among
                          THEN Indexed(rows[m].res, rows[m].expired, r) ELSE None] \in NameTable
<1>1. ASSUME NEW m \in Present
      PROVE  Indexed(rows[m].res, rows[m].expired, r) \in Row
  <2>1. rows[m] \in Row
    BY DEF Present, DerivedTypeOK
  <2> QED BY <2>1, IndexedType DEF Row
<1> QED BY <1>1 DEF NameTable, RowOrNone

\* The same of every row the indexer may write.
LEMMA NewRowType ==
  ASSUME NEW r \in RuleSets, NEW row \in NewRow(r)
  PROVE  row \in Row /\ row.by = r
BY IndexedType DEF NewRow

\* Every write of the database is counted.
LEMMA WriteType ==
  ASSUME DerivedTypeOK, Write
  PROVE  writes' \in Nat /\ writes' = writes + 1
BY DEF DerivedTypeOK, Write

\* The tables of a database that starts are typed.
LEMMA InitType == DerivedInit => DerivedTypeOK
<1> SUFFICES ASSUME DerivedInit PROVE DerivedTypeOK
  OBVIOUS
<1>1. PICK start \in Starts, r \in RuleSets, current \in BOOLEAN :
        /\ rows = [n \in Names |-> IF start[n] = None THEN None ELSE Indexed(start[n], FALSE, r)]
        /\ ips = IF current THEN UNION {Pairs(n, start[n]) : n \in {m \in Names : start[m] # None}}
                 ELSE {}
        /\ index = [version |-> current, lookup |-> current]
        /\ rules = r
  BY DEF DerivedInit
<1>2. \A n \in Names : start[n] # None => start[n] \in Resources
  BY DerivedAssumption
<1>3. rows \in NameTable
  BY <1>1, <1>2, IndexedType DEF NameTable, RowOrNone
<1>4. \A n \in Names : start[n] # None => Pairs(n, start[n]) \subseteq Names \X Ips
  BY <1>2, ResourceIps DEF Pairs
<1>5. ips \subseteq Names \X Ips
  BY <1>1, <1>4
<1>6. rules \in RuleSets /\ index \in [version : BOOLEAN, lookup : BOOLEAN]
  BY <1>1
<1>7. evidence \subseteq EvidenceRow /\ stale \subseteq Names /\ tlsa \in [Names -> BOOLEAN \cup {None}]
  BY DEF DerivedInit
<1>8. blocks \in Seq([hash : Nat, name : Names, before : RowOrNone])
  BY DEF DerivedInit
<1>9. /\ tip \in Nat \cup {None} /\ writes \in Nat
      /\ job = "idle"
      /\ read \in NameTable \cup {None} /\ jobRules \in RuleSets \cup {None}
  BY DEF DerivedInit
<1> QED BY <1>3, <1>5, <1>6, <1>7, <1>8, <1>9 DEF DerivedTypeOK, NameTable, RowOrNone

\* A block of the incremental indexer keeps the types,
LEMMA IndexBlockType ==
  ASSUME DerivedTypeOK, NEW n \in Names, NEW r \in RuleSets, IndexBlock(n, r)
  PROVE  DerivedTypeOK'
<1>1. PICK row \in NewRow(r) : Upsert([m \in Names |-> IF m = n THEN row ELSE None], {})
  BY DEF IndexBlock
<1>2. rows' \in NameTable /\ ips' \subseteq Names \X Ips /\ stale' \subseteq Names
  BY <1>1, NewRowType, OneRow, UpsertType DEF RowOrNone
<1>3. writes' \in Nat
  BY WriteType DEF IndexBlock
<1>4. blocks' \in Seq([hash : Nat, name : Names, before : RowOrNone])
  BY <1>3 DEF IndexBlock, DerivedTypeOK, RowOrNone
<1>5. rules' \in RuleSets /\ tip' \in Nat \cup {None}
  BY <1>3 DEF IndexBlock
<1> QED BY <1>2, <1>3, <1>4, <1>5 DEF IndexBlock, jobVars, DerivedTypeOK, NameTable, RowOrNone

\* and so does a bootstrap.
LEMMA BootstrapType ==
  ASSUME DerivedTypeOK, NEW n \in Names, NEW among \in SUBSET Present, NEW r \in RuleSets,
         Bootstrap(n, among, r)
  PROVE  DerivedTypeOK'
<1>1. PICK row \in NewRow(r) :
        Upsert([m \in Names |-> IF m = n THEN row
                                ELSE IF m \in among
                                THEN Indexed(rows[m].res, rows[m].expired, r) ELSE None],
               IF IndexCurrent THEN {} ELSE Present)
  BY DEF Bootstrap
<1>2. rows' \in NameTable /\ ips' \subseteq Names \X Ips /\ stale' \subseteq Names
  <2>1. (IF IndexCurrent THEN {} ELSE Present) \in SUBSET Names
    BY DEF Present
  <2>2. ASSUME NEW new \in Row
        PROVE  [m \in Names |-> IF m = n THEN new
                                ELSE IF m \in among
                                THEN Indexed(rows[m].res, rows[m].expired, r) ELSE None] \in NameTable
    BY <2>2, AllRows
  <2> QED BY <1>1, <2>1, <2>2, NewRowType, UpsertType
<1>3. writes' \in Nat
  BY WriteType DEF Bootstrap
<1>4. rules' \in RuleSets /\ tip' \in Nat \cup {None}
      /\ index' \in [version : BOOLEAN, lookup : BOOLEAN]
  BY <1>3 DEF Bootstrap
<1> QED BY <1>2, <1>3, <1>4 DEF Bootstrap, jobVars, DerivedTypeOK, NameTable, RowOrNone

\* The last stored block can be taken off.
LEMMA LastBlock ==
  ASSUME DerivedTypeOK, blocks # <<>>
  PROVE  /\ blocks[Len(blocks)] \in [hash : Nat, name : Names, before : RowOrNone]
         /\ SubSeq(blocks, 1, Len(blocks) - 1) \in Seq([hash : Nat, name : Names, before : RowOrNone])
         /\ Len(blocks) # 1 => blocks[Len(blocks) - 1].hash \in Nat
<1> DEFINE S == [hash : Nat, name : Names, before : RowOrNone]
<1>1. blocks \in Seq(S)
  BY DEF DerivedTypeOK, RowOrNone
<1> HIDE DEF S
<1>2. /\ blocks[Len(blocks)] \in S
      /\ SubSeq(blocks, 1, Len(blocks) - 1) \in Seq(S)
      /\ Len(blocks) # 1 => blocks[Len(blocks) - 1] \in S
  <2>1. Len(blocks) \in Nat \ {0}
    BY <1>1
  <2>2. \A i \in 1..Len(blocks) : blocks[i] \in S
    BY <1>1
  <2>3. SubSeq(blocks, 1, Len(blocks) - 1) \in Seq(S)
    BY <1>1, <2>1
  <2>4. Len(blocks) \in 1..Len(blocks) /\ (Len(blocks) # 1 => Len(blocks) - 1 \in 1..Len(blocks))
    BY <2>1
  <2> QED BY <2>2, <2>3, <2>4
<1> QED BY <1>2 DEF S

\* Deleting a name keeps the types of every table it cascades to.
LEMMA DeleteType ==
  ASSUME DerivedTypeOK, NEW n \in Names, Delete(n)
  PROVE  /\ rows' \in NameTable /\ ips' \subseteq Names \X Ips /\ stale' \subseteq Names
         /\ evidence' \subseteq EvidenceRow /\ tlsa' \in [Names -> BOOLEAN \cup {None}]
BY DEF Delete, DerivedTypeOK, NameTable, RowOrNone

\* A rollback keeps the types,
LEMMA RollbackType ==
  ASSUME DerivedTypeOK, Rollback
  PROVE  DerivedTypeOK'
<1> DEFINE b == blocks[Len(blocks)]
<1>1. b \in [hash : Nat, name : Names, before : RowOrNone]
  BY LastBlock DEF Rollback
<1>2. /\ rows' \in NameTable /\ ips' \subseteq Names \X Ips /\ stale' \subseteq Names
      /\ evidence' \subseteq EvidenceRow /\ tlsa' \in [Names -> BOOLEAN \cup {None}]
  <2>1. CASE b.before = None
    BY <1>1, <2>1, DeleteType DEF Rollback
  <2>2. CASE b.before # None
    <3>1. Upsert([m \in Names |-> IF m = b.name THEN b.before ELSE None], {})
      BY <2>2 DEF Rollback
    <3>2. evidence' = evidence /\ tlsa' = tlsa
      BY <2>2 DEF Rollback
    <3> QED BY <1>1, <3>1, <3>2, OneRow, UpsertType DEF DerivedTypeOK
  <2> QED BY <2>1, <2>2
<1>3. writes' \in Nat
  BY WriteType DEF Rollback
<1>4. /\ blocks' \in Seq([hash : Nat, name : Names, before : RowOrNone])
      /\ tip' \in Nat \cup {None}
  BY LastBlock DEF Rollback
<1> QED BY <1>2, <1>3, <1>4 DEF Rollback, jobVars, DerivedTypeOK, NameTable, RowOrNone

\* and so do the rebuild of the address index,
LEMMA InsertIpsType ==
  ASSUME DerivedTypeOK, InsertIps
  PROVE  DerivedTypeOK'
<1>1. read \in NameTable
  BY DEF InsertIps, DerivedTypeOK, NameTable, RowOrNone
<1>2. ASSUME NEW n \in Names, read[n] # None
      PROVE  Pairs(n, read[n].res) \subseteq Names \X Ips
  <2>1. read[n] \in Row
    BY <1>1, <1>2 DEF NameTable, RowOrNone
  <2> QED BY <2>1, ResourceIps DEF Row, Pairs
<1>3. UNION {Pairs(n, read[n].res) : n \in {m \in Names : read[m] # None}} \subseteq Names \X Ips
  BY <1>2
<1>4. ips' \subseteq Names \X Ips
  BY <1>3 DEF InsertIps, DerivedTypeOK
<1>5. index' \in [version : BOOLEAN, lookup : BOOLEAN] /\ stale' \subseteq Names
  <2>1. index' = index \/ index' = [version |-> TRUE, lookup |-> TRUE]
    BY DEF InsertIps
  <2>2. stale' = stale \/ stale' = {n \in Present : read[n] # None /\ rows[n].res # read[n].res}
    BY DEF InsertIps
  <2>3. index' \in [version : BOOLEAN, lookup : BOOLEAN]
    <3>1. [version |-> TRUE, lookup |-> TRUE] \in [version : BOOLEAN, lookup : BOOLEAN]
      OBVIOUS
    <3> QED BY <2>1, <3>1 DEF DerivedTypeOK
  <2>4. stale' \subseteq Names
    BY <2>2 DEF DerivedTypeOK, Present
  <2> QED BY <2>3, <2>4
<1> QED BY <1>4, <1>5 DEF InsertIps, DerivedTypeOK

\* A reclassification keeps every resource.
LEMMA RelabelledType ==
  ASSUME DerivedTypeOK, job = "reclassify", NEW n \in Names, rows[n] # None, read[n] # None
  PROVE  /\ Relabelled(n) \in Row
         /\ Relabelled(n).res = rows[n].res
<1>1. rows[n] \in Row /\ read[n] \in Row /\ jobRules \in RuleSets
  BY DEF DerivedTypeOK
<1> DEFINE to == Reclassified(read[n], jobRules)
<1>2. to \in Row /\ to.res = read[n].res
  BY <1>1, ReclassifiedType
<1> HIDE DEF to
<1>3. [rows[n] EXCEPT !.parked = to.parked, !.class = to.class, !.by = None] \in Row
  BY <1>1, <1>2 DEF Row
<1>4. [rows[n] EXCEPT !.parked = to.parked, !.class = to.class, !.by = None].res = rows[n].res
  BY <1>1 DEF Row
<1>5. \/ Relabelled(n) = rows[n]
      \/ Relabelled(n) = to /\ rows[n] = read[n]
      \/ Relabelled(n) = [rows[n] EXCEPT !.parked = to.parked, !.class = to.class, !.by = None]
  BY DEF Relabelled, to
<1> QED BY <1>1, <1>2, <1>3, <1>4, <1>5

\* the reclassification,
LEMMA UpdateNamesType ==
  ASSUME DerivedTypeOK, UpdateNames
  PROVE  DerivedTypeOK'
<1>1. rows' \in NameTable
  BY RelabelledType DEF UpdateNames, DerivedTypeOK, NameTable, RowOrNone
<1>2. rules' \in RuleSets
  BY DEF UpdateNames, DerivedTypeOK
<1> QED BY <1>1, <1>2 DEF UpdateNames, DerivedTypeOK, NameTable, RowOrNone

\* and the import of DNS evidence.
LEMMA ImportType ==
  ASSUME DerivedTypeOK, NEW n \in Names, NEW v \in Vantages, ImportEvidence(n, v)
  PROVE  DerivedTypeOK'
<1>1. writes' \in Nat
  BY WriteType DEF ImportEvidence
<1>2. evidence' \subseteq EvidenceRow
  BY <1>1 DEF ImportEvidence, EvidenceRow, DerivedTypeOK
<1>3. Summary(evidence', n) \in BOOLEAN \cup {None}
  BY DEF Summary
<1>4. tlsa' \in [Names -> BOOLEAN \cup {None}]
  BY <1>3 DEF ImportEvidence, DerivedTypeOK
<1> QED BY <1>1, <1>2, <1>4 DEF ImportEvidence, jobVars, DerivedTypeOK

\* Steps that leave the tables of names alone.
LEMMA JobTypes ==
  ASSUME DerivedTypeOK,
         \/ DropIndex \/ ScanResources \/ KillJob \/ UNCHANGED derivedVars
         \/ \E r \in RuleSets : ScanNames(r)
  PROVE  DerivedTypeOK'
<1>1. CASE DropIndex
  BY <1>1, WriteType DEF DropIndex, DerivedTypeOK
<1>2. CASE ScanResources
  BY <1>2, NoneAssumption DEF ScanResources, dbVars, DerivedTypeOK
<1>3. CASE KillJob
  BY <1>3 DEF KillJob, dbVars, DerivedTypeOK
<1>4. ASSUME NEW r \in RuleSets, ScanNames(r)
      PROVE  DerivedTypeOK'
  BY <1>4, WriteType, NoneAssumption DEF ScanNames, dbVars, DerivedTypeOK
<1>5. CASE UNCHANGED derivedVars
  BY <1>5 DEF derivedVars, dbVars, jobVars, DerivedTypeOK
<1> QED BY <1>1, <1>2, <1>3, <1>4, <1>5

\* Every step of every process keeps the types.
LEMMA StepType == DerivedTypeOK /\ [DerivedNext]_derivedVars => DerivedTypeOK'
BY IndexBlockType, BootstrapType, RollbackType, InsertIpsType, UpdateNamesType, ImportType, JobTypes
   DEF DerivedNext, IndexStep, JobStep, ImportStep

\* The tables keep their types, in every interleaving of the processes.
THEOREM TablesTyped == DerivedSpec => []DerivedTypeOK
BY InitType, StepType, PTL DEF DerivedSpec

-----------------------------------------------------------------------------
(* The IP index *)

Exact(n) == \A ip \in Ips : <<n, ip>> \in ips <=> ip \in IpsOf(rows[n].res)
Empty(n) == \A ip \in Ips : <<n, ip>> \notin ips

\* Between the drop and the insertion of a rebuild a name has its addresses, if
\* it was indexed since, or none; and then it still has the resource read.
Refilling ==
  /\ job \in {"dropped", "rebuild"} => \A n \in Present : Exact(n) \/ Empty(n)
  /\ job = "rebuild" =>
       \A n \in Present : Exact(n) \/ (Empty(n) /\ read[n] # None /\ rows[n].res = read[n].res)

IpInv == IpIndexInSync /\ Refilling

\* An upsert makes the names it writes exact and keeps the others.
LEMMA UpsertIps ==
  ASSUME DerivedTypeOK, NEW new \in NameTable, NEW left \in SUBSET Names, Upsert(new, left),
         NEW n \in Names
  PROVE  /\ new[n] # None => Exact(n)' /\ n \notin stale'
         /\ new[n] = None => /\ rows'[n] = rows[n] /\ (n \in stale' <=> n \in stale \cup left)
                            /\ \A ip \in Ips : <<n, ip>> \in ips' <=> <<n, ip>> \in ips
<1> DEFINE changed == {m \in Names : new[m] # None}
           fresh == UNION {Pairs(m, new[m].res) : m \in changed}
<1>1. /\ rows'[n] = IF n \in changed THEN new[n] ELSE rows[n]
      /\ ips' = {p \in ips : p[1] \notin changed} \cup fresh
      /\ stale' = (stale \cup left) \ changed
  BY DEF Upsert
<1>2. ASSUME NEW ip \in Ips
      PROVE  <<n, ip>> \in fresh <=> (n \in changed /\ ip \in IpsOf(new[n].res))
  BY DEF Pairs
<1>3. ASSUME NEW ip \in Ips
      PROVE  <<n, ip>> \in ips' <=>
               IF n \in changed THEN ip \in IpsOf(new[n].res) ELSE <<n, ip>> \in ips
  BY <1>1, <1>2
<1> QED BY <1>1, <1>3 DEF Exact

\* A step that only upserts keeps the invariant, if what it leaves of the index
\* is no more current than before, or if it counts the other names as left.
LEMMA UpsertInv ==
  ASSUME DerivedTypeOK, IpInv, NEW new \in NameTable, NEW left \in SUBSET Names,
         Upsert(new, left), UNCHANGED <<job, read>>,
         index' = index \/ IndexCurrent \/ left = Present
  PROVE  IpInv'
<1>1. ASSUME NEW n \in Present'
      PROVE  n \in Names /\ (new[n] = None => n \in Present)
  BY UpsertIps DEF Present
<1>2. ASSUME IndexCurrent', NEW n \in Present', n \notin stale'
      PROVE  Exact(n)'
  <2>1. CASE new[n] # None
    BY <1>1, <2>1, UpsertIps
  <2>2. CASE new[n] = None
    <3>1. n \in Names /\ n \in Present /\ n \notin stale
      BY <1>1, <1>2, <2>2, UpsertIps
    <3>2. n \notin left /\ left # Present
      BY <1>1, <1>2, <2>2, <3>1, UpsertIps
    <3>3. IndexCurrent
      BY <1>2, <3>2 DEF IndexCurrent
    <3>4. Exact(n)
      BY <3>1, <3>3 DEF IpInv, IpIndexInSync, Exact
    <3> QED BY <2>2, <3>1, <3>4, UpsertIps DEF Exact
  <2> QED BY <2>1, <2>2
<1>3. ASSUME job \in {"dropped", "rebuild"}, NEW n \in Present'
      PROVE  Exact(n)' \/ Empty(n)'
  BY <1>1, <1>3, UpsertIps DEF IpInv, Refilling, Exact, Empty
<1>4. ASSUME job = "rebuild", NEW n \in Present'
      PROVE  Exact(n)' \/ (Empty(n)' /\ read[n] # None /\ rows'[n].res = read[n].res)
  BY <1>1, <1>4, UpsertIps DEF IpInv, Refilling, Exact, Empty
<1> QED BY <1>2, <1>3, <1>4 DEF IpInv, IpIndexInSync, Refilling, Exact

\* A deleted name leaves the address index of the others as it was.
LEMMA DeleteInv ==
  ASSUME DerivedTypeOK, IpInv, NEW n \in Names, Delete(n), UNCHANGED <<job, read, index>>
  PROVE  IpInv'
<1>1. ASSUME NEW m \in Present'
      PROVE  /\ m \in Present /\ rows'[m] = rows[m] /\ (m \in stale' <=> m \in stale)
             /\ \A ip \in Ips : <<m, ip>> \in ips' <=> <<m, ip>> \in ips
  BY DEF Delete, Present, DerivedTypeOK
<1> QED BY <1>1 DEF IpInv, IpIndexInSync, Refilling, Exact, Empty, IndexCurrent

\* The rebuild of the address index restores it, or fails as a whole.
LEMMA InsertIpsInv ==
  ASSUME DerivedTypeOK, IpInv, InsertIps
  PROVE  IpInv'
<1> DEFINE found == UNION {Pairs(n, read[n].res) : n \in {m \in Names : read[m] # None}}
           clash == found \cap ips # {} \/ \E p \in found : rows[p[1]] = None
<1>1. job = "rebuild" /\ job' = "idle" /\ rows' = rows
  BY DEF InsertIps
<1>2. CASE clash
  <2>1. ips' = ips /\ index' = index /\ stale' = stale
    BY <1>2 DEF InsertIps
  <2> QED BY <1>1, <2>1 DEF IpInv, IpIndexInSync, Refilling, Present, IndexCurrent
<1>3. CASE ~clash
  <2>1. /\ ips' = ips \cup found
        /\ stale' = {n \in Present : read[n] # None /\ rows[n].res # read[n].res}
    BY <1>3 DEF InsertIps
  <2>2. ASSUME NEW n \in Names, NEW ip \in Ips
        PROVE  <<n, ip>> \in found <=> (read[n] # None /\ ip \in IpsOf(read[n].res))
    BY DEF Pairs
  <2>3. ASSUME NEW n \in Present, n \notin stale', NEW ip \in Ips
        PROVE  <<n, ip>> \in ips' <=> ip \in IpsOf(rows[n].res)
    <3>1. n \in Names /\ (read[n] = None \/ rows[n].res = read[n].res)
      BY <2>1, <2>3 DEF Present
    <3>2. Exact(n) \/ (Empty(n) /\ read[n] # None /\ rows[n].res = read[n].res)
      BY <1>1 DEF IpInv, Refilling
    <3> QED BY <2>1, <2>2, <3>1, <3>2 DEF Exact, Empty
  <2> QED BY <1>1, <2>3 DEF IpInv, IpIndexInSync, Refilling, Present
<1> QED BY <1>2, <1>3

\* A database starts with an address index, or with none and the mark that says so.
LEMMA InitIps == DerivedInit => IpInv
<1> SUFFICES ASSUME DerivedInit PROVE IpInv
  OBVIOUS
<1>1. PICK start \in Starts, r \in RuleSets, current \in BOOLEAN :
        /\ rows = [n \in Names |-> IF start[n] = None THEN None ELSE Indexed(start[n], FALSE, r)]
        /\ ips = IF current THEN UNION {Pairs(n, start[n]) : n \in {m \in Names : start[m] # None}}
                 ELSE {}
        /\ index = [version |-> current, lookup |-> current]
  BY DEF DerivedInit
<1>2. ASSUME current, NEW n \in Present, NEW ip \in Ips
      PROVE  <<n, ip>> \in ips <=> ip \in IpsOf(rows[n].res)
  <2>1. n \in Names /\ start[n] # None
    BY <1>1 DEF Present
  <2>2. start[n] \in Resources
    BY <2>1, DerivedAssumption
  <2>3. rows[n].res = start[n]
    BY <1>1, <2>1, <2>2, IndexedType
  <2>4. <<n, ip>> \in UNION {Pairs(m, start[m]) : m \in {k \in Names : start[k] # None}}
          <=> ip \in IpsOf(start[n])
    BY <2>1 DEF Pairs
  <2> QED BY <1>1, <1>2, <2>3, <2>4
<1> QED BY <1>1, <1>2 DEF IpInv, IpIndexInSync, IndexCurrent, Refilling, DerivedInit

\* Every step keeps the address index true to the rows it covers.
LEMMA StepIps == DerivedTypeOK /\ IpInv /\ [DerivedNext]_derivedVars => IpInv'
<1> SUFFICES ASSUME DerivedTypeOK, IpInv, [DerivedNext]_derivedVars PROVE IpInv'
  OBVIOUS
<1>1. ASSUME NEW n \in Names, NEW r \in RuleSets, IndexBlock(n, r)
      PROVE  IpInv'
  <2>1. PICK row \in NewRow(r) : Upsert([m \in Names |-> IF m = n THEN row ELSE None], {})
    BY <1>1 DEF IndexBlock
  <2> QED BY <1>1, <2>1, NewRowType, OneRow, UpsertInv DEF IndexBlock, jobVars, RowOrNone
<1>2. ASSUME NEW n \in Names, NEW among \in SUBSET Present, NEW r \in RuleSets,
             Bootstrap(n, among, r)
      PROVE  IpInv'
  <2> DEFINE table(row) == [m \in Names |-> IF m = n THEN row
                              ELSE IF m \in among
                              THEN Indexed(rows[m].res, rows[m].expired, r) ELSE None]
  <2>1. PICK row \in NewRow(r) : Upsert(table(row), IF IndexCurrent THEN {} ELSE Present)
    BY <1>2 DEF Bootstrap
  <2>2. table(row) \in NameTable
    BY NewRowType, AllRows
  <2>3. Present \in SUBSET Names /\ (IF IndexCurrent THEN {} ELSE Present) \in SUBSET Names
    BY DEF Present
  <2> HIDE DEF table
  <2> QED BY <1>2, <2>1, <2>2, <2>3, UpsertInv DEF Bootstrap, jobVars
<1>3. CASE Rollback
  <2> DEFINE b == blocks[Len(blocks)]
  <2>1. b.name \in Names /\ b.before \in RowOrNone
    BY <1>3, LastBlock DEF Rollback
  <2>2. UNCHANGED <<job, read, index>>
    BY <1>3 DEF Rollback, jobVars
  <2>3. CASE b.before = None
    BY <1>3, <2>1, <2>2, <2>3, DeleteInv DEF Rollback
  <2>4. CASE b.before # None
    <3>1. Upsert([m \in Names |-> IF m = b.name THEN b.before ELSE None], {})
      BY <1>3, <2>4 DEF Rollback
    <3> QED BY <2>1, <2>2, <3>1, OneRow, UpsertInv
  <2> QED BY <2>3, <2>4
<1>4. CASE DropIndex
  <2>1. ips' = {} /\ rows' = rows /\ job' = "dropped" /\ index'.lookup = FALSE
    BY <1>4 DEF DropIndex, DerivedTypeOK
  <2> QED BY <2>1 DEF IpInv, IpIndexInSync, IndexCurrent, Refilling, Empty
<1>5. CASE ScanResources
  <2>1. rows' = rows /\ ips' = ips /\ index' = index /\ stale' = stale /\ read' = rows
    BY <1>5 DEF ScanResources, dbVars
  <2>2. \A n \in Present : Exact(n) \/ Empty(n)
    BY <1>5 DEF ScanResources, IpInv, Refilling
  <2> QED BY <2>1, <2>2 DEF IpInv, IpIndexInSync, IndexCurrent, Refilling, Present, Exact, Empty
<1>6. CASE InsertIps
  BY <1>6, InsertIpsInv
<1>7. CASE UpdateNames
  <2>1. /\ job' = "idle" /\ ips' = ips /\ index' = index /\ stale' = stale
    BY <1>7 DEF UpdateNames
  <2>2. ASSUME NEW n \in Present'
        PROVE  n \in Present /\ rows'[n].res = rows[n].res
    BY <1>7, RelabelledType DEF UpdateNames, Present
  <2> QED BY <2>1, <2>2 DEF IpInv, IpIndexInSync, IndexCurrent, Refilling, Exact
<1>8. CASE KillJob
  BY <1>8 DEF KillJob, dbVars, IpInv, IpIndexInSync, IndexCurrent, Refilling, Present
<1>9. ASSUME NEW r \in RuleSets, ScanNames(r)
      PROVE  IpInv'
  BY <1>9 DEF ScanNames, dbVars, IpInv, IpIndexInSync, IndexCurrent, Refilling, Present
<1>10. ASSUME NEW n \in Names, NEW v \in Vantages, ImportEvidence(n, v)
       PROVE  IpInv'
  BY <1>10 DEF ImportEvidence, jobVars, IpInv, IpIndexInSync, IndexCurrent, Refilling, Present, Exact, Empty
<1>11. CASE UNCHANGED derivedVars
  BY <1>11 DEF derivedVars, dbVars, jobVars, IpInv, IpIndexInSync, IndexCurrent, Refilling, Present, Exact, Empty
<1> QED BY <1>1, <1>2, <1>3, <1>4, <1>5, <1>6, <1>7, <1>8, <1>9, <1>10, <1>11
        DEF DerivedNext, IndexStep, JobStep, ImportStep

\* An IP index that the export accepts as current is exact for every name but
\* those a rebuild overtook, wherever the rebuild was interleaved or killed.
THEOREM IpIndexStaysInSync == DerivedSpec => []IpIndexInSync
<1>1. DerivedSpec => [](DerivedTypeOK /\ IpInv)
  BY InitType, StepType, InitIps, StepIps, PTL DEF DerivedSpec
<1> QED BY <1>1, PTL DEF IpInv

-----------------------------------------------------------------------------
(* The labels *)

\* The labels of a row are those of its resource under the rules it names.
Labelled(row) ==
  row # None /\ row.by # None =>
    /\ row.parked <=> row.by \in row.res.parked
    /\ row.class = Class(row.res, row.expired, row.parked)

\* Also of the rows kept for rollbacks.
LabelInv ==
  /\ \A n \in Names : Labelled(rows[n])
  /\ \A i \in DOMAIN blocks : Labelled(blocks[i].before)

\* A row of the indexer carries the labels its rules give,
LEMMA IndexedLabels ==
  ASSUME NEW res \in Resources, NEW expired \in BOOLEAN, NEW r \in RuleSets
  PROVE  Labelled(Indexed(res, expired, r))
BY DEF Labelled, Indexed

\* and so does a reclassified one.
LEMMA ReclassifiedLabels ==
  ASSUME NEW row \in Row, NEW r \in RuleSets
  PROVE  Labelled(Reclassified(row, r))
<1> DEFINE new == Reclassified(row, r)
           plain == [row.res EXCEPT !.malformed = FALSE]
<1>1. /\ new.res = row.res /\ new.expired = row.expired
      /\ new.parked = (r \in row.res.parked)
      /\ new.class = Class(plain, row.expired, r \in row.res.parked)
      /\ new.by = IF row.res.malformed THEN None ELSE r
  BY DEF Reclassified, Row
<1>2. CASE row.res.malformed
  BY <1>1, <1>2 DEF Labelled
<1>3. CASE ~row.res.malformed
  <2>1. plain = row.res
    <3>1. row.res \in Resource
      BY ResourceIps DEF Row
    <3> QED BY <1>3, <3>1 DEF Resource
  <2>2. new.by = r
    BY <1>1, <1>3
  <2>3. new.class = Class(row.res, row.expired, r \in row.res.parked)
    BY <1>1, <2>1
  <2> HIDE DEF plain, new
  <2>4. new.class = Class(new.res, new.expired, new.parked)
    BY <1>1, <2>3, Zenon
  <2>5. new.parked <=> new.by \in new.res.parked
    BY <1>1, <2>2
  <2>6. Labelled(new)
    BY <2>4, <2>5 DEF Labelled
  <2> QED BY <2>6 DEF new
<1> QED BY <1>2, <1>3

\* Writing labelled rows leaves every row labelled.
LEMMA UpsertLabels ==
  ASSUME LabelInv, NEW new \in NameTable, NEW left, Upsert(new, left), \A n \in Names : Labelled(new[n])
  PROVE  \A n \in Names : Labelled(rows'[n])
BY DEF LabelInv, Upsert

\* The same of every row the indexer may write.
LEMMA NewRowLabels ==
  ASSUME NEW r \in RuleSets, NEW row \in NewRow(r)
  PROVE  Labelled(row)
BY IndexedLabels DEF NewRow

\* The rows of a database that starts are labelled.
LEMMA InitLabels == DerivedInit => LabelInv
<1> SUFFICES ASSUME DerivedInit PROVE LabelInv
  OBVIOUS
<1>1. PICK start \in Starts, r \in RuleSets :
        rows = [n \in Names |-> IF start[n] = None THEN None ELSE Indexed(start[n], FALSE, r)]
  BY DEF DerivedInit
<1>2. ASSUME NEW n \in Names
      PROVE  Labelled(rows[n])
  <2>1. CASE start[n] = None
    BY <1>1, <2>1 DEF Labelled
  <2>2. CASE start[n] # None
    BY <1>1, <2>2, IndexedLabels, DerivedAssumption
  <2> QED BY <2>1, <2>2
<1>3. DOMAIN blocks = {}
  BY DEF DerivedInit
<1> QED BY <1>2, <1>3 DEF LabelInv

\* Every step leaves every row with the labels of the rules it was written under.
LEMMA StepLabels == DerivedTypeOK /\ LabelInv /\ [DerivedNext]_derivedVars => LabelInv'
<1> SUFFICES ASSUME DerivedTypeOK, LabelInv, [DerivedNext]_derivedVars PROVE LabelInv'
  OBVIOUS
<1> USE DEF RowOrNone
<1>1. ASSUME NEW n \in Names, NEW r \in RuleSets, IndexBlock(n, r)
      PROVE  LabelInv'
  <2> DEFINE table(row) == [m \in Names |-> IF m = n THEN row ELSE None]
             entry == [hash |-> writes', name |-> n, before |-> rows[n]]
  <2>1. PICK row \in NewRow(r) : Upsert(table(row), {})
    BY <1>1 DEF IndexBlock
  <2>2. table(row) \in NameTable /\ \A m \in Names : Labelled(table(row)[m])
    BY NewRowType, NewRowLabels, OneRow DEF Labelled
  <2> HIDE DEF table
  <2>3. \A m \in Names : Labelled(rows'[m])
    BY <2>1, <2>2, UpsertLabels
  <2>4. blocks' = Append(blocks, entry) /\ Labelled(entry.before)
    BY <1>1 DEF IndexBlock, LabelInv
  <2>5. ASSUME NEW i \in DOMAIN blocks'
        PROVE  Labelled(blocks'[i].before)
    <3>1. blocks \in Seq([hash : Nat, name : Names, before : RowOrNone])
      BY DEF DerivedTypeOK
    <3> HIDE DEF entry
    <3>2. blocks'[i] = entry \/ (i \in DOMAIN blocks /\ blocks'[i] = blocks[i])
      BY <2>4, <3>1
    <3> QED BY <2>4, <3>2 DEF LabelInv
  <2> QED BY <2>3, <2>5 DEF LabelInv
<1>2. ASSUME NEW n \in Names, NEW among \in SUBSET Present, NEW r \in RuleSets,
             Bootstrap(n, among, r)
      PROVE  LabelInv'
  <2> DEFINE table(row) == [m \in Names |-> IF m = n THEN row
                              ELSE IF m \in among
                              THEN Indexed(rows[m].res, rows[m].expired, r) ELSE None]
  <2>1. PICK row \in NewRow(r) : Upsert(table(row), IF IndexCurrent THEN {} ELSE Present)
    BY <1>2 DEF Bootstrap
  <2>2. table(row) \in NameTable
    BY NewRowType, AllRows
  <2>3. ASSUME NEW m \in Present
        PROVE  Labelled(Indexed(rows[m].res, rows[m].expired, r))
    <3>1. rows[m] \in Row
      BY DEF Present, DerivedTypeOK
    <3> QED BY <3>1, IndexedLabels DEF Row
  <2>4. \A m \in Names : Labelled(table(row)[m])
    BY <2>3, NewRowLabels DEF Labelled
  <2> HIDE DEF table
  <2> QED BY <1>2, <2>1, <2>2, <2>4, UpsertLabels DEF Bootstrap, LabelInv
<1>3. CASE Rollback
  <2> DEFINE b == blocks[Len(blocks)]
  <2>1. /\ b.name \in Names /\ b.before \in RowOrNone
        /\ blocks # <<>> /\ blocks \in Seq([hash : Nat, name : Names, before : RowOrNone])
    BY <1>3, LastBlock DEF Rollback, DerivedTypeOK
  <2>2. Len(blocks) \in DOMAIN blocks /\ Len(blocks) \in Nat
    BY <2>1
  <2>3. \A n \in Names : Labelled(rows'[n])
    <3>1. CASE b.before = None
      <4>1. rows' = [rows EXCEPT ![b.name] = None]
        BY <1>3, <3>1 DEF Rollback, Delete
      <4> QED BY <4>1 DEF LabelInv, Labelled, DerivedTypeOK
    <3>2. CASE b.before # None
      <4>1. Upsert([m \in Names |-> IF m = b.name THEN b.before ELSE None], {})
        BY <1>3, <3>2 DEF Rollback
      <4>2. Labelled(b.before) /\ Labelled(None)
        BY <2>2 DEF LabelInv, Labelled
      <4> HIDE DEF b
      <4> QED BY <2>1, <4>1, <4>2, OneRow, UpsertLabels
    <3> QED BY <3>1, <3>2
  <2>4. ASSUME NEW i \in DOMAIN blocks'
        PROVE  i \in DOMAIN blocks /\ blocks'[i] = blocks[i]
    <3>1. blocks' = SubSeq(blocks, 1, Len(blocks) - 1)
      BY <1>3 DEF Rollback
    <3> QED BY <2>1, <2>2, <3>1
  <2> QED BY <2>3, <2>4 DEF LabelInv
<1>4. CASE UpdateNames
  <2>1. ASSUME NEW n \in Names
        PROVE  Labelled(rows'[n])
    <3>1. CASE read[n] = None \/ rows[n] = None
      BY <1>4, <3>1 DEF UpdateNames, LabelInv
    <3>2. CASE read[n] # None /\ rows[n] # None
      <4> DEFINE to == Reclassified(read[n], jobRules)
                 torn == [rows[n] EXCEPT !.parked = to.parked, !.class = to.class, !.by = None]
      <4>1. rows[n] \in Row /\ read[n] \in Row /\ jobRules \in RuleSets
        BY <1>4, <3>2 DEF UpdateNames, DerivedTypeOK
      <4>2. Labelled(to)
        BY <4>1, ReclassifiedLabels
      <4>3. torn.by = None
        BY <4>1 DEF Row
      <4>4. rows'[n] = Relabelled(n)
        BY <1>4, <3>2 DEF UpdateNames
      <4>5. Relabelled(n) = rows[n] \/ Relabelled(n) = to \/ Relabelled(n) = torn
        BY DEF Relabelled
      <4> HIDE DEF to, torn
      <4> QED BY <4>2, <4>3, <4>4, <4>5 DEF LabelInv, Labelled
    <3> QED BY <3>1, <3>2
  <2> QED BY <1>4, <2>1 DEF UpdateNames, LabelInv
<1>5. CASE UNCHANGED <<rows, blocks>>
  BY <1>5 DEF LabelInv
<1> QED BY <1>1, <1>2, <1>3, <1>4, <1>5
        DEF DerivedNext, IndexStep, JobStep, ImportStep, DropIndex, ScanResources, InsertIps,
            KillJob, ScanNames, ImportEvidence, derivedVars, dbVars

\* Labels match their rows and rules through updates, bootstraps, rollbacks and
\* reclassifications.
THEOREM LabelsStayTrue == DerivedSpec => []LabelsMatch
<1>1. DerivedSpec => [](DerivedTypeOK /\ LabelInv)
  BY InitType, StepType, InitLabels, StepLabels, PTL DEF DerivedSpec
<1>2. LabelInv => LabelsMatch
  BY DEF LabelInv, LabelsMatch, Labelled, Present
<1> QED BY <1>1, <1>2, PTL

-----------------------------------------------------------------------------
(* The summary of TLSA evidence implements the register of LatestTlsa *)

Seen(n, v) == {e \in evidence : e.name = n /\ e.from = v}

\* An id is never used again, the latest observation of a vantage point is
\* unique, and the summary has followed the evidence.
EvidenceInv ==
  /\ \A e \in evidence : e.id <= writes
  /\ \A n \in Names, v \in Vantages :
       Seen(n, v) # {} => \E e \in Seen(n, v) : LatestOf(evidence, n, v) = {e}
  /\ \A n \in Names : tlsa[n] = Summary(evidence, n)

\* The fields of an observation.
LEMMA EvidenceTypes ==
  ASSUME DerivedTypeOK, NEW e \in evidence
  PROVE  e.id \in Nat /\ e.at \in Nat /\ e.at \in 1..MaxTime /\ e.ok \in BOOLEAN
         /\ e.name \in Names /\ e.from \in Vantages
BY DerivedAssumption DEF DerivedTypeOK, EvidenceRow

\* The register's entry is that of the latest observation.
LEMMA CountingIs ==
  ASSUME NEW ev, NEW n, NEW v
  PROVE  /\ LatestOf(ev, n, v) = {} => Counting(ev, n, v) = None
         /\ \A e : LatestOf(ev, n, v) = {e} => Counting(ev, n, v) = [at |-> e.at, ok |-> e.ok]
<1>1. ASSUME NEW e, LatestOf(ev, n, v) = {e}
      PROVE  Counting(ev, n, v) = [at |-> e.at, ok |-> e.ok]
  <2>1. (CHOOSE f \in LatestOf(ev, n, v) : TRUE) = e
    BY <1>1
  <2> QED BY <1>1, <2>1 DEF Counting
<1> QED BY <1>1 DEF Counting

\* The summary can be told from the register's entries alone.
LEMMA SummaryKnown ==
  ASSUME NEW ev \in SUBSET EvidenceRow, NEW n \in Names,
         \A v \in Vantages : {e \in ev : e.name = n /\ e.from = v} # {} =>
                             \E e \in ev : LatestOf(ev, n, v) = {e}
  PROVE  Summary(ev, n) = IF \A v \in Vantages : Counting(ev, n, v) = None THEN None
                          ELSE \E v \in Vantages : Counting(ev, n, v) # None /\ Counting(ev, n, v).ok
<1>1. ASSUME NEW v \in Vantages, NEW e \in ev, LatestOf(ev, n, v) = {e}
      PROVE  /\ Counting(ev, n, v) # None /\ Counting(ev, n, v).ok = e.ok
             /\ e.name = n
  <2>1. Counting(ev, n, v) = [at |-> e.at, ok |-> e.ok]
    BY <1>1, CountingIs
  <2>2. [at |-> e.at, ok |-> e.ok] \in [at : 1..MaxTime, ok : BOOLEAN]
    BY DEF EvidenceRow
  <2>3. e.name = n
    BY <1>1 DEF LatestOf
  <2> QED BY <2>1, <2>2, <2>3, NoneAssumption
<1>2. ASSUME NEW v \in Vantages, {e \in ev : e.name = n /\ e.from = v} = {}
      PROVE  LatestOf(ev, n, v) = {} /\ Counting(ev, n, v) = None
  BY <1>2, CountingIs DEF LatestOf
<1>3. \A e \in ev : e.from \in Vantages
  BY DEF EvidenceRow
<1>4. (\A e \in ev : e.name # n) <=> \A v \in Vantages : Counting(ev, n, v) = None
  BY <1>1, <1>2, <1>3
<1>5. (\E v \in Vantages : \E e \in LatestOf(ev, n, v) : e.ok) <=>
        \E v \in Vantages : Counting(ev, n, v) # None /\ Counting(ev, n, v).ok
  BY <1>1, <1>2
<1> QED BY <1>4, <1>5, Zenon DEF Summary

\* An observation of n from v leaves the latest ones of others, and it becomes the
\* latest of its own unless that one was made later.
Supersedes(n, v, new) ==
  /\ \A m \in Names, w \in Vantages :
       m # n \/ w # v => LatestOf(evidence', m, w) = LatestOf(evidence, m, w)
  /\ Seen(n, v) = {} => LatestOf(evidence', n, v) = {new}
  /\ \A e \in Seen(n, v) :
       LatestOf(evidence, n, v) = {e} =>
         LatestOf(evidence', n, v) = IF new.at >= e.at THEN {new} ELSE {e}

\* What an observation with a new id does to the latest ones.
LEMMA AddObservation ==
  ASSUME DerivedTypeOK, EvidenceInv, NEW n \in Names, NEW v \in Vantages,
         NEW new \in EvidenceRow, new.name = n, new.from = v, new.id > writes,
         evidence' = evidence \cup {new}
  PROVE  Supersedes(n, v, new)
<1>1. new \notin evidence /\ new.id \in Nat /\ new.at \in Nat /\ writes \in Nat
  BY EvidenceTypes, DerivedAssumption DEF EvidenceInv, EvidenceRow, DerivedTypeOK
<1>2. \A e \in evidence : /\ e.id \in Nat /\ e.at \in Nat /\ e.id < new.id
                          /\ Later(new, e) <=> new.at >= e.at
                          /\ Later(e, new) <=> ~(new.at >= e.at)
  BY <1>1, EvidenceTypes DEF EvidenceInv, Later
<1>3. ASSUME NEW m \in Names, NEW w \in Vantages, m # n \/ w # v
      PROVE  LatestOf(evidence', m, w) = LatestOf(evidence, m, w)
  BY <1>3 DEF LatestOf
<1>4. ASSUME Seen(n, v) = {}
      PROVE  LatestOf(evidence', n, v) = {new}
  BY <1>4 DEF LatestOf, Seen
<1>5. ASSUME NEW e \in Seen(n, v), LatestOf(evidence, n, v) = {e}
      PROVE  LatestOf(evidence', n, v) = IF new.at >= e.at THEN {new} ELSE {e}
  <2>1. \A f \in Seen(n, v) \ {e} : Later(e, f)
    BY <1>5 DEF LatestOf, Seen
  <2>2. \A f \in Seen(n, v) : f \in evidence /\ f.name = n /\ f.from = v
    BY DEF Seen
  <2>3. CASE new.at >= e.at
    <3>1. \A f \in Seen(n, v) : new.at >= f.at
      BY <1>1, <1>2, <2>1, <2>2, <2>3 DEF Later
    <3>2. \A f \in Seen(n, v) : Later(new, f) /\ ~Later(f, new)
      BY <1>2, <2>2, <3>1
    <3> QED BY <1>1, <2>3, <3>2 DEF LatestOf, Seen
  <2>4. CASE ~(new.at >= e.at)
    <3>1. Later(e, new) /\ ~Later(new, e)
      BY <1>2, <2>2, <2>4
    <3>2. ASSUME NEW f \in Seen(n, v) \ {e}
          PROVE  ~Later(f, e)
      BY <1>2, <2>1, <2>2, <3>2 DEF Later
    <3> QED BY <1>1, <2>1, <2>2, <2>4, <3>1, <3>2 DEF LatestOf, Seen
  <2> QED BY <2>3, <2>4
<1> QED BY <1>3, <1>4, <1>5 DEF Supersedes

\* With a name go its observations, and only those.
LEMMA DeleteLatest ==
  ASSUME NEW n \in Names, evidence' = {e \in evidence : e.name # n}
  PROVE  \A m \in Names, v \in Vantages :
           LatestOf(evidence', m, v) = IF m = n THEN {} ELSE LatestOf(evidence, m, v)
BY DEF LatestOf

\* A database starts without evidence.
LEMMA InitEvidence == DerivedInit => EvidenceInv
BY DEF DerivedInit, EvidenceInv, Seen, Summary

\* The same latest observations count the same.
LEMMA SameLatest ==
  ASSUME NEW ev, NEW other, NEW n, NEW v, LatestOf(other, n, v) = LatestOf(ev, n, v)
  PROVE  Counting(other, n, v) = Counting(ev, n, v)
BY DEF Counting

\* What a step does to the evidence: nothing, an import, or the loss of a name.
LEMMA EvidenceSteps ==
  ASSUME DerivedTypeOK, [DerivedNext]_derivedVars
  PROVE  /\ writes \in Nat /\ writes' \in Nat /\ writes <= writes'
         /\ \/ UNCHANGED <<evidence, tlsa>>
            \/ \E n \in Names, v \in Vantages : ImportEvidence(n, v)
            \/ \E n \in Names : Delete(n)
<1>1. ASSUME Rollback
      PROVE  UNCHANGED <<evidence, tlsa>> \/ \E n \in Names : Delete(n)
  <2>1. blocks[Len(blocks)].name \in Names
    BY <1>1, LastBlock DEF Rollback
  <2> QED BY <1>1, <2>1 DEF Rollback
<1>2. writes \in Nat /\ (UNCHANGED writes \/ writes' = writes + 1)
  BY DEF DerivedTypeOK, DerivedNext, IndexStep, JobStep, ImportStep, IndexBlock, Bootstrap,
         Rollback, DropIndex, ScanResources, InsertIps, ScanNames, UpdateNames, KillJob,
         ImportEvidence, Write, derivedVars
<1>3. \/ UNCHANGED <<evidence, tlsa>> \/ Rollback
      \/ \E n \in Names, v \in Vantages : ImportEvidence(n, v)
  BY DEF DerivedNext, IndexStep, JobStep, ImportStep, IndexBlock, Bootstrap,
         DropIndex, ScanResources, InsertIps, ScanNames, UpdateNames, KillJob,
         derivedVars, dbVars
<1> QED BY <1>1, <1>2, <1>3

\* An import is a write to the register of latest observations.
LEMMA ImportRefines ==
  ASSUME DerivedTypeOK, EvidenceInv, NEW n \in Names, NEW v \in Vantages, ImportEvidence(n, v)
  PROVE  EvidenceInv' /\ Latest!LatestNext
<1> DEFINE obs(at, ok) == [id |-> writes', name |-> n, from |-> v, at |-> at, ok |-> ok]
<1>1. PICK at \in 1..MaxTime, ok \in BOOLEAN : evidence' = evidence \cup {obs(at, ok)}
  BY DEF ImportEvidence
<1> DEFINE new == obs(at, ok)
<1>2. /\ writes \in Nat /\ writes' = writes + 1
      /\ tlsa' = [tlsa EXCEPT ![n] = Summary(evidence', n)]
  BY WriteType DEF ImportEvidence, DerivedTypeOK
<1>3. /\ new \in EvidenceRow /\ new.name = n /\ new.from = v /\ new.id = writes'
      /\ new.at = at /\ new.ok = ok
  BY <1>2 DEF EvidenceRow
<1>4. evidence' = evidence \cup {new} /\ new.id > writes
  BY <1>1, <1>2
<1> HIDE DEF new
<1>5. /\ \A m \in Names, w \in Vantages :
           m # n \/ w # v => LatestOf(evidence', m, w) = LatestOf(evidence, m, w)
      /\ Seen(n, v) = {} => LatestOf(evidence', n, v) = {new}
      /\ \A e \in Seen(n, v) :
           LatestOf(evidence, n, v) = {e} =>
             LatestOf(evidence', n, v) = IF new.at >= e.at THEN {new} ELSE {e}
  <2>1. Supersedes(n, v, new)
    BY <1>3, <1>4, AddObservation
  <2> QED BY <2>1 DEF Supersedes
<1>6. evidence' \in SUBSET EvidenceRow
  BY ImportType DEF DerivedTypeOK
<1>7. ASSUME NEW m \in Names, NEW w \in Vantages, {e \in evidence' : e.name = m /\ e.from = w} # {}
      PROVE  \E e \in evidence' : e.name = m /\ e.from = w /\ LatestOf(evidence', m, w) = {e}
  <2>1. CASE m # n \/ w # v
    <3>1. Seen(m, w) # {}
      BY <1>3, <1>4, <1>7, <2>1 DEF Seen
    <3>2. PICK e \in Seen(m, w) : LatestOf(evidence, m, w) = {e}
      BY <3>1 DEF EvidenceInv
    <3> QED BY <1>4, <1>5, <2>1, <3>2 DEF Seen
  <2>2. CASE m = n /\ w = v
    <3>1. CASE Seen(n, v) = {}
      BY <1>3, <1>4, <1>5, <2>2, <3>1
    <3>2. CASE Seen(n, v) # {}
      <4>1. PICK e \in Seen(n, v) : LatestOf(evidence, n, v) = {e}
        BY <3>2 DEF EvidenceInv
      <4> QED BY <1>3, <1>4, <1>5, <2>2, <4>1 DEF Seen
    <3> QED BY <3>1, <3>2
  <2> QED BY <2>1, <2>2
<1>8. ASSUME NEW m \in Names, m # n
      PROVE  Summary(evidence', m) = Summary(evidence, m)
  <2>1. \A w \in Vantages : LatestOf(evidence', m, w) = LatestOf(evidence, m, w)
    BY <1>5, <1>8
  <2>2. (\A e \in evidence' : e.name # m) <=> (\A e \in evidence : e.name # m)
    BY <1>3, <1>4, <1>8
  <2> QED BY <2>1, <2>2 DEF Summary
<1>9. EvidenceInv'
  <2>1. \A e \in evidence' : e.id <= writes'
    BY <1>2, <1>3, <1>4, EvidenceTypes DEF EvidenceInv
  <2>2. \A m \in Names : tlsa'[m] = Summary(evidence', m)
    BY <1>2, <1>8 DEF EvidenceInv, DerivedTypeOK
  <2>3. \A m \in Names, w \in Vantages :
          Seen(m, w)' # {} => \E e \in Seen(m, w)' : LatestOf(evidence', m, w) = {e}
    BY <1>7 DEF Seen
  <2> QED BY <2>1, <2>2, <2>3 DEF EvidenceInv
<1>10. Latest!LatestNext
  <2> DEFINE o == [at |-> at, ok |-> ok]
             old == Counting(evidence, n, v)
             reg == [m \in Names |-> [w \in Vantages |-> Counting(evidence, m, w)]]
             now == [m \in Names |-> [w \in Vantages |-> Counting(evidence', m, w)]]
  <2>1. \A m \in Names, w \in Vantages :
          m # n \/ w # v => Counting(evidence', m, w) = Counting(evidence, m, w)
    BY <1>5, SameLatest
  <2>2. Counting(evidence', n, v) = IF old = None \/ o.at >= old.at THEN o ELSE old
    <3>1. CASE Seen(n, v) = {}
      <4>1. LatestOf(evidence, n, v) = {}
        BY <3>1 DEF LatestOf, Seen
      <4>2. old = None
        BY <4>1, CountingIs
      <4>3. Counting(evidence', n, v) = o
        BY <1>3, <1>5, <3>1, CountingIs
      <4> QED BY <4>2, <4>3
    <3>2. CASE Seen(n, v) # {}
      <4>1. PICK e \in Seen(n, v) : LatestOf(evidence, n, v) = {e}
        BY <3>2 DEF EvidenceInv
      <4>2. old = [at |-> e.at, ok |-> e.ok]
        BY <4>1, CountingIs
      <4>3. old \in [at : 1..MaxTime, ok : BOOLEAN]
        BY <4>2, EvidenceTypes DEF Seen
      <4>4. old # None /\ old.at = e.at
        BY <4>2, <4>3, NoneAssumption
      <4>5. LatestOf(evidence', n, v) = IF new.at >= e.at THEN {new} ELSE {e}
        BY <1>5, <4>1
      <4>6. CASE new.at >= e.at
        <5>1. Counting(evidence', n, v) = o
          BY <1>3, <4>5, <4>6, CountingIs
        <5> QED BY <1>3, <4>4, <4>6, <5>1
      <4>7. CASE ~(new.at >= e.at)
        <5>1. Counting(evidence', n, v) = old
          BY <4>2, <4>5, <4>7, CountingIs
        <5> QED BY <1>3, <4>4, <4>7, <5>1
      <4> QED BY <4>6, <4>7
    <3> QED BY <3>1, <3>2
  <2> HIDE DEF old
  <2> DEFINE next == IF old = None \/ o.at >= old.at THEN o ELSE old
  <2> HIDE DEF o, next
  <2>3. now = [reg EXCEPT ![n][v] = IF @ = None \/ o.at >= @.at THEN o ELSE @]
    <3>1. [reg EXCEPT ![n][v] = IF @ = None \/ o.at >= @.at THEN o ELSE @]
            = [reg EXCEPT ![n] = [reg[n] EXCEPT ![v] = next]]
      BY DEF next, old
    <3>2. now[n] = [reg[n] EXCEPT ![v] = next]
      BY <2>1, <2>2 DEF next
    <3>3. \A m \in Names : m # n => now[m] = reg[m]
      BY <2>1
    <3> QED BY <3>1, <3>2, <3>3
  <2>4. Summary(evidence', n) =
          IF \A w \in Vantages : now[n][w] = None THEN None
          ELSE \E w \in Vantages : now[n][w] # None /\ now[n][w].ok
    <3>1. \A w \in Vantages : {e \in evidence' : e.name = n /\ e.from = w} # {} =>
                                \E e \in evidence' : LatestOf(evidence', n, w) = {e}
      BY <1>7
    <3>2. Summary(evidence', n) =
            IF \A w \in Vantages : Counting(evidence', n, w) = None THEN None
            ELSE \E w \in Vantages : Counting(evidence', n, w) # None /\ Counting(evidence', n, w).ok
      BY <1>6, <3>1, SummaryKnown
    <3> QED BY <3>2
  <2>5. Summary(evidence', n) = Latest!Known(n)'
    BY <2>4 DEF Latest!Known
  <2>6. Latest!Observe(n, v, o)
    BY <1>2, <2>3, <2>5 DEF Latest!Observe
  <2>7. o \in Latest!Observation
    BY DEF Latest!Observation, o
  <2> QED BY <2>6, <2>7 DEF Latest!LatestNext
<1> QED BY <1>9, <1>10

\* Deleting a name clears its registers.
LEMMA DeleteRefines ==
  ASSUME DerivedTypeOK, EvidenceInv, NEW n \in Names, Delete(n),
         writes \in Nat, writes' \in Nat, writes <= writes'
  PROVE  EvidenceInv' /\ Latest!LatestNext
<1>1. /\ evidence' = {e \in evidence : e.name # n}
      /\ tlsa' = [tlsa EXCEPT ![n] = None]
  BY DEF Delete
<1>2. \A m \in Names, v \in Vantages :
        LatestOf(evidence', m, v) = IF m = n THEN {} ELSE LatestOf(evidence, m, v)
  BY <1>1, DeleteLatest
<1>3. \A m \in Names : Summary(evidence', m) = IF m = n THEN None ELSE Summary(evidence, m)
  <2>1. Summary(evidence', n) = None
    BY <1>1 DEF Summary
  <2>2. ASSUME NEW m \in Names, m # n
        PROVE  Summary(evidence', m) = Summary(evidence, m)
    <3>1. \A v \in Vantages : LatestOf(evidence', m, v) = LatestOf(evidence, m, v)
      BY <1>2, <2>2
    <3>2. (\A e \in evidence' : e.name # m) <=> (\A e \in evidence : e.name # m)
      BY <1>1, <2>2
    <3> QED BY <3>1, <3>2 DEF Summary
  <2> QED BY <2>1, <2>2
<1>4. EvidenceInv'
  <2>1. \A e \in evidence' : e.id <= writes'
    BY <1>1, EvidenceTypes DEF EvidenceInv
  <2>2. \A m \in Names : tlsa'[m] = Summary(evidence', m)
    BY <1>1, <1>3 DEF EvidenceInv, DerivedTypeOK
  <2>3. ASSUME NEW m \in Names, NEW v \in Vantages, Seen(m, v)' # {}
        PROVE  \E e \in Seen(m, v)' : LatestOf(evidence', m, v) = {e}
    <3>1. m # n /\ Seen(m, v)' = Seen(m, v)
      BY <1>1, <2>3 DEF Seen
    <3> QED BY <1>2, <2>3, <3>1 DEF EvidenceInv
  <2> QED BY <2>1, <2>2, <2>3 DEF EvidenceInv
<1>5. \A m \in Names, v \in Vantages :
        Counting(evidence', m, v) = IF m = n THEN None ELSE Counting(evidence, m, v)
  BY <1>2, SameLatest, CountingIs
<1>6. Latest!Forget(n)
  BY <1>1, <1>5 DEF Latest!Forget
<1> QED BY <1>4, <1>6 DEF Latest!LatestNext

\* Every step is a step of the registers, or changes none of them.
LEMMA EvidenceStep ==
  DerivedTypeOK /\ EvidenceInv /\ [DerivedNext]_derivedVars =>
    EvidenceInv' /\ [Latest!LatestNext]_<<[n \in Names |-> [v \in Vantages |-> Counting(evidence, n, v)]], tlsa>>
<1> SUFFICES ASSUME DerivedTypeOK, EvidenceInv, [DerivedNext]_derivedVars
    PROVE  EvidenceInv' /\ [Latest!LatestNext]_<<[n \in Names |-> [v \in Vantages |-> Counting(evidence, n, v)]], tlsa>>
  OBVIOUS
<1>1. writes \in Nat /\ writes' \in Nat /\ writes <= writes'
  BY EvidenceSteps
<1>2. CASE UNCHANGED <<evidence, tlsa>>
  <2>1. \A e \in evidence' : e.id <= writes'
    BY <1>1, <1>2, EvidenceTypes DEF EvidenceInv
  <2>2. EvidenceInv'
    BY <1>2, <2>1 DEF EvidenceInv, Seen
  <2> QED BY <1>2, <2>2
<1>3. ASSUME NEW n \in Names, NEW v \in Vantages, ImportEvidence(n, v)
      PROVE  EvidenceInv' /\ Latest!LatestNext
  BY <1>3, ImportRefines
<1>4. ASSUME NEW n \in Names, Delete(n)
      PROVE  EvidenceInv' /\ Latest!LatestNext
  BY <1>1, <1>4, DeleteRefines
<1> QED BY <1>2, <1>3, <1>4, EvidenceSteps

\* The summary of the TLSA evidence implements the register of the latest
\* observations, for any imports, rollbacks and jobs.
THEOREM TlsaRefines == DerivedSpec => TlsaIsLatest
<1>1. DerivedInit => Latest!LatestInit
  BY DEF DerivedInit, Latest!LatestInit, Counting, LatestOf
<1> QED
  BY <1>1, InitType, StepType, InitEvidence, EvidenceStep, PTL
  DEF DerivedSpec, TlsaIsLatest, Latest!LatestSpec
=============================================================================
