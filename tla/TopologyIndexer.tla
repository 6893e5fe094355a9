-------------------------- MODULE TopologyIndexer --------------------------
(***************************************************************************)
(* The topology indexer: bootstrap, incremental catch-up, manual block     *)
(* scans, reorg detection and rollback of src/hns_topology/indexer.py,     *)
(* db.py and the incremental commands of cli.py, against a chain that      *)
(* grows and reorganises between any two RPC calls.                        *)
(*                                                                         *)
(* The database is one SQLite file.  A row of the index is the pair of     *)
(* chain versions its names row (getnameinfo) and its resource_summary row *)
(* (getnameresource) were read from; the columns derived from them are     *)
(* abstracted away.  A transaction is a working copy published at commit.  *)
(***************************************************************************)
EXTENDS HsdChain

CONSTANTS
  None,            \* no row, no height, not read yet (a model value)
  KeepBlocks,      \* --reorg-keep-blocks
  MaxCatchUp,      \* --catch-up-max-blocks
  ToHeights,       \* --catch-up-to-height values an operator may pass
  ScanHeights,     \* --scan-block-height values an operator may pass
  NameFiles,       \* --changed-names-file contents an operator may pass
  BootHeights,     \* chain heights at which the operator bootstraps or exports
  Rebootstrap,     \* may the operator bootstrap into an existing database
  ImportedBlocks,  \* block_history items a JSONL export carries
  MayHide,         \* may getnamebyhash fail to resolve a name hash
  Reorgs,          \* may the chain disconnect blocks
  QuietChain,      \* does the chain stand still while a command runs
  Interruptions    \* may a command be killed, or an RPC call time out

ASSUME IndexerAssumption ==
  /\ None \notin Version
  /\ None \notin Nat
  /\ None \notin [info : Version, resource : Version \cup {None}]
  /\ KeepBlocks \in Nat
  /\ MaxCatchUp \in Nat
  /\ ToHeights \subseteq Nat
  /\ ScanHeights \subseteq Nat \ {0}
  /\ NameFiles \subseteq SUBSET Names
  /\ BootHeights \subseteq Nat
  /\ ImportedBlocks \in Nat
  /\ {Rebootstrap, MayHide, Reorgs, QuietChain, Interruptions} \subseteq BOOLEAN

VARIABLES
  \* the database
  rows,        \* names + resource_summary, by name
  history,     \* block_history: height -> block hash
  undo,        \* changed_name_rollbacks: height -> name -> row before the block
  lastHeight,  \* snapshot_meta.last_indexed_height
  summary,     \* provider_summary, as the rows it was computed from
  \* the running command
  pc,          \* where it is
  cmd,         \* which: "none", "boot", "check", "catch-up", "scan" or "file"
  rollback,    \* --rollback / --rollback-on-reorg
  pending,     \* heights of block_history still to be compared
  cur,         \* the height being indexed, or the mismatch found
  target,      \* the last height of the catch-up
  \* its open transaction
  hash,        \* hash of the fetched block
  todo,        \* names not yet re-read
  work,        \* rows as the transaction sees them
  snap,        \* rollback rows captured by the transaction
  \* auxiliary
  before       \* height -> rows when that height was first indexed

dbVars == <<rows, history, undo, lastHeight, summary>>
txnVars == <<hash, todo, work, snap>>
runVars == <<pc, cmd, rollback, pending, cur, target>>
vars == <<chainVars, dbVars, runVars, txnVars, before>>

-----------------------------------------------------------------------------
(* Types and helpers *)

Row == [info : Version, resource : Version \cup {None}]
Rows == [Names -> Row \cup {None}]
NoRows == [n \in Names |-> None]
Empty == [h \in {} |-> None]

\* The rows of some names, as they were before a block.
IsSnapshot(s) == /\ DOMAIN s \subseteq Names
                 /\ \A n \in DOMAIN s : s[n] \in Row \cup {None}

Info(row) == IF row = None THEN Unregistered ELSE row.info
Resource(row) == IF row = None THEN Unregistered ELSE row.resource

Restricted(f, S) == [x \in (DOMAIN f) \cap S |-> f[x]]

\* Mutant: one height too many is kept.
PrunedLate(f, latest) == Restricted(f, {h \in DOMAIN f : h + KeepBlocks + 1 >= latest})

\* DELETE ... WHERE height < max(0, latest - keep)
Pruned(f, latest) == Restricted(f, {h \in DOMAIN f : h + KeepBlocks >= latest})

IsMin(h, S) == h \in S /\ \A k \in S : h <= k

\* The heights from h on whose snapshots hold the name.
Snapshots(u, h, n) == {k \in DOMAIN u : k >= h /\ n \in DOMAIN u[k]}

\* Mutant: the rollback statement runs in ascending order of height.
UndoneLatest(r, u, h) ==
  [n \in Names |->
     IF Snapshots(u, h, n) = {} THEN r[n]
     ELSE u[CHOOSE k \in Snapshots(u, h, n) : \A i \in Snapshots(u, h, n) : i <= k][n]]

\* What restoring the snapshots of every height >= h leaves: the statement runs
\* from the highest height down, so the lowest snapshot of a name is the last
\* one written.
Undone(r, u, h) ==
  [n \in Names |->
     IF Snapshots(u, h, n) = {} THEN r[n]
     ELSE u[CHOOSE k \in Snapshots(u, h, n) : IsMin(k, Snapshots(u, h, n))][n]]

\* The running command ends; an open transaction is dropped.
EndCommand ==
  /\ pc' = "idle"
  /\ cmd' = "none"
  /\ rollback' = FALSE
  /\ pending' = {}
  /\ cur' = 0
  /\ target' = 0
  /\ hash' = Unregistered
  /\ todo' = {}
  /\ work' = NoRows
  /\ snap' = Empty

-----------------------------------------------------------------------------
(* The chain moves *)

ChainMoves ==
  /\ QuietChain => pc = "idle"
  /\ (\E S \in SUBSET Names : Connect(S)) \/ (Reorgs /\ Disconnect)
  /\ UNCHANGED <<dbVars, runVars, txnVars, before>>

\* The operator writes a JSONL file; it may be imported much later.
ExportJsonl ==
  /\ Tip \in BootHeights
  /\ Export
  /\ UNCHANGED <<dbVars, runVars, txnVars, before>>

-----------------------------------------------------------------------------
(* Bootstrap *)

MayBootstrap ==
  /\ pc = "idle"
  /\ lastHeight = None \/ Rebootstrap

\* bootstrap_from_hsd: getblockchaininfo fixes the height of the snapshot
BootstrapTip ==
  /\ MayBootstrap /\ Tip \in BootHeights
  /\ pc' = "names"
  /\ cmd' = "boot"
  /\ cur' = Tip
  /\ UNCHANGED <<chainVars, dbVars, rollback, pending, target, txnVars, before>>

\* getnames returns the info of every opened name, as of now
BootstrapNames ==
  /\ pc = "names"
  /\ pc' = "read"
  /\ todo' = {n \in Names : TipView[n] # Unregistered}
  /\ work' = [n \in Names |-> IF TipView[n] # Unregistered
                              THEN [info |-> TipView[n], resource |-> None]
                              ELSE rows[n]]
  /\ UNCHANGED <<chainVars, dbVars, cmd, rollback, pending, cur, target, hash, snap, before>>

BootstrapCommit ==
  /\ pc = "read" /\ cmd = "boot" /\ todo = {}
  /\ rows' = work
  /\ lastHeight' = cur
  /\ summary' = work
  /\ EndCommand
  /\ UNCHANGED <<chainVars, history, undo, before>>

\* bootstrap_from_jsonl: rows, height and the hashes of the last ImportedBlocks
\* blocks (hsd-nameonly-replay-jsonl.js) as they are in the file, over whatever the
\* database has, newer rows included; no rollback rows.
Import(file) ==
  /\ MayBootstrap
  /\ LET height == Len(file)
         view == file[height].view
         recent == {h \in 1 .. height : h + ImportedBlocks > height}
     IN  /\ rows' = [n \in Names |-> IF view[n] # Unregistered
                                     THEN [info |-> view[n], resource |-> view[n]]
                                     ELSE rows[n]]
         /\ history' = [h \in (DOMAIN history) \cup recent |->
                          IF h \in recent THEN file[h].hash ELSE history[h]]
         /\ lastHeight' = height
  /\ summary' = rows'
  /\ UNCHANGED <<chainVars, undo, runVars, txnVars, before>>

ImportJsonl == \E file \in exports : Import(file)

-----------------------------------------------------------------------------
(* Reorg check: the first part of every incremental command, and reorg-check *)

\* find_reorg_mismatch reads block_history once, then asks for each hash.
StartCheck(c, rb, h) ==
  /\ pc = "idle"
  /\ pc' = "check"
  /\ cmd' = c
  /\ rollback' = rb
  /\ pending' = DOMAIN history
  /\ cur' = h
  /\ UNCHANGED <<chainVars, dbVars, target, txnVars, before>>

ReorgCheck == \E rb \in BOOLEAN : StartCheck("check", rb, 0)
CatchUp    == \E rb \in BOOLEAN : StartCheck("catch-up", rb, 0)
Scan       == \E rb \in BOOLEAN, h \in ScanHeights : StartCheck("scan", rb, h)
FromFile   == \E rb \in BOOLEAN : NameFiles # {} /\ StartCheck("file", rb, 0)

CompareHash ==
  /\ pc = "check"
  /\ \E h \in pending :
       /\ IsMin(h, pending)
       /\ \/ /\ h <= Tip
             /\ chain[h].hash = history[h]
             /\ pending' = pending \ {h}
             /\ UNCHANGED <<pc, cmd, rollback, cur, target, txnVars>>
          \/ /\ h <= Tip
             /\ chain[h].hash # history[h]
             /\ rollback
             /\ pc' = "rollback"
             /\ cur' = h
             /\ UNCHANGED <<cmd, rollback, pending, target, txnVars>>
          \/ /\ h <= Tip
             /\ chain[h].hash # history[h]
             /\ ~rollback
             /\ EndCommand
          \/ /\ h > Tip              \* getblockhash fails: Block not found
             /\ EndCommand
  /\ UNCHANGED <<chainVars, dbVars, before>>

CheckPassed ==
  /\ pc = "check" /\ pending = {}
  /\ \/ cmd = "check" /\ EndCommand
     \/ /\ cmd = "catch-up"
        /\ pc' = "plan"
        /\ UNCHANGED <<cmd, rollback, pending, cur, target, txnVars>>
     \/ /\ cmd = "scan"
        /\ pc' = "fetch"
        /\ target' = cur
        /\ UNCHANGED <<cmd, rollback, pending, cur, txnVars>>
     \/ /\ cmd = "file"           \* getblockchaininfo gives the height
        /\ pc' = "fetch"
        /\ cur' = Tip
        /\ target' = Tip
        /\ UNCHANGED <<cmd, rollback, pending, txnVars>>
  /\ UNCHANGED <<chainVars, dbVars, before>>

\* Mutant: the history goes and the rows stay.
RolledBackHistoryOnly ==
  /\ history' = Restricted(history, 0 .. cur - 1)
  /\ undo' = Restricted(undo, 0 .. cur - 1)
  /\ \/ /\ DOMAIN history' = {}
        /\ lastHeight' = cur - 1
     \/ \E h \in DOMAIN history' :
          /\ \A k \in DOMAIN history' : k <= h
          /\ lastHeight' = h
  /\ summary' = rows
  /\ before' = Restricted(before, 0 .. cur - 1)
  /\ UNCHANGED rows

\* Mutant: a name that had no row is restored as an empty row, not deleted.
RolledBackKeepsNew ==
  /\ rows' = [n \in Names |->
               IF Snapshots(undo, cur, n) # {} /\ Undone(rows, undo, cur)[n] = None
               THEN [info |-> None, resource |-> None]
               ELSE Undone(rows, undo, cur)[n]]
  /\ history' = Restricted(history, 0 .. cur - 1)
  /\ undo' = Restricted(undo, 0 .. cur - 1)
  /\ lastHeight' = cur - 1
  /\ summary' = rows
  /\ before' = Restricted(before, 0 .. cur - 1)

\* Mutant: height > rollback_height instead of >=.
RolledBackAbove ==
  /\ rows' = Undone(rows, undo, cur)
  /\ history' = Restricted(history, 0 .. cur)
  /\ undo' = Restricted(undo, 0 .. cur)
  /\ \E h \in DOMAIN history' :
       /\ \A k \in DOMAIN history' : k <= h
       /\ lastHeight' = h
  /\ summary' = rows'
  /\ before' = Restricted(before, 0 .. cur)

\* rollback_to_height and the provider summary, in one transaction
RolledBack ==
  /\ rows' = Undone(rows, undo, cur)
  /\ history' = Restricted(history, 0 .. cur - 1)
  /\ undo' = Restricted(undo, 0 .. cur - 1)
  /\ \/ /\ DOMAIN history' = {}
        /\ lastHeight' = cur - 1
     \/ \E h \in DOMAIN history' :
          /\ \A k \in DOMAIN history' : k <= h
          /\ lastHeight' = h
  /\ summary' = rows'
  /\ before' = Restricted(before, 0 .. cur - 1)

RollbackReorg ==
  /\ pc = "rollback"
  /\ RolledBack
  /\ EndCommand
  /\ UNCHANGED chainVars

-----------------------------------------------------------------------------
(* Catch-up *)

PlanCatchUp ==
  /\ pc = "plan"
  /\ \E to \in {Tip} \cup ToHeights :
       \/ /\ \/ lastHeight = None
             \/ to > Tip
             \/ lastHeight # None /\ to <= lastHeight
             \/ lastHeight # None /\ to > lastHeight + MaxCatchUp
          /\ EndCommand
       \/ /\ lastHeight # None
          /\ to <= Tip
          /\ to > lastHeight
          /\ to <= lastHeight + MaxCatchUp
          /\ pc' = "fetch"
          /\ cur' = lastHeight + 1
          /\ target' = to
          /\ UNCHANGED <<cmd, rollback, pending, txnVars>>
  /\ UNCHANGED <<chainVars, dbVars, before>>

\* getblockbyheight and the extraction of changed names; a name carried only by
\* its hash is resolved by getnamebyhash, which may know nothing of it: the block
\* is refused (ALLOW_UNRESOLVED_NAME_HASHES and ALLOW_EMPTY_BLOCK_SCAN are off).
\* With a names file only the hash of the height is asked for.
BlockRefused ==
  cur <= Tip =>        \* otherwise the RPC call fails: Block not found
    \/ cmd # "file" /\ MayHide /\ chain[cur].changed # {}
    \/ cmd = "scan" /\ chain[cur].changed = {}

\* Mutant: a name hash that does not resolve is dropped from the block.
FetchedResolved ==
  CASE cmd = "file"     -> NameFiles
    [] cmd = "scan"     -> SUBSET chain[cur].changed
    [] cmd = "catch-up" -> SUBSET chain[cur].changed

FetchedNames ==
  CASE cmd = "file"     -> NameFiles
    [] cmd = "scan"     -> {chain[cur].changed} \ {{}}
    [] cmd = "catch-up" -> {chain[cur].changed}

FetchBlock ==
  /\ pc = "fetch"
  /\ \/ BlockRefused /\ EndCommand
     \/ /\ cur <= Tip
        /\ todo' \in FetchedNames
        /\ hash' = chain[cur].hash
        /\ work' = rows
        /\ snap' = Empty
        /\ pc' = "read"
        /\ UNCHANGED <<cmd, rollback, pending, cur, target>>
  /\ UNCHANGED <<chainVars, dbVars, before>>

\* capture_rollback, then getnameinfo
ReadInfo(n) ==
  /\ pc = "read" /\ cmd # "boot"
  /\ n \in todo
  /\ \A m \in todo : m \notin DOMAIN snap
  /\ snap' = [m \in (DOMAIN snap) \cup {n} |-> IF m = n THEN work[n] ELSE snap[m]]
  /\ work' = [work EXCEPT ![n] = [info |-> TipView[n], resource |-> None]]
  /\ UNCHANGED <<chainVars, dbVars, runVars, hash, todo, before>>

\* Mutant: the resource as of the block being indexed, not of the tip.
ReadResourceAtBlock(n) ==
  /\ pc = "read"
  /\ n \in todo
  /\ cmd # "boot" => n \in DOMAIN snap
  /\ work' = [work EXCEPT ![n].resource = chain[cur].view[n]]
  /\ todo' = todo \ {n}
  /\ UNCHANGED <<chainVars, dbVars, runVars, hash, snap, before>>

\* getnameresource, then the upserts of index_one_name
ReadResource(n) ==
  /\ pc = "read"
  /\ n \in todo
  /\ cmd # "boot" => n \in DOMAIN snap
  /\ work' = [work EXCEPT ![n].resource = TipView[n]]
  /\ todo' = todo \ {n}
  /\ UNCHANGED <<chainVars, dbVars, runVars, hash, snap, before>>

\* The end of index_changed_names; a scan also recomputes the provider
\* summary, a catch-up defers it to its end.
CommitBlock ==
  /\ pc = "read" /\ cmd # "boot" /\ todo = {}
  /\ rows' = work
  /\ history' = Pruned([h \in (DOMAIN history) \cup {cur} |->
                          IF h = cur THEN hash ELSE history[h]], cur)
  /\ undo' = Pruned([h \in (DOMAIN undo) \cup {cur} |->
                       IF h # cur THEN undo[h]
                       ELSE IF h \notin DOMAIN undo THEN snap
                       ELSE [n \in (DOMAIN snap) \cup (DOMAIN undo[h]) |->
                               IF n \in DOMAIN snap THEN snap[n] ELSE undo[h][n]]], cur)
  /\ before' = Pruned([h \in (DOMAIN before) \cup {cur} |->
                         IF h \in DOMAIN before THEN before[h] ELSE rows], cur)
  /\ lastHeight' = cur
  /\ \/ /\ cmd \in {"scan", "file"}
        /\ summary' = rows'
        /\ EndCommand
     \/ /\ cmd = "catch-up"
        /\ pc' = IF cur = target THEN "finish" ELSE "fetch"
        /\ cur' = IF cur = target THEN cur ELSE cur + 1
        /\ hash' = Unregistered
        /\ work' = NoRows
        /\ snap' = Empty
        /\ UNCHANGED <<summary, cmd, rollback, pending, target, todo>>
  /\ UNCHANGED chainVars

\* Mutant: the deferred provider summary is forgotten.
FinishWithoutSummary ==
  /\ pc = "finish"
  /\ EndCommand
  /\ UNCHANGED <<chainVars, dbVars, before>>

FinishCatchUp ==
  /\ pc = "finish"
  /\ summary' = rows
  /\ EndCommand
  /\ UNCHANGED <<chainVars, rows, history, undo, lastHeight, before>>

\* The process is killed, the VM stops, or an RPC call fails: the open
\* transaction is lost, everything committed stays.
Interrupted ==
  /\ Interruptions
  /\ pc # "idle"
  /\ EndCommand
  /\ UNCHANGED <<chainVars, dbVars, before>>

-----------------------------------------------------------------------------

Init ==
  /\ ChainInit
  /\ rows = NoRows
  /\ history = Empty
  /\ undo = Empty
  /\ lastHeight = None
  /\ summary = NoRows
  /\ pc = "idle"
  /\ cmd = "none"
  /\ rollback = FALSE
  /\ pending = {}
  /\ cur = 0
  /\ target = 0
  /\ hash = Unregistered
  /\ todo = {}
  /\ work = NoRows
  /\ snap = Empty
  /\ before = Empty

Command ==
  \/ BootstrapTip \/ BootstrapNames \/ BootstrapCommit \/ ImportJsonl
  \/ ReorgCheck \/ CatchUp \/ Scan \/ FromFile
  \/ CompareHash \/ CheckPassed \/ RollbackReorg
  \/ PlanCatchUp \/ FetchBlock
  \/ (\E n \in Names : ReadInfo(n) \/ ReadResource(n))
  \/ CommitBlock \/ FinishCatchUp

Next == ChainMoves \/ ExportJsonl \/ Command \/ Interrupted

Spec == Init /\ [][Next]_vars

(***************************************************************************)
(* The nightly timer issues both commands again and again, and a command   *)
(* that is not interrupted runs to its end; nobody has to mine a block, to *)
(* scan by hand or to bootstrap a second time.                             *)
(***************************************************************************)
RunStep ==
  \/ BootstrapNames \/ BootstrapCommit
  \/ CompareHash \/ CheckPassed \/ RollbackReorg \/ PlanCatchUp \/ FetchBlock
  \/ (\E n \in Names : ReadInfo(n) \/ ReadResource(n))
  \/ CommitBlock \/ FinishCatchUp

Fairness ==
  /\ WF_vars(RunStep)
  /\ SF_vars(StartCheck("check", TRUE, 0))
  /\ SF_vars(StartCheck("catch-up", FALSE, 0))

FairSpec == Spec /\ Fairness

-----------------------------------------------------------------------------
(* Properties *)

TypeOK ==
  /\ ChainTypeOK
  /\ rows \in Rows
  /\ DOMAIN history \subseteq Nat \ {0}
  /\ \A h \in DOMAIN history : history[h] \in Version
  /\ DOMAIN undo \subseteq Nat \ {0}
  /\ \A h \in DOMAIN undo : IsSnapshot(undo[h])
  /\ lastHeight \in Nat \cup {None}
  /\ summary \in Rows
  /\ pc \in {"idle", "names", "check", "rollback", "plan", "fetch", "read", "finish"}
  /\ cmd \in {"none", "boot", "check", "catch-up", "scan", "file"}
  /\ rollback \in BOOLEAN
  /\ pending \subseteq Nat \ {0}
  /\ cur \in Nat
  /\ target \in Nat
  /\ hash \in Version
  /\ todo \subseteq Names
  /\ work \in Rows
  /\ IsSnapshot(snap)
  /\ DOMAIN before \subseteq Nat \ {0}

\* Catch-up leaves no gap and keeps a bounded window: block_history, the
\* snapshots and the recorded height always describe the same run of heights,
\* ending at the last one indexed, whatever was pruned, rolled back or
\* interrupted.  A gap would be a block whose changes are never indexed.
HistoryIsContiguous ==
  DOMAIN history # {} =>
    /\ lastHeight \in DOMAIN history
    /\ \A h \in DOMAIN history : h <= lastHeight /\ h + KeepBlocks >= lastHeight
    /\ \A h, k \in DOMAIN history : \A i \in h .. k : i \in DOMAIN history

\* Rolling back to any height that is still in the window would restore exactly
\* the rows there were before that height was indexed, however many blocks were
\* indexed, pruned and rolled back since (rollback_to_height undoes
\* index_changed_names).
ExactUndo == \A h \in DOMAIN before : Undone(rows, undo, h) = before[h]

HeightOf(version) == version[1]

FreshAt(n, v, h) ==
  v = TipView[n] \/ \E k \in h + 1 .. Tip : n \in chain[k].changed

\* A row is stale only while the block that changed its name is still ahead:
\* each half of it is what the chain holds now, or the name changes in a block
\* that catch-up has yet to index.  The two halves come from two RPC calls, and
\* both from a chain that is ahead of the block being indexed.
StaleOnlyAhead ==
  lastHeight # None =>
    \A n \in Names : /\ FreshAt(n, Info(rows[n]), lastHeight)
                      /\ FreshAt(n, Resource(rows[n]), lastHeight)

\* While the chain only grows, no command replaces a state of a name by an older
\* one: not a scan of an old block, a names file, a second bootstrap or the import
\* of a file that shows the tip.  Only the import of a file written before the last
\* block may, and StaleOnlyAhead says that catch-up then makes up for it.
RowsNeverGoBack ==
  [][\/ \A n \in Names : /\ HeightOf(Info(rows'[n])) >= HeightOf(Info(rows[n]))
                         /\ HeightOf(Resource(rows'[n])) >= HeightOf(Resource(rows[n]))
     \/ \E file \in exports : file # chain /\ Import(file)]_rows

HistoryMatches == \A h \in DOMAIN history : h <= Tip /\ chain[h].hash = history[h]

\* Once every stored hash matches and the tip is indexed, the index is the
\* chain's current state, also after reorganisations and rollbacks.
CaughtUpIsExact ==
  pc = "idle" /\ lastHeight = Tip /\ HistoryMatches =>
    \A n \in Names : Info(rows[n]) = TipView[n] /\ Resource(rows[n]) = TipView[n]

\* The provider rollup describes the rows whenever no command is running.
SummaryCurrent == pc = "idle" => summary = rows

\* What reorg-check reports after a rollback (cli.py: "rolled back compact index
\* to before height"): no row holds a state that a block at or above the
\* rollback height put on the chain.
RolledBackToBefore ==
  [][pc = "rollback" /\ cur \notin DOMAIN history' =>
       \A n \in Names : /\ HeightOf(Info(rows'[n])) < cur
                         /\ HeightOf(Resource(rows'[n])) < cur]_vars

\* In lockstep with the chain the index is the replica of ChainReplica: every commit
\* leaves the names and resources of one block, of the tip after a bootstrap or a
\* catch-up, of a lower block that is still on the chain after a rollback.
Replica == INSTANCE ChainReplica WITH
  at <- lastHeight,
  infos <- [n \in Names |-> Info(rows[n])],
  resources <- [n \in Names |-> Resource(rows[n])]
IndexIsReplica == Replica!ReplicaSpec

\* When commands stop being interrupted, a bootstrapped index reaches the tip and
\* its stored hashes are those of the chain, provided HSD does not end up on a
\* chain shorter than the index (each check then fails with an RPC error).
Converges ==
  (<>[][ChainMoves \/ ExportJsonl \/ Command]_vars /\ <>[](lastHeight # None /\ Tip >= lastHeight))
    => <>[](lastHeight = Tip /\ HistoryMatches)
=============================================================================
