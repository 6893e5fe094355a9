------------------------------- MODULE Release -------------------------------
(***************************************************************************)
(* A release: the pipeline of scripts/run-indexer-pipeline-local.sh, which *)
(* updates the database, generates the site, verifies it, archives it and  *)
(* publishes site and lookup database to the web server                    *)
(* (scripts/publish-indexer-site.sh).  It stops at the first command that  *)
(* fails and may be killed between any two steps; beside it an operator    *)
(* may generate a site or write to the database.                           *)
(***************************************************************************)
EXTENDS SiteSwap, Archive

CONSTANTS
  Pipeline,   \* the process of the pipeline
  Shown(_)    \* what the summary of a database state shows: heights, tip and counts

\* No tip comes back; a commit may change nothing that the summary shows.
ASSUME ReleaseAssumption ==
  /\ Pipeline \in Procs
  /\ \A v, w \in Version : Shown(v) \in Nat /\ (v <= w => Shown(v) <= Shown(w))

VARIABLES
  pc,        \* step of the pipeline
  read,      \* database state validate-release has read
  alone,     \* auxiliary: no other generation since this pipeline began its own
  file,      \* state in the main database file, without its write-ahead log
  site,      \* the published site, by its pages; None while it is replaced
  incoming,  \* the lookup database copied as .new
  lookup,    \* the lookup database in place
  up         \* is the lookup service running

webVars == <<site, incoming, lookup, up>>
vars == <<swapVars, archives, pc, read, alone, file, webVars>>

-----------------------------------------------------------------------------
(* Update, generate, verify, archive *)

\* A bootstrap, or reorg-check and incremental catch-up, when they succeed; the last
\* connection to close writes the log back.
Update ==
  /\ pc = "idle" /\ gen[Pipeline].step = "idle"
  /\ pc' = "generate"
  /\ db' = db \/ (db < MaxVersion /\ db' = db + 1)
  /\ file' = db'
  /\ alone' = \A p \in Procs : gen[p].step = "idle"
  /\ UNCHANGED <<public, gen, left, archives, read, webVars>>

Generate ==
  /\ pc = "generate"
  /\ ReadSummary(Pipeline) \/ ReadPages(Pipeline) \/ Replace(Pipeline)
  /\ UNCHANGED <<archives, pc, read, alone, file, webVars>>

\* Mutant: the pipeline does not wait for its end.
GenerateEndsEarly ==
  /\ pc = "generate" /\ gen[Pipeline].step # "idle"
  /\ pc' = "verify"
  /\ UNCHANGED <<swapVars, archives, read, alone, file, webVars>>

GenerateEnds ==
  /\ pc = "generate"
  /\ \/ gen[Pipeline].step = "done" /\ pc' = "verify"
     \/ gen[Pipeline].step = "failed" /\ pc' = "idle"
  /\ End(Pipeline, "idle")
  /\ UNCHANGED <<db, public, left, archives, read, alone, file, webVars>>

\* validate_release reads the database, then the public tree.
VerifyDatabase ==
  /\ pc = "verify"
  /\ pc' = "compare" /\ read' = db
  /\ UNCHANGED <<swapVars, archives, alone, file, webVars>>

\* summary_matches_database and manifest_snapshot
Matches == public # None /\ Shown(public.summary) = Shown(read)

VerifyPublic ==
  /\ pc = "compare"
  /\ pc' = IF Matches THEN "archive" ELSE "idle"
  /\ read' = None
  /\ UNCHANGED <<swapVars, archives, alone, file, webVars>>

-----------------------------------------------------------------------------
(* Archive: scripts/archive-release.sh *)

\* RUN_ARCHIVE=0
SkipArchive ==
  /\ pc = "archive"
  /\ pc' = "publish"
  /\ UNCHANGED <<swapVars, archives, read, alone, file, webVars>>

\* _tar_public and gzip_sqlite write files of new names, which count once the
\* manifest names them.
TarSite ==
  /\ pc = "archive" /\ Len(archives) < MaxArchives
  /\ pc' = IF public = None THEN "idle" ELSE "backup"
  /\ UNCHANGED <<swapVars, archives, read, alone, file, webVars>>

BackupDatabase ==
  /\ pc = "backup"
  /\ pc' = "manifest"
  /\ UNCHANGED <<swapVars, archives, read, alone, file, webVars>>

WriteManifest ==
  /\ pc = "manifest"
  /\ pc' = "prune"
  /\ AddManifest("whole")
  /\ UNCHANGED <<swapVars, read, alone, file, webVars>>

Prune ==
  /\ pc = "prune"
  /\ \/ RemoveFile /\ UNCHANGED pc
     \/ Excess = {} /\ pc' = "check" /\ UNCHANGED archives
  /\ UNCHANGED <<swapVars, read, alone, file, webVars>>

\* validate-archive of the archive just written, after the pruning.  It also
\* counts the backup's names, which differ from the manifest's when another
\* command has committed in between: see KillPipeline.
ValidateArchive ==
  /\ pc = "check"
  /\ pc' = IF archives # <<>> /\ archives[Len(archives)] = "whole" THEN "publish" ELSE "idle"
  /\ UNCHANGED <<swapVars, archives, read, alone, file, webVars>>

-----------------------------------------------------------------------------
(* Publish *)

\* validate-public compares the site with its own summary.
ValidatePublic ==
  /\ pc = "publish"
  /\ pc' = IF public = None THEN "idle" ELSE "sync"
  /\ UNCHANGED <<swapVars, archives, read, alone, file, webVars>>

\* rsync puts the files in place one by one, from whatever tree is there.
SyncSite ==
  /\ pc = "sync"
  /\ pc' = IF public = None THEN "idle" ELSE "synced"
  /\ site' = IF public = None THEN site ELSE None
  /\ UNCHANGED <<swapVars, archives, read, alone, file, incoming, lookup, up>>

SiteSynced ==
  /\ pc = "synced"
  /\ \/ public = None /\ pc' = "idle" /\ UNCHANGED site
     \/ public # None /\ pc' = "lookup" /\ site' = public.pages
  /\ UNCHANGED <<swapVars, archives, read, alone, file, incoming, lookup, up>>

CopyLookup ==
  /\ pc = "lookup"
  /\ pc' = "stop" /\ incoming' = file
  /\ UNCHANGED <<swapVars, archives, read, alone, file, site, lookup, up>>

StopLookup ==
  /\ pc = "stop"
  /\ pc' = "move" /\ up' = FALSE
  /\ UNCHANGED <<swapVars, archives, read, alone, file, site, incoming, lookup>>

\* mv, then the log and shared memory of the old database are removed.
MoveLookup ==
  /\ pc = "move"
  /\ pc' = "start" /\ lookup' = incoming /\ incoming' = None
  /\ UNCHANGED <<swapVars, archives, read, alone, file, site, up>>

\* Mutant: the service is left as it was found.
StartLookupIfUp ==
  /\ pc = "start"
  /\ pc' = "idle"
  /\ UNCHANGED <<swapVars, archives, read, alone, file, webVars>>

StartLookup ==
  /\ pc = "start"
  /\ pc' = "idle" /\ up' = TRUE
  /\ UNCHANGED <<swapVars, archives, read, alone, file, site, incoming, lookup>>

-----------------------------------------------------------------------------
(* Kills, failures and commands by hand *)

\* A kill, or a command that fails for a reason of its own.  A .new file that
\* stays behind is overwritten by the next copy.
KillPipeline ==
  /\ pc # "idle"
  /\ pc' = "idle" /\ read' = None /\ incoming' = None
  /\ \/ gen[Pipeline].step = "idle" /\ UNCHANGED swapVars
     \/ Killed(Pipeline)
  /\ \/ UNCHANGED archives
     \/ pc = "manifest" /\ AddManifest("torn")
  /\ UNCHANGED <<alone, file, site, lookup, up>>

GenerateFails ==
  /\ PlaceFails(Pipeline) \/ CleanFails(Pipeline)
  /\ UNCHANGED <<archives, pc, read, alone, file, webVars>>

ByHand(p) ==
  /\ p # Pipeline
  /\ \/ ReadSummary(p) \/ ReadPages(p) \/ Replace(p) \/ PlaceFails(p) \/ CleanFails(p) \/ Killed(p)
     \/ /\ gen[p].step \in {"done", "failed"} /\ End(p, "idle")
        /\ UNCHANGED <<db, public, left>>
  /\ alone' = FALSE
  /\ UNCHANGED <<archives, pc, read, file, webVars>>

\* The log is written back when the operator's command closes the database, if
\* no other has it open and it is not killed.
CommitByHand ==
  /\ db < MaxVersion
  /\ db' = db + 1
  /\ file' = file \/ file' = db'
  /\ UNCHANGED <<public, gen, left, archives, pc, read, alone, webVars>>

-----------------------------------------------------------------------------
Init ==
  /\ SwapInit
  /\ archives = <<"whole">>
  /\ pc = "idle" /\ read = None /\ alone = FALSE
  /\ file = db
  /\ site = 1 /\ incoming = None /\ lookup = 1 /\ up = TRUE

PipelineStep ==
  \/ Update \/ Generate \/ GenerateEnds \/ VerifyDatabase \/ VerifyPublic
  \/ SkipArchive \/ TarSite \/ BackupDatabase \/ WriteManifest \/ Prune \/ ValidateArchive
  \/ ValidatePublic \/ SyncSite \/ SiteSynced \/ CopyLookup \/ StopLookup \/ MoveLookup
  \/ StartLookup

Disturbance == KillPipeline \/ GenerateFails \/ CommitByHand \/ \E p \in Procs : ByHand(p)

Next == PipelineStep \/ Disturbance

\* The timer runs the pipeline again and again.
Fairness == WF_vars(PipelineStep)

Spec == Init /\ [][Next]_vars /\ Fairness

-----------------------------------------------------------------------------
(* Properties *)

TypeOK ==
  /\ SwapTypeOK /\ ArchiveTypeOK
  /\ pc \in {"idle", "generate", "verify", "compare", "archive", "backup", "manifest", "prune",
             "check", "publish", "sync", "synced", "lookup", "stop", "move", "start"}
  /\ read \in Version \cup {None}
  /\ file \in 1..db
  /\ site \in 1..db \cup {None} /\ incoming \in 1..db \cup {None} /\ lookup \in 1..db \cup {None}
  /\ up \in BOOLEAN /\ alone \in BOOLEAN
  /\ pc # "generate" => gen[Pipeline].step = "idle"

Verified == {"archive", "backup", "manifest", "prune", "check", "publish", "sync", "synced",
             "lookup", "stop", "move", "start"}

\* What validate-release has passed is of one tip and one set of names, although
\* every file of the tree was read by a query of its own and others may commit at
\* any time: the summary is read first and compared with the database last.
VerifiedIsOneSnapshot ==
  pc \in Verified /\ alone => public # None /\ Shown(public.summary) = Shown(public.pages)

\* "pruning to ARCHIVE_KEEP manifests" (docs/DEPLOYMENT.md): an archive run that
\* comes to its end leaves no more, also those whose pruning or whose manifest
\* was cut in an earlier one.
PrunedToKeep ==
  pc = "check" /\ Keep > 0 => Len(archives) <= Keep

\* When kills and commands by hand stop, every run ends with the latest state
\* on the indexer, on the web site and behind a running lookup service, whatever
\* a kill has left behind.
ReleaseRecovers ==
  <>[][PipelineStep]_vars =>
    []<>(public # None /\ public.pages = db /\ site = db /\ lookup = db /\ up)
=============================================================================
