---------------------------- MODULE ReleaseProofs ----------------------------
(***************************************************************************)
(* The safety properties of Release for every number of processes, of      *)
(* commits and of archives kept.                                           *)
(***************************************************************************)
EXTENDS Release, TLAPS

\* A tree's pages are read after its summary, and nothing is read from the future.
Ordered(t) == t # None => t.summary <= t.pages /\ t.pages <= db

TreesOrdered ==
  /\ Ordered(public)
  /\ \A p \in Procs : Ordered(gen[p].tree) /\ Ordered(gen[p].backup)

\* validate-release compares with a state no older than the pages of a tree that
\* nobody else has touched.
ReadIsLater ==
  pc = "compare" => /\ read \in Version
                    /\ alone /\ public # None => public.pages <= read

\* An archive run has written its manifest before it prunes or validates.
NewestIsWhole ==
  pc \in {"prune", "check"} => archives # <<>> /\ archives[Len(archives)] = "whole"

IInv ==
  /\ TypeOK /\ TreesOrdered /\ ReadIsLater /\ NewestIsWhole
  /\ SiteNotLost /\ VerifiedIsOneSnapshot /\ ArchiveSurvives /\ PrunedToKeep

-----------------------------------------------------------------------------
(* Swapping trees *)

SwapInv == SwapTypeOK /\ TreesOrdered /\ SiteNotLost

SwapStep(p) ==
  \/ ReadSummary(p) \/ ReadPages(p) \/ Replace(p)
  \/ PlaceFails(p) \/ CleanFails(p) \/ Killed(p)
  \/ gen[p].step \in {"done", "failed"} /\ End(p, "idle") /\ UNCHANGED <<db, public, left>>

\* A step of one process leaves every tree well ordered, and one that takes the
\* tree in place away holds on to it.
LEMMA SwapStepInv ==
  ASSUME SwapInv, NEW p \in Procs, SwapStep(p)
  PROVE  SwapInv'
  <1> USE SwapAssumption DEF SwapInv
  <1> DEFINE Entry == [step : Steps, tree : Tree \cup {None}, backup : Tree \cup {None}]
  <1>0. /\ gen \in [Procs -> Entry] /\ gen[p] \in Entry
        /\ db \in Version /\ public \in Tree \cup {None} /\ left \in BOOLEAN
    BY DEF SwapTypeOK
  <1>1. CASE ReadSummary(p)
    <2>1. [summary |-> db, pages |-> db] \in Tree
      BY <1>0 DEF Tree
    <2>2. SwapTypeOK'
      BY <1>0, <1>1, <2>1 DEF SwapTypeOK, ReadSummary, Steps
    <2>3. TreesOrdered'
      BY <1>0, <1>1 DEF TreesOrdered, Ordered, ReadSummary, Version, SwapTypeOK
    <2>4. SiteNotLost'
      BY <1>0, <1>1 DEF SiteNotLost, ReadSummary, SwapTypeOK
    <2> QED
      BY <2>2, <2>3, <2>4
  <1>2. CASE ReadPages(p)
    <2>1. gen[p].tree \in Tree
      BY <1>0, <1>2 DEF ReadPages, SwapTypeOK
    <2> DEFINE t == [summary |-> gen[p].tree.summary, pages |-> db]
    <2>2. /\ t \in Tree /\ t # None /\ t.pages = db /\ t.summary = gen[p].tree.summary
          /\ gen[p].tree.summary <= db /\ db <= db
      BY <1>0, <1>2, <2>1 DEF Tree, TreesOrdered, Ordered, Version
    <2>3. gen[p].backup = None
      BY <1>0, <1>2 DEF SwapTypeOK, ReadPages
    <2>a. /\ gen' = [gen EXCEPT ![p] = [step |-> "staged", tree |-> t, backup |-> None]]
          /\ UNCHANGED <<db, public, left>>
      BY <1>0, <1>2 DEF ReadPages
    <2> HIDE DEF t
    <2>4. SwapTypeOK'
      BY <1>0, <2>2, <2>3, <2>a DEF SwapTypeOK, Steps
    <2>5. TreesOrdered'
      BY <1>0, <2>2, <2>3, <2>a DEF TreesOrdered, Ordered
    <2>6. SiteNotLost'
      BY <1>0, <2>3, <2>a DEF SiteNotLost
    <2> QED
      BY <2>4, <2>5, <2>6
  <1>3. CASE LookAtOut(p)
    <2>1. SwapTypeOK'
      BY <1>0, <1>3 DEF SwapTypeOK, LookAtOut, SetStep, Steps
    <2>2. TreesOrdered'
      BY <1>0, <1>3 DEF TreesOrdered, Ordered, LookAtOut, SetStep
    <2>3. SiteNotLost'
      BY <1>0, <1>3 DEF SiteNotLost, LookAtOut, SetStep
    <2> QED
      BY <2>1, <2>2, <2>3
  <1>4. CASE MoveAside(p)
    <2>1. SwapTypeOK'
      BY <1>0, <1>4 DEF SwapTypeOK, MoveAside, End, Idle, Steps
    <2>2. TreesOrdered'
      BY <1>0, <1>4 DEF TreesOrdered, Ordered, MoveAside, End, Idle
    <2>3. SiteNotLost'
      BY <1>0, <1>4 DEF SiteNotLost, MoveAside, End, Idle, SwapTypeOK
    <2> QED
      BY <2>1, <2>2, <2>3
  <1>5. CASE Place(p)
    <2>1. SwapTypeOK'
      BY <1>0, <1>5 DEF SwapTypeOK, Place, SetStep, End, Idle, Steps
    <2>2. TreesOrdered'
      BY <1>0, <1>5 DEF TreesOrdered, Ordered, Place, SetStep, End, Idle
    <2>3. SiteNotLost'
      BY <1>0, <1>5 DEF SiteNotLost, Place, SetStep, End, Idle, SwapTypeOK
    <2> QED
      BY <2>1, <2>2, <2>3
  <1>6. CASE PlaceFails(p)
    <2>1. SwapTypeOK'
      BY <1>0, <1>6 DEF SwapTypeOK, PlaceFails, SetStep, Steps
    <2>2. TreesOrdered'
      BY <1>0, <1>6 DEF TreesOrdered, Ordered, PlaceFails, SetStep
    <2>3. SiteNotLost'
      BY <1>0, <1>6 DEF SiteNotLost, PlaceFails, SetStep
    <2> QED
      BY <2>1, <2>2, <2>3
  <1>7. CASE Restore(p)
    <2>1. SwapTypeOK'
      BY <1>0, <1>7 DEF SwapTypeOK, Restore, End, Idle, Steps
    <2>2. TreesOrdered'
      BY <1>0, <1>7 DEF TreesOrdered, Ordered, Restore, End, Idle
    <2>3. SiteNotLost'
      BY <1>0, <1>7 DEF SiteNotLost, Restore, End, Idle
    <2> QED
      BY <2>1, <2>2, <2>3
  <1>8. CASE Clean(p) \/ CleanFails(p)
            \/ (gen[p].step \in {"done", "failed"} /\ End(p, "idle") /\ UNCHANGED <<db, public, left>>)
    <2>1. SwapTypeOK'
      BY <1>0, <1>8 DEF SwapTypeOK, Clean, CleanFails, End, Idle, Steps
    <2>2. TreesOrdered'
      BY <1>0, <1>8 DEF TreesOrdered, Ordered, Clean, CleanFails, End, Idle
    <2>3. SiteNotLost'
      BY <1>0, <1>8 DEF SiteNotLost, Clean, CleanFails, End, Idle, SwapTypeOK
    <2> QED
      BY <2>1, <2>2, <2>3
  <1>9. CASE Killed(p)
    <2>1. SwapTypeOK'
      BY <1>0, <1>9 DEF SwapTypeOK, Killed, End, Idle, Steps
    <2>2. TreesOrdered'
      BY <1>0, <1>9 DEF TreesOrdered, Ordered, Killed, End, Idle
    <2>3. SiteNotLost'
      BY <1>0, <1>9 DEF SiteNotLost, Killed, End, Idle
    <2> QED
      BY <2>1, <2>2, <2>3
  <1> QED
    BY <1>1, <1>2, <1>3, <1>4, <1>5, <1>6, <1>7, <1>8, <1>9 DEF SwapStep, Replace

-----------------------------------------------------------------------------
\* The initial state satisfies the invariant.
LEMMA InitIInv == Init => IInv
  <1> SUFFICES ASSUME Init PROVE IInv
    OBVIOUS
  <1> USE SwapAssumption, ReleaseAssumption, ArchiveAssumption DEF Init, SwapInit
  <1>1. TypeOK
    <2>1. /\ db \in Version /\ public \in Tree /\ 1 \in 1..db
      BY DEF Version, Tree
    <2>2. SwapTypeOK
      BY <2>1 DEF SwapTypeOK, Idle, Steps
    <2>3. ArchiveTypeOK
      BY DEF ArchiveTypeOK, Archives
    <2>4. pc # "generate" => gen[Pipeline].step = "idle"
      BY DEF Idle
    <2> QED
      BY <2>1, <2>2, <2>3, <2>4 DEF TypeOK
  <1>2. TreesOrdered /\ SiteNotLost
    BY DEF TreesOrdered, Ordered, SiteNotLost, Version, Tree, Idle
  <1>3. ReadIsLater /\ NewestIsWhole /\ VerifiedIsOneSnapshot /\ ArchiveSurvives /\ PrunedToKeep
    BY DEF ReadIsLater, NewestIsWhole, VerifiedIsOneSnapshot, Verified, ArchiveSurvives, PrunedToKeep
  <1> QED
    BY <1>1, <1>2, <1>3 DEF IInv

-----------------------------------------------------------------------------
(* The archive directory *)

\* Pruning leaves the newest Keep archives alone, or everything if Keep is 0.
LEMMA RemoveFileKeepsNewest ==
  ASSUME ArchiveTypeOK, archives # <<>>, archives[Len(archives)] = "whole", RemoveFile
  PROVE  /\ ArchiveTypeOK'
         /\ archives' # <<>> /\ archives'[Len(archives')] = "whole"
  <1> USE ArchiveAssumption DEF ArchiveTypeOK
  <1> DEFINE n == Len(archives)
  <1>1. PICK i \in Excess :
          \/ archives[i] = "whole" /\ archives' = [archives EXCEPT ![i] = "cut"]
          \/ archives' = [j \in 1..(n - 1) |-> archives[IF j < i THEN j ELSE j + 1]]
    BY DEF RemoveFile
  <1>2. n \in Nat /\ i \in 1..n /\ i < n /\ archives \in [1..n -> Archives]
    BY DEF Excess
  <1>3. CASE archives' = [archives EXCEPT ![i] = "cut"]
    <2>1. archives' \in [1..n -> Archives]
      BY <1>2, <1>3 DEF Archives
    <2>2. archives' \in Seq(Archives) /\ Len(archives') = n
      BY <1>2, <2>1
    <2> HIDE DEF n
    <2>a. n \in DOMAIN archives /\ n # i
      BY <1>2
    <2>3. archives'[n] = archives[n]
      BY <1>3, <2>a
    <2> USE DEF n
    <2> QED
      BY <1>2, <2>2, <2>3
  <1>4. CASE archives' = [j \in 1..(n - 1) |-> archives[IF j < i THEN j ELSE j + 1]]
    <2>1. \A j \in 1..(n - 1) : archives[IF j < i THEN j ELSE j + 1] \in Archives
      BY <1>2
    <2>2. archives' \in Seq(Archives) /\ Len(archives') = n - 1
      BY <1>2, <1>4, <2>1
    <2>3. archives'[n - 1] = archives[n]
      BY <1>2, <1>4
    <2> QED
      BY <1>2, <2>2, <2>3
  <1> QED
    BY <1>1, <1>3, <1>4

\* A new archive directory comes after all the others.
LEMMA AddManifestAppends ==
  ASSUME ArchiveTypeOK, NEW state \in Archives, AddManifest(state)
  PROVE  /\ ArchiveTypeOK' /\ archives' # <<>> /\ archives'[Len(archives')] = state
         /\ ArchiveSurvives => ArchiveSurvives'
  BY DEF ArchiveTypeOK, AddManifest, ArchiveSurvives

-----------------------------------------------------------------------------
(* Steps of a release *)

\* What IInv says of the pipeline beside its trees.
PipeTypeOK ==
  /\ pc \in {"idle", "generate", "verify", "compare", "archive", "backup", "manifest", "prune",
             "check", "publish", "sync", "synced", "lookup", "stop", "move", "start"}
  /\ read \in Version \cup {None}
  /\ file \in 1..db
  /\ site \in 1..db \cup {None} /\ incoming \in 1..db \cup {None} /\ lookup \in 1..db \cup {None}
  /\ up \in BOOLEAN /\ alone \in BOOLEAN
  /\ pc # "generate" => gen[Pipeline].step = "idle"

PipeInv == PipeTypeOK /\ ReadIsLater /\ VerifiedIsOneSnapshot

ArchiveInv == ArchiveTypeOK /\ NewestIsWhole /\ ArchiveSurvives /\ PrunedToKeep

\* The invariant by the part of the system it is about.
LEMMA IInvParts == IInv <=> SwapInv /\ PipeInv /\ ArchiveInv
  BY DEF IInv, TypeOK, SwapInv, PipeInv, PipeTypeOK, ArchiveInv

\* Trees: only the two kinds of commits change them otherwise than by SwapStep.
LEMMA NextSwapInv ==
  ASSUME IInv, [Next]_vars
  PROVE  SwapInv'
  <1> USE ReleaseAssumption
  <1>0. SwapInv
    BY IInvParts
  <1>1. CASE \E p \in Procs : SwapStep(p)
    BY <1>0, <1>1, SwapStepInv
  <1>2. CASE UNCHANGED swapVars
    BY <1>0, <1>2 DEF swapVars, SwapInv, SwapTypeOK, TreesOrdered, Ordered, SiteNotLost
  <1>3. CASE (db' = db \/ (db < MaxVersion /\ db' = db + 1)) /\ UNCHANGED <<public, gen, left>>
    <2>1. db' \in Version /\ db <= db' /\ db \in Version
      BY <1>0, <1>3, SwapAssumption DEF SwapInv, SwapTypeOK, Version
    <2>2. SwapTypeOK' /\ SiteNotLost'
      BY <1>0, <1>3, <2>1 DEF SwapInv, SwapTypeOK, SiteNotLost
    <2>3. \A t \in Tree \cup {None} : Ordered(t) => (t # None => t.summary <= t.pages /\ t.pages <= db')
      BY <2>1 DEF Ordered, Tree, Version
    <2>4. TreesOrdered'
      BY <1>0, <1>3, <2>3 DEF SwapInv, SwapTypeOK, TreesOrdered, Ordered
    <2> QED
      BY <2>2, <2>4 DEF SwapInv
  <1>4. UNCHANGED swapVars \/ (\E p \in Procs : SwapStep(p))
          \/ ((db' = db \/ (db < MaxVersion /\ db' = db + 1)) /\ UNCHANGED <<public, gen, left>>)
    <2>1. CASE Update \/ CommitByHand
      BY <2>1 DEF Update, CommitByHand
    <2>2. CASE Generate \/ GenerateFails
      BY <2>2 DEF Generate, GenerateFails, SwapStep
    <2>3. CASE GenerateEnds
      BY <2>3 DEF GenerateEnds, SwapStep
    <2>4. CASE KillPipeline
      BY <2>4 DEF KillPipeline, SwapStep
    <2>5. CASE \E p \in Procs : ByHand(p)
      BY <2>5 DEF ByHand, SwapStep
    <2>6. CASE UNCHANGED vars
      BY <2>6 DEF vars
    <2>7. CASE PipelineStep /\ ~(Update \/ Generate \/ GenerateEnds)
      BY <2>7 DEF PipelineStep, VerifyDatabase, VerifyPublic, SkipArchive, TarSite, BackupDatabase,
                  WriteManifest, Prune, ValidateArchive, ValidatePublic, SyncSite, SiteSynced,
                  CopyLookup, StopLookup, MoveLookup, StartLookup
    <2> QED
      BY <2>1, <2>2, <2>3, <2>4, <2>5, <2>6, <2>7 DEF Next, Disturbance
  <1> QED
    BY <1>1, <1>2, <1>3, <1>4

\* Archives: only writing a manifest and pruning touch them, and the pipeline
\* prunes down to Keep before it goes on.
LEMMA NextArchiveInv ==
  ASSUME IInv, [Next]_vars
  PROVE  ArchiveInv'
  <1> USE ArchiveAssumption
  <1>0. ArchiveInv /\ PipeTypeOK
    BY IInvParts DEF PipeInv
  <1>1. CASE WriteManifest
    BY <1>0, <1>1, AddManifestAppends
       DEF ArchiveInv, WriteManifest, Archives, NewestIsWhole, PrunedToKeep
  <1>2. CASE pc = "prune" /\ RemoveFile /\ UNCHANGED pc
    <2>1. ArchiveTypeOK' /\ archives' # <<>> /\ archives'[Len(archives')] = "whole"
      BY <1>0, <1>2, RemoveFileKeepsNewest DEF ArchiveInv, NewestIsWhole
    <2>2. ArchiveSurvives'
      BY <2>1 DEF ArchiveTypeOK, ArchiveSurvives
    <2> QED
      BY <1>2, <2>1, <2>2 DEF ArchiveInv, NewestIsWhole, PrunedToKeep
  <1>3. CASE pc = "prune" /\ Excess = {} /\ pc' = "check" /\ UNCHANGED archives
    <2>1. Len(archives) \in Nat /\ DOMAIN archives = 1..Len(archives)
      BY <1>0 DEF ArchiveInv, ArchiveTypeOK
    <2>2. Keep > 0 /\ Len(archives) > Keep => 1 \in Excess
      BY <2>1 DEF Excess
    <2>3. PrunedToKeep'
      BY <1>3, <2>1, <2>2 DEF PrunedToKeep
    <2> QED
      BY <1>0, <1>3, <2>3 DEF ArchiveInv, ArchiveTypeOK, NewestIsWhole, ArchiveSurvives
  <1>4. CASE pc' = "idle" /\ AddManifest("torn")
    BY <1>0, <1>4, AddManifestAppends DEF ArchiveInv, Archives, NewestIsWhole, PrunedToKeep
  <1>5. CASE UNCHANGED archives /\ (pc' = pc \/ pc' \notin {"prune", "check"})
    BY <1>0, <1>5 DEF ArchiveInv, ArchiveTypeOK, NewestIsWhole, ArchiveSurvives, PrunedToKeep
  <1>6. \/ WriteManifest
        \/ pc = "prune" /\ RemoveFile /\ UNCHANGED pc
        \/ pc = "prune" /\ Excess = {} /\ pc' = "check" /\ UNCHANGED archives
        \/ pc' = "idle" /\ AddManifest("torn")
        \/ UNCHANGED archives /\ (pc' = pc \/ pc' \notin {"prune", "check"})
    <2>1. CASE Prune
      BY <2>1 DEF Prune
    <2>2. CASE KillPipeline
      BY <2>2 DEF KillPipeline
    <2>3. CASE PipelineStep /\ ~Prune /\ ~WriteManifest
      BY <2>3 DEF PipelineStep, Update, Generate, GenerateEnds, VerifyDatabase, VerifyPublic,
                  SkipArchive, TarSite, BackupDatabase, ValidateArchive, ValidatePublic, SyncSite,
                  SiteSynced, CopyLookup, StopLookup, MoveLookup, StartLookup
    <2>4. CASE CommitByHand \/ GenerateFails \/ (\E p \in Procs : ByHand(p)) \/ UNCHANGED vars
      BY <2>4 DEF CommitByHand, GenerateFails, ByHand, vars
    <2> QED
      BY <2>1, <2>2, <2>3, <2>4 DEF Next, Disturbance
  <1> QED
    BY <1>1, <1>2, <1>3, <1>4, <1>5, <1>6

-----------------------------------------------------------------------------
(* The pipeline *)

\* Nobody but the pipeline itself has touched the public tree since it began.
LEMMA AloneLeavesPublic ==
  ASSUME IInv, [Next]_vars, alone', pc' \in {"compare"} \cup Verified
  PROVE  UNCHANGED public /\ alone
  <1> USE ReleaseAssumption
  <1>0. PipeTypeOK
    BY IInvParts DEF PipeInv
  <1>1. CASE PipelineStep
    <2>1. CASE Update \/ Generate \/ GenerateEnds \/ VerifyDatabase \/ VerifyPublic \/ SkipArchive
      BY <1>0, <2>1 DEF PipeTypeOK, Verified, Update, Generate, GenerateEnds, VerifyDatabase,
                        VerifyPublic, SkipArchive, swapVars
    <2>2. CASE TarSite \/ BackupDatabase \/ WriteManifest \/ Prune \/ ValidateArchive \/ ValidatePublic
      BY <1>0, <2>2 DEF PipeTypeOK, Verified, TarSite, BackupDatabase, WriteManifest, Prune,
                        ValidateArchive, ValidatePublic, swapVars
    <2>3. CASE SyncSite \/ SiteSynced \/ CopyLookup \/ StopLookup \/ MoveLookup \/ StartLookup
      BY <1>0, <2>3 DEF PipeTypeOK, Verified, SyncSite, SiteSynced, CopyLookup, StopLookup,
                        MoveLookup, StartLookup, swapVars
    <2> QED BY <1>1, <2>1, <2>2, <2>3, Zenon DEF PipelineStep
  <1>2. CASE Disturbance
    BY <1>0, <1>2
       DEF Disturbance, PipeTypeOK, Verified, KillPipeline, GenerateFails, CommitByHand, ByHand,
           PlaceFails, CleanFails
  <1>3. CASE UNCHANGED vars
    BY <1>3 DEF vars, swapVars
  <1> QED
    BY <1>1, <1>2, <1>3 DEF Next

\* "compare" is entered with the state of the database at that moment, and left
\* for "archive" only with a summary of that state.
LEMMA NextSnapshot ==
  ASSUME IInv, [Next]_vars
  PROVE  ReadIsLater' /\ VerifiedIsOneSnapshot'
  <1> USE ReleaseAssumption, SwapAssumption
  <1>0. SwapInv /\ PipeInv
    BY IInvParts
  <1>a. /\ db \in Version /\ public \in Tree \cup {None}
        /\ public # None => /\ public.summary \in Nat /\ public.pages \in Nat
                            /\ public.summary <= public.pages /\ public.pages <= db
    BY <1>0 DEF SwapInv, SwapTypeOK, TreesOrdered, Ordered, Tree, Version
  <1>1. CASE VerifyDatabase
    BY <1>a, <1>1 DEF VerifyDatabase, ReadIsLater, VerifiedIsOneSnapshot, Verified, swapVars
  <1>2. CASE VerifyPublic
    <2>1. ReadIsLater'
      BY <1>2 DEF VerifyPublic, ReadIsLater
    <2>2. ASSUME pc' \in Verified, alone'
          PROVE  public' # None /\ Shown(public'.summary) = Shown(public'.pages)
      <3>1. pc = "compare" /\ Matches /\ alone /\ public' = public
        BY <1>2, <2>2 DEF VerifyPublic, Verified, swapVars
      <3>2. /\ public # None /\ Shown(public.summary) = Shown(read) /\ read \in Version
            /\ public.summary <= public.pages /\ public.pages <= read
            /\ public.summary \in Version /\ public.pages \in Version
        BY <1>0, <1>a, <3>1 DEF Matches, PipeInv, ReadIsLater, Tree
      <3>3. /\ Shown(public.summary) <= Shown(public.pages) /\ Shown(public.pages) <= Shown(read)
            /\ Shown(public.summary) \in Nat /\ Shown(public.pages) \in Nat
        BY <3>2
      <3> QED
        BY <3>1, <3>2, <3>3
    <2> QED
      BY <2>1, <2>2 DEF VerifiedIsOneSnapshot
  <1>3. CASE ~VerifyDatabase /\ ~VerifyPublic
    <2>1. /\ pc' = "compare" => pc = "compare" /\ read' = read
          /\ pc' \in Verified => pc \in Verified
      <3>1. CASE PipelineStep
        BY <1>0, <1>3, <3>1
           DEF PipelineStep, Verified, Update, Generate, GenerateEnds, SkipArchive, TarSite,
               BackupDatabase, WriteManifest, Prune, ValidateArchive, ValidatePublic, SyncSite,
               SiteSynced, CopyLookup, StopLookup, MoveLookup, StartLookup
      <3>2. CASE Disturbance \/ UNCHANGED vars
        BY <3>2 DEF Disturbance, Verified, KillPipeline, GenerateFails, CommitByHand, ByHand, vars
      <3> QED
        BY <3>1, <3>2 DEF Next
    <2>2. ReadIsLater'
      BY <1>0, <2>1, AloneLeavesPublic DEF PipeInv, ReadIsLater
    <2>3. VerifiedIsOneSnapshot'
      BY <1>0, <2>1, AloneLeavesPublic DEF PipeInv, VerifiedIsOneSnapshot
    <2> QED
      BY <2>2, <2>3
  <1> QED
    BY <1>1, <1>2, <1>3

\* Every step leaves the pipeline, the files it serves and the archive run typed.
LEMMA NextPipeTypeOK ==
  ASSUME IInv, [Next]_vars
  PROVE  PipeTypeOK'
  <1> USE ReleaseAssumption, SwapAssumption
  <1>0. SwapInv /\ PipeTypeOK
    BY IInvParts DEF PipeInv
  <1>a. /\ db \in Version /\ gen \in [Procs -> [step : Steps, tree : Tree \cup {None},
                                               backup : Tree \cup {None}]]
        /\ public # None => public.pages \in 1..db
    BY <1>0 DEF SwapInv, SwapTypeOK, TreesOrdered, Ordered, Tree, Version
  <1>1. CASE Update
    BY <1>0, <1>a, <1>1 DEF Update, PipeTypeOK, webVars, Version
  <1>2. CASE Generate
    BY <1>0, <1>2 DEF Generate, PipeTypeOK, webVars, ReadSummary, ReadPages, Replace, LookAtOut,
                      MoveAside, Place, Restore, Clean
  <1>3. CASE GenerateEnds
    BY <1>0, <1>a, <1>3 DEF GenerateEnds, PipeTypeOK, webVars, End, Idle
  <1>4. CASE PipelineStep /\ ~Update /\ ~Generate /\ ~GenerateEnds
    BY <1>0, <1>a, <1>4
       DEF PipelineStep, PipeTypeOK, VerifyDatabase, VerifyPublic, SkipArchive, TarSite,
           BackupDatabase, WriteManifest, Prune, ValidateArchive, ValidatePublic, SyncSite,
           SiteSynced, CopyLookup, StopLookup, MoveLookup, StartLookup, swapVars, webVars
  <1>5. CASE KillPipeline
    BY <1>0, <1>a, <1>5 DEF KillPipeline, PipeTypeOK, Killed, End, Idle, swapVars
  <1>6. CASE GenerateFails
    BY <1>0, <1>a, <1>6 DEF GenerateFails, PipeTypeOK, PlaceFails, CleanFails, webVars
  <1>7. CASE CommitByHand
    BY <1>0, <1>a, <1>7 DEF CommitByHand, PipeTypeOK, webVars, Version
  <1>8. ASSUME NEW p \in Procs, ByHand(p) PROVE PipeTypeOK'
    <2>1. UNCHANGED <<db, pc, read, file, webVars>> /\ alone' = FALSE
      BY <1>8 DEF ByHand, ReadSummary, ReadPages, Replace, LookAtOut, MoveAside, Place, Restore,
                  Clean, PlaceFails, CleanFails, Killed
    <2>2. gen'[Pipeline] = gen[Pipeline]
      BY <1>a, <1>8 DEF ByHand, ReadSummary, ReadPages, Replace, LookAtOut, MoveAside, Place,
                        Restore, Clean, PlaceFails, CleanFails, Killed, SetStep, End
    <2> QED
      BY <1>0, <2>1, <2>2 DEF PipeTypeOK, webVars
  <1>9. CASE UNCHANGED vars
    BY <1>0, <1>9 DEF vars, swapVars, webVars, PipeTypeOK
  <1> QED
    BY <1>1, <1>2, <1>3, <1>4, <1>5, <1>6, <1>7, <1>8, <1>9 DEF Next, Disturbance

\* Every step keeps the invariant.
LEMMA NextIInv == IInv /\ [Next]_vars => IInv'
  <1> SUFFICES ASSUME IInv, [Next]_vars PROVE IInv'
    OBVIOUS
  <1>1. SwapInv' /\ ArchiveInv' /\ PipeInv'
    BY NextSwapInv, NextArchiveInv, NextPipeTypeOK, NextSnapshot DEF PipeInv
  <1> QED
    BY <1>1 DEF IInv, TypeOK, SwapInv, PipeInv, PipeTypeOK, ArchiveInv

\* The invariant holds in every state.
LEMMA Invariance == Spec => []IInv
  BY InitIInv, NextIInv, PTL DEF Spec

-----------------------------------------------------------------------------
(* The properties *)

\* Every variable keeps its type, for any number of processes, commits and archives
\* kept: what is served, synced or looked up is a commit that was made, and the
\* pipeline's own generation runs in its generate step only.
THEOREM ReleaseTyped == Spec => []TypeOK
  <1>1. IInv => TypeOK
    BY DEF IInv
  <1> QED
    BY <1>1, Invariance, PTL

\* generate_site and _replace_tree, any number at once, lose the site only to a
\* kill between the two renames.
THEOREM SiteNotLostAlways == Spec => []SiteNotLost
  <1>1. IInv => SiteNotLost
    BY DEF IInv
  <1> QED
    BY <1>1, Invariance, PTL

\* validate_release passes only trees whose pages and summary are of one commit,
\* if no other command generates.
THEOREM VerifiedSnapshot == Spec => []VerifiedIsOneSnapshot
  <1>1. IInv => VerifiedIsOneSnapshot
    BY DEF IInv
  <1> QED
    BY <1>1, Invariance, PTL

\* archive_release and prune_archives never leave the directory without a whole
\* archive, for every number of archives to keep.
THEOREM ArchiveAlwaysThere == Spec => []ArchiveSurvives
  <1>1. IInv => ArchiveSurvives
    BY DEF IInv
  <1> QED
    BY <1>1, Invariance, PTL

\* prune_archives comes down to ARCHIVE_KEEP whatever earlier runs have left.
THEOREM PruningIsComplete == Spec => []PrunedToKeep
  <1>1. IInv => PrunedToKeep
    BY DEF IInv
  <1> QED
    BY <1>1, Invariance, PTL
=============================================================================
