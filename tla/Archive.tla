------------------------------- MODULE Archive -------------------------------
(***************************************************************************)
(* The archive directory: archive_release, prune_archives and              *)
(* validate_archive_manifest of src/hns_topology/archiver.py.  An archive  *)
(* is known by its manifest, which is written after the site's tarball and *)
(* the database's backup and removed after both; files that no manifest    *)
(* names are never looked at again and left out.                           *)
(***************************************************************************)
EXTENDS Naturals, Sequences, FiniteSets

CONSTANTS
  Keep,         \* ARCHIVE_KEEP
  MaxArchives   \* bound: manifests in the directory

ASSUME ArchiveAssumption == {Keep, MaxArchives} \subseteq Nat

VARIABLE
  archives   \* per manifest, oldest first: what it and its files are like

\* "cut": some of its files are removed; "torn": the manifest's writing was cut.
Archives == {"whole", "cut", "torn"}

AddManifest(state) == archives' = Append(archives, state)

\* Mutant: manifests[keep - 1:].
ExcessOneMore ==
  IF Keep = 0 THEN {} ELSE {i \in DOMAIN archives : i <= Len(archives) - Keep + 1}

\* Mutant: an unreadable manifest is passed over.
ExcessReadable ==
  IF Keep = 0 THEN {} ELSE {i \in DOMAIN archives : i <= Len(archives) - Keep /\ archives[i] # "torn"}

\* manifests[keep:], the newest first
Excess ==
  IF Keep = 0 THEN {} ELSE {i \in DOMAIN archives : i <= Len(archives) - Keep}

\* The excess archives are taken from the newest on: the files that the manifest
\* names, then the manifest.  One that cannot be read names none.
RemoveFile ==
  \E i \in Excess :
    /\ \A j \in Excess : j <= i
    /\ \/ archives[i] = "whole" /\ archives' = [archives EXCEPT ![i] = "cut"]
       \/ archives[i] # "whole"
          /\ archives' = [j \in 1..(Len(archives) - 1) |-> archives[IF j < i THEN j ELSE j + 1]]

-----------------------------------------------------------------------------
(* Properties *)

ArchiveTypeOK == archives \in Seq(Archives)

\* There is always an archive with all its files, wherever the writing of a new
\* one or the pruning of the old ones is cut.
ArchiveSurvives == \E i \in DOMAIN archives : archives[i] = "whole"
=============================================================================
