------------------------------ MODULE SiteSwap ------------------------------
(***************************************************************************)
(* Generating a site tree and putting it in place of the old one:          *)
(* generate_site and _replace_tree of src/hns_topology/site_generator.py,  *)
(* which export_live_site of live_exporter.py repeats for the directory.   *)
(* Several processes may do so at once, and each may be killed between any *)
(* two renames.                                                            *)
(*                                                                         *)
(* A tree is identified by the database states its files were read from:   *)
(* the summary first, then page after page, each with a query of its own.  *)
(***************************************************************************)
EXTENDS Naturals

CONSTANTS
  None,         \* no tree, no file
  Procs,        \* processes that generate into the same directory
  MaxVersion    \* bound: states of the database

Version == 1..MaxVersion
Tree == [summary : Version, pages : Version]

ASSUME SwapAssumption ==
  /\ MaxVersion \in Nat \ {0}
  /\ None \notin Version \cup Tree

VARIABLES
  db,      \* the database, as the number of its last commit
  public,  \* the tree at --out
  gen,     \* per process: its step, its staged tree, the tree it moved aside
  left     \* was a command ever killed while the tree at --out was aside

swapVars == <<db, public, gen, left>>

Steps == {"idle", "read", "staged", "aside", "place", "restore", "clean", "done", "failed"}
Idle == [step |-> "idle", tree |-> None, backup |-> None]

SetStep(p, step) == gen' = [gen EXCEPT ![p].step = step]
End(p, step) == gen' = [gen EXCEPT ![p] = [Idle EXCEPT !.step = step]]

-----------------------------------------------------------------------------
(* Export into a staging directory *)

\* export_all reads the summary before any page, and the manifest repeats it.
ReadSummary(p) ==
  /\ gen[p].step = "idle"
  /\ gen' = [gen EXCEPT ![p] = [step |-> "read", tree |-> [summary |-> db, pages |-> db],
                                backup |-> None]]
  /\ UNCHANGED <<db, public, left>>

\* Mutant: the summary is read after the pages.
ReadSummaryLast(p) ==
  /\ gen[p].step = "read"
  /\ gen' = [gen EXCEPT ![p] = [step |-> "staged", tree |-> [summary |-> db, pages |-> @.tree.pages],
                                backup |-> None]]
  /\ UNCHANGED <<db, public, left>>

\* The last page; those before were read at this state or an earlier one.
ReadPages(p) ==
  /\ gen[p].step = "read"
  /\ gen' = [gen EXCEPT ![p] = [step |-> "staged", tree |-> [summary |-> @.tree.summary, pages |-> db],
                                backup |-> None]]
  /\ UNCHANGED <<db, public, left>>

-----------------------------------------------------------------------------
(* _replace_tree *)

\* out.exists()
LookAtOut(p) ==
  /\ gen[p].step = "staged"
  /\ SetStep(p, IF public = None THEN "place" ELSE "aside")
  /\ UNCHANGED <<db, public, left>>

\* Mutant: the old tree is deleted to make room.
DeleteOld(p) ==
  /\ gen[p].step = "aside"
  /\ public' = None
  /\ SetStep(p, "place")
  /\ UNCHANGED <<db, left>>

\* out.rename(backup); another process may have moved it meanwhile.
MoveAside(p) ==
  /\ gen[p].step = "aside"
  /\ \/ /\ public # None
        /\ gen' = [gen EXCEPT ![p].step = "place", ![p].backup = public]
        /\ public' = None
     \/ /\ public = None
        /\ End(p, "failed")
        /\ UNCHANGED public
  /\ UNCHANGED <<db, left>>

\* staging.rename(out); it fails on a tree that another process put there.
Place(p) ==
  /\ gen[p].step = "place"
  /\ \/ /\ public = None
        /\ public' = gen[p].tree
        /\ End(p, "clean")
     \/ /\ public # None
        /\ SetStep(p, "restore")
        /\ UNCHANGED public
  /\ UNCHANGED <<db, left>>

\* ... or for a reason of its own.
PlaceFails(p) ==
  /\ gen[p].step = "place"
  /\ SetStep(p, "restore")
  /\ UNCHANGED <<db, public, left>>

\* The exception handler puts the old tree back if there is none; else it
\* stays aside, under a name nothing looks for.
Restore(p) ==
  /\ gen[p].step = "restore"
  /\ public' = IF gen[p].backup # None /\ public = None THEN gen[p].backup ELSE public
  /\ End(p, "failed")
  /\ UNCHANGED <<db, left>>

\* The tree moved aside is removed.
Clean(p) ==
  /\ gen[p].step = "clean"
  /\ End(p, "done")
  /\ UNCHANGED <<db, public, left>>

\* When that fails the command does, with the new tree in place.
CleanFails(p) ==
  /\ gen[p].step = "clean"
  /\ End(p, "failed")
  /\ UNCHANGED <<db, public, left>>

Replace(p) == LookAtOut(p) \/ MoveAside(p) \/ Place(p) \/ Restore(p) \/ Clean(p)

Killed(p) ==
  /\ gen[p].step # "idle"
  /\ End(p, "idle")
  /\ left' = (left \/ gen[p].backup # None)
  /\ UNCHANGED <<db, public>>

\* A database and its site are in place.
SwapInit ==
  /\ db = 1
  /\ public = [summary |-> 1, pages |-> 1]
  /\ gen = [p \in Procs |-> Idle]
  /\ left = FALSE

SwapTypeOK ==
  /\ db \in Version
  /\ public \in Tree \cup {None}
  /\ gen \in [Procs -> [step : Steps, tree : Tree \cup {None}, backup : Tree \cup {None}]]
  /\ \A p \in Procs : /\ gen[p].tree # None <=>
                           gen[p].step \in {"read", "staged", "aside", "place", "restore"}
                      /\ gen[p].backup # None => gen[p].step \in {"place", "restore"}
  /\ left \in BOOLEAN

-----------------------------------------------------------------------------
(* Properties *)

\* "That ... avoids publishing a partially written tree after an interrupted
\* run" (docs/INDEXING_AUDIT.md) must not cost the old one: a complete tree is
\* in place, or moved aside by a command that is still to place its own or put
\* this one back, however many commands overlap and whichever renames fail,
\* unless one was killed between its two renames.
SiteNotLost ==
  public # None \/ left \/ \E p \in Procs : gen[p].backup # None
=============================================================================
