------------------------- MODULE MCTopologyIndexer -------------------------
(* Small instances of TopologyIndexer for TLC. *)
EXTENDS TopologyIndexer, TLC

NamesSymmetry == Permutations(Names)
=============================================================================
