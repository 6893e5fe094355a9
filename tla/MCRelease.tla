------------------------------ MODULE MCRelease ------------------------------
(* Small instances of Release for TLC. *)
EXTENDS Release

CONSTANTS pipeline, hand

\* Every commit brings a block.
Blocks(v) == v
=============================================================================
