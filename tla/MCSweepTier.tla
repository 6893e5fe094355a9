---------------------------- MODULE MCSweepTier ----------------------------
(* Small instances of SweepTier for TLC. *)
EXTENDS SweepTier

CONSTANTS A, B

\* Roots behind one authority of two, and two roots behind both.
Crossed ==
  [n \in Roots |-> CASE n \in {1, 6} -> <<A>> [] n \in {2, 3} -> <<B>> [] OTHER -> <<B, A>>]
=============================================================================
