--------------------------- MODULE MCHandoffTiers ---------------------------
(* Small instances of HandoffTiers for TLC. *)
EXTENDS HandoffTiers

CONSTANTS x, y

\* Root 1 belongs to two shared-delegation groups.
TwoGroups == {{1}, {1, 2}}
=============================================================================
