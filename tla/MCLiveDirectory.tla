-------------------------- MODULE MCLiveDirectory --------------------------
(* Small instances of LiveDirectory for TLC: one root, with or without a    *)
(* subdomain, which already interleave with one another in every batch.     *)
EXTENDS LiveDirectory

CONSTANT r1
=============================================================================
