------------------------------ MODULE TierPass ------------------------------
(***************************************************************************)
(* What one generic tier of the endpoint sweep promises                    *)
(* (docs/LIVE_DIRECTORY.md: streamed "with persistent cursors", "preserves *)
(* full liveness coverage"): a pass over the roots 1 .. N, resumed where   *)
(* the stored cursor stands, in which no root is lost and which rests only *)
(* when every root has been dealt with.  How roots are found, sampled and  *)
(* probed, and how often the process is killed, is left out.               *)
(***************************************************************************)
EXTENDS Naturals

CONSTANT N    \* number of roots of the tier

VARIABLES
  left,       \* roots this pass has still to deal with
  cursor,     \* where the next batch resumes
  resting     \* the tier waits for its next pass

PassInit == left = 1 .. N /\ cursor = 0 /\ ~resting

\* One root is probed, or rightly passed over.
Deal(n) ==
  /\ ~resting /\ n \in left
  /\ left' = left \ {n}
  /\ UNCHANGED <<cursor, resting>>

\* A batch ends: the cursor only advances, and past no root that is left.
Save(c) ==
  /\ ~resting /\ c >= cursor
  /\ \A n \in left : c < n
  /\ cursor' = c
  /\ UNCHANGED <<left, resting>>

\* The pass ends with no root left, and the next one begins at the first.
Finish ==
  /\ ~resting /\ left = {}
  /\ left' = 1 .. N /\ cursor' = 0 /\ resting' = TRUE

Wake ==
  /\ resting /\ resting' = FALSE
  /\ UNCHANGED <<left, cursor>>

PassNext == (\E n \in 1 .. N : Deal(n)) \/ (\E c \in 1 .. N : Save(c)) \/ Finish \/ Wake

PassSpec == PassInit /\ [][PassNext]_<<left, cursor, resting>>
=============================================================================
