------------------------------ MODULE SweepTier ------------------------------
(***************************************************************************)
(* One generic tier of the endpoint sweep: the selection of candidates     *)
(* (select_sweep_candidates of src/hns_topology/live_sweep.py), the        *)
(* concurrent probes of run_sweep_batch and the commit of each result in   *)
(* completion order, the health of shared authorities, the persistent      *)
(* cursor and the weekly gate of the tier.                                 *)
(*                                                                         *)
(* The tier's roots are 1 .. N in the order of its SQL page query.  Dates  *)
(* are abstracted to "due" or "not due"; a date passes only between two    *)
(* selections, since a selection compares every date with one `now`.       *)
(***************************************************************************)
EXTENDS Naturals, FiniteSets, Sequences

CONSTANTS
  N,          \* number of roots of the tier
  Keys,       \* authorities: bootstrap addresses or nameservers
  KeysOf,     \* root -> its authority keys, in order
  Skipped,    \* roots whose only addresses are parking or public resolvers
  Limit,      \* --limit
  PageSize,   \* --page-size
  Samples     \* UNKNOWN_AUTHORITY_SAMPLES

Roots == 1 .. N

ASSUME SweepAssumption ==
  /\ {N, Limit, PageSize, Samples} \subseteq Nat \ {0}
  /\ KeysOf \in [Roots -> Seq(Keys)]
  /\ Skipped \subseteq Roots

VARIABLES
  \* the live database
  covered,    \* roots whose sweep_coverage row is not due
  health,     \* authority_health: "unknown" (no row, or due), "healthy", "down"
  cursor,     \* sweep.cursor.<tier>, 0 for ""
  open,       \* sweep.not_before.<tier> has passed
  \* the running batch
  pc,         \* "idle", "page", "examine" or "probe"
  at,         \* the local cursor
  first,      \* first root of the page
  next,       \* root to examine next
  waiting,    \* waiting_for_authority_health
  samples,    \* unknown_authority_samples
  complete,   \* the tier is in completed_tiers
  batch,      \* selected roots whose result is not stored -> their shared keys
  \* auxiliary
  accounted   \* roots probed or rightly passed over since the pass began

dbVars == <<covered, health, cursor, open>>
batchVars == <<pc, at, first, next, waiting, samples, complete, batch>>
vars == <<dbVars, batchVars, accounted>>

-----------------------------------------------------------------------------
(* Selection *)

NoSamples == [k \in Keys |-> 0]
NoBatch == [n \in {} |-> {}]
KeySet(n) == {KeysOf[n][i] : i \in DOMAIN KeysOf[n]}

Last == IF first + PageSize > N THEN N ELSE first + PageSize - 1
ShortPage == first + PageSize - 1 > N

\* Keys that two swept roots of the page have in common.
SharedKeys(n) ==
  {k \in KeySet(n) : \E m \in (first .. Last) \ (Skipped \cup {n}) : k \in KeySet(m)}

Speculative(shared) ==
  /\ \A k \in shared : health[k] # "healthy"
  /\ \E k \in shared : health[k] = "unknown"
IsUnknown(n) == Speculative(SharedKeys(n))
Suppressed(n) == SharedKeys(n) # {} /\ \A k \in SharedKeys(n) : health[k] = "down"

\* _unknown_authority_key: the first unknown key, in the root's order.
FirstUnknown(n, shared) ==
  LET Unknown(i) == KeysOf[n][i] \in shared /\ health[KeysOf[n][i]] = "unknown"
  IN  KeysOf[n][CHOOSE i \in DOMAIN KeysOf[n] :
                  Unknown(i) /\ \A j \in 1 .. i - 1 : ~Unknown(j)]

UnknownKey(n) == FirstUnknown(n, SharedKeys(n))

Full == Cardinality(DOMAIN batch) >= Limit
\* Mutant: one sample too many.
OutOfSamplesLate(n) == IsUnknown(n) /\ samples[UnknownKey(n)] > Samples

OutOfSamples(n) == IsUnknown(n) /\ samples[UnknownKey(n)] >= Samples

\* Mutant: the cursor moves past the samples.
MoveCursorAlways(n) == at' = n

\* The persistent cursor stays behind the first speculative sample.
MoveCursor(n) == at' = IF waiting THEN at ELSE n

StartSweep ==
  /\ pc = "idle" /\ open
  /\ pc' = "page" /\ at' = cursor
  /\ UNCHANGED <<dbVars, first, next, waiting, samples, complete, batch, accounted>>

\* Mutant: the page starts at the cursor instead of after it.
ReadPageInclusive ==
  /\ pc = "page" /\ ~Full /\ at < N
  /\ pc' = "examine" /\ first' = at /\ next' = at
  /\ UNCHANGED <<dbVars, at, waiting, samples, complete, batch, accounted>>

ReadPage ==
  /\ pc = "page" /\ ~Full /\ at < N
  /\ pc' = "examine" /\ first' = at + 1 /\ next' = at + 1
  /\ UNCHANGED <<dbVars, at, waiting, samples, complete, batch, accounted>>

\* Mutant: an empty page does not complete the tier.
NoRowsIncomplete ==
  /\ pc = "page" /\ ~Full /\ at = N
  /\ pc' = "probe"
  /\ UNCHANGED <<dbVars, at, first, next, waiting, samples, complete, batch, accounted>>

NoRows ==
  /\ pc = "page" /\ ~Full /\ at = N
  /\ pc' = "probe" /\ complete' = TRUE
  /\ UNCHANGED <<dbVars, at, first, next, waiting, samples, batch, accounted>>

LimitMet ==
  /\ pc = "page" /\ Full
  /\ pc' = "probe"
  /\ UNCHANGED <<dbVars, at, first, next, waiting, samples, complete, batch, accounted>>

Examining(n) == pc = "examine" /\ n = next /\ n <= Last

NothingToDo(n) == n \in Skipped \/ n \in covered \/ Suppressed(n)

PassOver(n) ==
  /\ Examining(n) /\ NothingToDo(n)
  /\ MoveCursor(n)
  /\ next' = n + 1
  /\ accounted' = accounted \cup {n}
  /\ UNCHANGED <<dbVars, pc, first, waiting, samples, complete, batch>>

Postpone(n) ==
  /\ Examining(n) /\ ~NothingToDo(n) /\ OutOfSamples(n)
  /\ waiting' = TRUE
  /\ next' = n + 1
  /\ UNCHANGED <<dbVars, pc, at, first, samples, complete, batch, accounted>>

ReachLimit(n) ==
  /\ Examining(n) /\ ~NothingToDo(n) /\ ~OutOfSamples(n) /\ Full
  /\ pc' = "probe"
  /\ UNCHANGED <<dbVars, at, first, next, waiting, samples, complete, batch, accounted>>

Select(n) ==
  /\ Examining(n) /\ ~NothingToDo(n) /\ ~OutOfSamples(n) /\ ~Full
  /\ batch' = [m \in DOMAIN batch \cup {n} |-> IF m = n THEN SharedKeys(n) ELSE batch[m]]
  /\ next' = n + 1
  /\ \/ /\ IsUnknown(n)
        /\ samples' = [samples EXCEPT ![UnknownKey(n)] = @ + 1]
        /\ waiting' = TRUE
        /\ UNCHANGED at
     \/ /\ ~IsUnknown(n)
        /\ MoveCursor(n)
        /\ UNCHANGED <<samples, waiting>>
  /\ UNCHANGED <<dbVars, pc, first, complete, accounted>>

\* Mutant: a short page completes the tier although samples are out.
EndPageWaiting ==
  /\ pc = "examine" /\ next > Last
  /\ pc' = IF waiting \/ ShortPage THEN "probe" ELSE "page"
  /\ complete' = ShortPage
  /\ UNCHANGED <<dbVars, at, first, next, waiting, samples, batch, accounted>>

EndPage ==
  /\ pc = "examine" /\ next > Last
  /\ pc' = IF waiting \/ ShortPage THEN "probe" ELSE "page"
  /\ complete' = (ShortPage /\ ~waiting)
  /\ UNCHANGED <<dbVars, at, first, next, waiting, samples, batch, accounted>>

-----------------------------------------------------------------------------
(* Probes and the end of the batch *)

\* record_authority_health, for every shared key of the root.
Recorded(keys, answered) ==
  [k \in Keys |-> IF k \notin keys THEN health[k]
                  ELSE IF answered THEN "healthy" ELSE "down"]

\* One result is stored in a transaction of its own, in completion order.
StoreResult(n, answered) ==
  /\ pc = "probe" /\ n \in DOMAIN batch
  /\ health' = Recorded(batch[n], answered)
  /\ covered' = covered \cup {n}
  /\ batch' = [m \in DOMAIN batch \ {n} |-> batch[m]]
  /\ accounted' = accounted \cup {n}
  /\ UNCHANGED <<cursor, open, pc, at, first, next, waiting, samples, complete>>

\* The process forgets everything that is not in the database.
EndBatch ==
  /\ pc' = "idle" /\ at' = 0 /\ first' = 1 /\ next' = 1
  /\ waiting' = FALSE /\ samples' = NoSamples /\ complete' = FALSE
  /\ batch' = NoBatch

\* _store_selection_progress
StoreProgress ==
  /\ pc = "probe" /\ DOMAIN batch = {}
  /\ cursor' = IF complete THEN 0 ELSE at
  /\ open' = ~complete
  /\ accounted' = IF complete THEN {} ELSE accounted
  /\ EndBatch
  /\ UNCHANGED <<covered, health>>

\* A kill, or an exception while a result is handled: the cursor is not saved.
Crash ==
  /\ pc # "idle"
  /\ EndBatch
  /\ UNCHANGED <<dbVars, accounted>>

\* Dates pass, and the resource of a root changes, between two selections.
BetweenSelections == pc \in {"idle", "probe"}

CoverageDue(n) ==
  /\ BetweenSelections /\ n \in covered
  /\ covered' = covered \ {n}
  /\ UNCHANGED <<health, cursor, open, batchVars, accounted>>

AuthorityDue(k) ==
  /\ BetweenSelections /\ health[k] = "down"
  /\ health' = [health EXCEPT ![k] = "unknown"]
  /\ UNCHANGED <<covered, cursor, open, batchVars, accounted>>

GateOpens ==
  /\ BetweenSelections /\ ~open
  /\ open' = TRUE
  /\ UNCHANGED <<covered, health, cursor, batchVars, accounted>>

-----------------------------------------------------------------------------
Init ==
  /\ covered = {} /\ health = [k \in Keys |-> "unknown"]
  /\ cursor = 0 /\ open = TRUE
  /\ pc = "idle" /\ at = 0 /\ first = 1 /\ next = 1
  /\ waiting = FALSE /\ samples = NoSamples /\ complete = FALSE
  /\ batch = NoBatch
  /\ accounted = {}

Selection ==
  \/ ReadPage \/ NoRows \/ LimitMet \/ EndPage
  \/ \E n \in Roots : PassOver(n) \/ Postpone(n) \/ ReachLimit(n) \/ Select(n)

Probes == \E n \in Roots, answered \in BOOLEAN : StoreResult(n, answered)

DatesPass == GateOpens \/ (\E n \in Roots : CoverageDue(n)) \/ (\E k \in Keys : AuthorityDue(k))

BatchStep == Selection \/ Probes \/ StoreProgress

SweepStep == StartSweep \/ BatchStep

Next == SweepStep \/ Crash \/ DatesPass

\* A batch that runs goes on: a probe ends by its timeout at the latest.  Nothing
\* is assumed of StartSweep: the timer's cycle leaves the generic tiers out, they
\* are swept when an operator runs the command.
Fairness == WF_vars(BatchStep)

Spec == Init /\ [][Next]_vars /\ Fairness

-----------------------------------------------------------------------------
(* Properties *)

TypeOK ==
  /\ covered \subseteq Roots
  /\ health \in [Keys -> {"unknown", "healthy", "down"}]
  /\ cursor \in 0 .. N
  /\ open \in BOOLEAN
  /\ pc \in {"idle", "page", "examine", "probe"}
  /\ at \in 0 .. N
  /\ first \in 1 .. N
  /\ next \in 1 .. N + 1
  /\ waiting \in BOOLEAN
  /\ samples \in [Keys -> Nat]
  /\ complete \in BOOLEAN
  /\ DOMAIN batch \subseteq Roots
  /\ \A n \in DOMAIN batch : batch[n] \subseteq Keys
  /\ accounted \subseteq Roots

\* The stored cursor is never past a root that this pass has neither probed and
\* stored, nor found unsweepable, not due, or behind unreachable authorities:
\* whatever speculative samples, the limit, page ends and crashes leave behind.
NothingSkipped == \A n \in 1 .. cursor : n \in accounted

\* The tier is the pass of TierPass: whatever samples, limits, page ends, kills and
\* dates do, the stored cursor only advances within a pass, never past a root the
\* pass has not dealt with, and the tier closes for a week, its cursor at the
\* start, only when every root was dealt with.
Pass == INSTANCE TierPass WITH left <- Roots \ accounted, resting <- ~open
SweepIsPass == Pass!PassSpec

\* The roots selected as samples of authority k: none of the authorities they
\* share with their page is healthy, and k is their first unknown one.
Sampled(k) ==
  {n \in DOMAIN batch : Speculative(batch[n]) /\ FirstUnknown(n, batch[n]) = k}

\* One selection takes at most `Samples` samples of an authority, however the roots
\* that share it, and their other authorities, lie on the pages.  A root alone on
\* its page with the authority is no sample, nor one that has a healthy authority
\* or an unknown one before it: these are selected beyond the three of
\* docs/LIVE_DIRECTORY.md ("samples a new shared authority up to three times").
SamplesAreLimited ==
  pc \in {"page", "examine"} => \A k \in Keys : Cardinality(Sampled(k)) <= Samples

\* Once dates stop passing and batches stop being killed, and the operator repeats
\* the command while the tier is open, the tier's pass ends and the gate stays
\* closed: no mix of samples, pages and limits keeps the sweep on the same roots
\* for ever.
Repeated == []<>(~open \/ pc # "idle")
SweepCompletes == <>[][SweepStep]_vars /\ Repeated => <>[]~open

=============================================================================
