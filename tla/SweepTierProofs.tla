--------------------------- MODULE SweepTierProofs ---------------------------
(***************************************************************************)
(* Proofs, for every tier, page size and limit, about SweepTier.           *)
(***************************************************************************)
EXTENDS SweepTier, TLAPS, FiniteSetTheorems, WellFoundedInduction

\* The shared keys of a root are authorities.
LEMMA SharedKeysType ==
  ASSUME NEW n \in Roots
  PROVE  SharedKeys(n) \subseteq Keys
<1>1. KeysOf[n] \in Seq(Keys)
  BY SweepAssumption
<1>2. \A i \in DOMAIN KeysOf[n] : KeysOf[n][i] \in Keys
  BY <1>1
<1> QED BY <1>2 DEF SharedKeys, KeySet

\* The state between two batches has its type.
LEMMA EndBatchType ==
  ASSUME EndBatch
  PROVE  /\ pc' = "idle" /\ at' = 0 /\ first' = 1 /\ next' = 1
         /\ waiting' = FALSE /\ complete' = FALSE
         /\ samples' \in [Keys -> Nat]
         /\ DOMAIN batch' = {}
<1>1. NoSamples \in [Keys -> Nat]
  BY DEF NoSamples
<1>2. DOMAIN NoBatch = {}
  BY DEF NoBatch
<1>3. samples' = NoSamples /\ batch' = NoBatch
  BY DEF EndBatch
<1>4. /\ pc' = "idle" /\ at' = 0 /\ first' = 1 /\ next' = 1
      /\ waiting' = FALSE /\ complete' = FALSE
  BY DEF EndBatch
<1> HIDE DEF NoSamples, NoBatch
<1> QED BY <1>1, <1>2, <1>3, <1>4

\* TypeOK is kept by every step of the selection.
LEMMA TypeSelection ==
  ASSUME TypeOK, StartSweep \/ Selection
  PROVE  TypeOK'
<1> USE SweepAssumption DEF TypeOK, Roots, dbVars
<1>1. CASE StartSweep
  BY <1>1 DEF StartSweep
<1>2. CASE ReadPage
  <2>1. /\ UNCHANGED <<covered, health, cursor, open, at, waiting, samples, complete, batch, accounted>>
        /\ pc' = "examine" /\ first' = at + 1 /\ next' = at + 1 /\ at < N
    BY <1>2 DEF ReadPage
  <2>2. at + 1 \in 1 .. N /\ at + 1 \in 1 .. N + 1
    BY <2>1
  <2> QED BY <2>1, <2>2
<1>3. CASE NoRows
  BY <1>3 DEF NoRows
<1>4. CASE LimitMet
  BY <1>4 DEF LimitMet
<1>5. CASE EndPage
  BY <1>5 DEF EndPage, ShortPage
<1>6. ASSUME NEW n \in Roots, PassOver(n)
      PROVE  TypeOK'
  BY <1>6 DEF PassOver, MoveCursor, Examining
<1>7. ASSUME NEW n \in Roots, Postpone(n)
      PROVE  TypeOK'
  BY <1>7 DEF Postpone, Examining
<1>8. ASSUME NEW n \in Roots, ReachLimit(n)
      PROVE  TypeOK'
  BY <1>8 DEF ReachLimit, Examining
<1>9. ASSUME NEW n \in Roots, Select(n)
      PROVE  TypeOK'
  <2>1. /\ DOMAIN batch' = DOMAIN batch \cup {n}
        /\ \A m \in DOMAIN batch' : batch'[m] = IF m = n THEN SharedKeys(n) ELSE batch[m]
    BY <1>9 DEF Select
  <2>2. DOMAIN batch' \subseteq Roots /\ \A m \in DOMAIN batch' : batch'[m] \subseteq Keys
    BY <2>1, SharedKeysType
  <2>3. samples' \in [Keys -> Nat]
    <3>1. ASSUME NEW k
          PROVE  [samples EXCEPT ![k] = samples[k] + 1] \in [Keys -> Nat]
      <4>1. \A x \in Keys : samples[x] + 1 \in Nat
        OBVIOUS
      <4>2. CASE k \in Keys
        BY <4>1, <4>2
      <4>3. CASE k \notin Keys
        BY <4>3
      <4> QED BY <4>2, <4>3
    <3>2. CASE IsUnknown(n)
      <4>1. samples' = [samples EXCEPT ![UnknownKey(n)] = samples[UnknownKey(n)] + 1]
        BY <1>9, <3>2, Zenon DEF Select
      <4> QED BY <3>1, <4>1
    <3>3. CASE ~IsUnknown(n)
      BY <1>9, <3>3 DEF Select
    <3> QED BY <3>2, <3>3
  <2>4. waiting' \in BOOLEAN
    BY <1>9 DEF Select
  <2>5. at' \in 0 .. N /\ next' \in 1 .. N + 1
    <3>1. (at' = at \/ at' = n) /\ next' = n + 1
      BY <1>9 DEF Select, MoveCursor
    <3> QED BY <3>1
  <2> QED BY <1>9, <2>2, <2>3, <2>4, <2>5 DEF Select
<1> QED BY <1>1, <1>2, <1>3, <1>4, <1>5, <1>6, <1>7, <1>8, <1>9 DEF Selection

\* TypeOK is kept by probes, the end of a batch and the passing of dates.
LEMMA TypeRest ==
  ASSUME TypeOK, Probes \/ StoreProgress \/ Crash \/ DatesPass
  PROVE  TypeOK'
<1> USE SweepAssumption DEF TypeOK, Roots
<1>1. ASSUME NEW n \in Roots, NEW answered \in BOOLEAN, StoreResult(n, answered)
      PROVE  TypeOK'
  BY <1>1 DEF StoreResult, Recorded
<1>2. CASE StoreProgress
  <2>1. /\ cursor' = IF complete THEN 0 ELSE at
        /\ accounted' = IF complete THEN {} ELSE accounted
        /\ UNCHANGED <<covered, health>>
    BY <1>2, Zenon DEF StoreProgress
  <2>2. open' \in BOOLEAN
    BY <1>2, Zenon DEF StoreProgress
  <2>3. EndBatch
    BY <1>2 DEF StoreProgress
  <2>4. cursor' \in 0 .. N /\ accounted' \subseteq Roots
    <3>1. N \in Nat /\ 0 \in 0 .. N
      BY SMT
    <3>2. CASE complete
      BY <2>1, <3>1, <3>2
    <3>3. CASE ~complete
      BY <2>1, <3>3
    <3> QED BY <3>2, <3>3
  <2>5. {waiting', complete'} \subseteq BOOLEAN
    BY <2>3, EndBatchType, Zenon
  <2> QED BY <2>1, <2>2, <2>3, <2>4, <2>5, EndBatchType
<1>3. CASE Crash
  BY <1>3, EndBatchType DEF Crash, dbVars
<1>4. CASE GateOpens
  BY <1>4 DEF GateOpens, batchVars
<1>5. ASSUME NEW n \in Roots, CoverageDue(n)
      PROVE  TypeOK'
  BY <1>5 DEF CoverageDue, batchVars
<1>6. ASSUME NEW k \in Keys, AuthorityDue(k)
      PROVE  TypeOK'
  BY <1>6 DEF AuthorityDue, batchVars
<1> QED BY <1>1, <1>2, <1>3, <1>4, <1>5, <1>6 DEF Probes, DatesPass

\* Every variable keeps its type, for every tier, page size, limit and sharing of
\* authorities: the cursors stay among the roots, the batch among roots with
\* authorities of theirs.
THEOREM SweepTyped == Spec => []TypeOK
<1>1. Init => TypeOK
  <2>1. NoSamples \in [Keys -> Nat]
    BY DEF NoSamples
  <2>2. DOMAIN NoBatch = {}
    BY DEF NoBatch
  <2>3. SUFFICES ASSUME Init
                 PROVE  TypeOK
    OBVIOUS
  <2>4. health \in [Keys -> {"unknown", "healthy", "down"}]
    BY <2>3 DEF Init
  <2>5. /\ covered = {} /\ cursor = 0 /\ pc = "idle" /\ at = 0
        /\ first = 1 /\ next = 1 /\ samples \in [Keys -> Nat]
        /\ DOMAIN batch = {} /\ accounted = {}
    BY <2>1, <2>2, <2>3 DEF Init
  <2>6. {open, waiting, complete} \subseteq BOOLEAN
    BY <2>3, Zenon DEF Init
  <2>7. N \in Nat \ {0}
    BY SweepAssumption
  <2>8. \A n \in DOMAIN batch : batch[n] \subseteq Keys
    BY <2>5
  <2> QED BY <2>4, <2>5, <2>6, <2>7, <2>8 DEF TypeOK, Roots
<1>2. TypeOK /\ [Next]_vars => TypeOK'
  <2> SUFFICES ASSUME TypeOK, [Next]_vars
               PROVE  TypeOK'
    OBVIOUS
  <2>1. CASE UNCHANGED vars
    BY <2>1 DEF TypeOK, vars, dbVars, batchVars
  <2> QED BY <2>1, TypeSelection, TypeRest DEF Next, SweepStep, BatchStep
<1> QED BY <1>1, <1>2, PTL DEF Spec

-----------------------------------------------------------------------------
(* The cursor *)

\* The inductive form of NothingSkipped.  Inside a batch the local cursor has
\* left behind only roots accounted for or selected; as long as no sample holds
\* it back it is right behind the root to examine, so that the last page can
\* complete the tier only when it stands at the last root.
CursorInv ==
  /\ \A n \in 1 .. cursor : n \in accounted
  /\ pc # "idle" => \A n \in 1 .. at : n \in accounted \/ n \in DOMAIN batch
  /\ pc = "examine" /\ ~waiting => next = at + 1
  /\ pc = "examine" => at < next
  /\ complete => pc = "probe" /\ at = N

\* CursorInv is kept by every step of the selection.
LEMMA CursorSelection ==
  ASSUME TypeOK, CursorInv, StartSweep \/ Selection
  PROVE  CursorInv'
<1> USE SweepAssumption DEF TypeOK, CursorInv, Roots, dbVars
<1>1. CASE StartSweep
  BY <1>1 DEF StartSweep
<1>2. CASE ReadPage
  <2>1. ~complete' /\ pc' = "examine" /\ at' = at /\ next' = at + 1
    BY <1>2 DEF ReadPage
  <2> QED BY <1>2, <2>1 DEF ReadPage
<1>3. CASE NoRows
  BY <1>3 DEF NoRows
<1>4. CASE LimitMet
  BY <1>4 DEF LimitMet
<1>5. CASE EndPage
  BY <1>5 DEF EndPage, ShortPage, Last
<1>6. ASSUME NEW n \in Roots, PassOver(n)
      PROVE  CursorInv'
  BY <1>6 DEF PassOver, MoveCursor, Examining
<1>7. ASSUME NEW n \in Roots, Postpone(n)
      PROVE  CursorInv'
  BY <1>7 DEF Postpone, Examining
<1>8. ASSUME NEW n \in Roots, ReachLimit(n)
      PROVE  CursorInv'
  BY <1>8 DEF ReachLimit, Examining
<1>9. ASSUME NEW n \in Roots, Select(n)
      PROVE  CursorInv'
  <2>1. DOMAIN batch' = DOMAIN batch \cup {n}
    BY <1>9 DEF Select
  <2> QED BY <1>9, <2>1 DEF Select, MoveCursor, Examining
<1> QED BY <1>1, <1>2, <1>3, <1>4, <1>5, <1>6, <1>7, <1>8, <1>9 DEF Selection

\* CursorInv is kept by probes, the end of a batch and the passing of dates.
LEMMA CursorRest ==
  ASSUME TypeOK, CursorInv, Probes \/ StoreProgress \/ Crash \/ DatesPass
  PROVE  CursorInv'
<1> USE SweepAssumption DEF TypeOK, CursorInv, Roots
<1>1. ASSUME NEW n \in Roots, NEW answered \in BOOLEAN, StoreResult(n, answered)
      PROVE  CursorInv'
  <2>1. DOMAIN batch' = DOMAIN batch \ {n}
    BY <1>1 DEF StoreResult
  <2> QED BY <1>1, <2>1 DEF StoreResult
<1>2. CASE StoreProgress
  BY <1>2 DEF StoreProgress, EndBatch
<1>3. CASE Crash
  BY <1>3 DEF Crash, EndBatch, dbVars
<1>4. CASE GateOpens
  BY <1>4 DEF GateOpens, batchVars
<1>5. ASSUME NEW n \in Roots, CoverageDue(n)
      PROVE  CursorInv'
  BY <1>5 DEF CoverageDue, batchVars
<1>6. ASSUME NEW k \in Keys, AuthorityDue(k)
      PROVE  CursorInv'
  BY <1>6 DEF AuthorityDue, batchVars
<1> QED BY <1>1, <1>2, <1>3, <1>4, <1>5, <1>6 DEF Probes, DatesPass

\* CursorInv holds in every state.
LEMMA CursorInvariant == Spec => []CursorInv
<1>1. Init => CursorInv
  BY SweepAssumption DEF Init, CursorInv
<1>2. TypeOK /\ CursorInv /\ [Next]_vars => CursorInv'
  <2> SUFFICES ASSUME TypeOK, CursorInv, [Next]_vars
               PROVE  CursorInv'
    OBVIOUS
  <2>1. CASE UNCHANGED vars
    BY <2>1 DEF CursorInv, vars, dbVars, batchVars
  <2> QED BY <2>1, CursorSelection, CursorRest DEF Next, SweepStep, BatchStep
<1> QED BY <1>1, <1>2, SweepTyped, PTL DEF Spec

\* No root is skipped: the stored cursor is behind every root the pass has not
\* dealt with, for every tier, page size, limit and sharing of authorities.
THEOREM SweepSkipsNothing == Spec => []NothingSkipped
<1>1. CursorInv => NothingSkipped
  BY DEF CursorInv, NothingSkipped
<1> QED BY <1>1, CursorInvariant, PTL

\* The tier closes for a week only once the pass has dealt with every root.
PassIsComplete == [][open /\ ~open' => accounted = Roots]_vars

\* The tier closes only after a whole pass, whatever completes it: a short page, an
\* empty one, or the last of several batches.
THEOREM SweepPassIsComplete == Spec => PassIsComplete
<1>1. TypeOK /\ CursorInv /\ [Next]_vars => [open /\ ~open' => accounted = Roots]_vars
  <2> SUFFICES ASSUME TypeOK, CursorInv, Next, open, ~open'
               PROVE  accounted = Roots
    BY DEF vars, dbVars, batchVars
  <2>1. StoreProgress
    BY DEF Next, SweepStep, BatchStep, StartSweep, Selection, ReadPage, NoRows, LimitMet, EndPage,
           PassOver, Postpone, ReachLimit, Select, Probes, StoreResult, Crash, DatesPass,
           GateOpens, CoverageDue, AuthorityDue, dbVars
  <2>2. complete /\ DOMAIN batch = {}
    BY <2>1 DEF StoreProgress, TypeOK
  <2>3. pc = "probe" /\ at = N /\ \A n \in Roots : n \in accounted
    BY <2>2 DEF CursorInv, Roots
  <2> QED BY <2>3 DEF TypeOK
<1> QED BY <1>1, SweepTyped, CursorInvariant, PTL DEF Spec, PassIsComplete

-----------------------------------------------------------------------------
(* The pass *)

\* What the mapping to TierPass needs beside CursorInv: a batch runs only while the
\* gate is open, from the stored cursor onwards; a closed tier has a fresh pass.
PassInv ==
  /\ pc # "idle" => open /\ cursor <= at
  /\ ~open => accounted = {} /\ cursor = 0

\* PassInv holds in every state.
LEMMA PassInvariant == Spec => []PassInv
<1>1. Init => PassInv
  BY DEF Init, PassInv
<1>2. TypeOK /\ CursorInv /\ PassInv /\ [Next]_vars => PassInv'
  <2> SUFFICES ASSUME TypeOK, CursorInv, PassInv, [Next]_vars
               PROVE  PassInv'
    OBVIOUS
  <2>1. CASE StartSweep
    BY <2>1 DEF StartSweep, PassInv, TypeOK, dbVars
  <2>2. CASE ReadPage \/ NoRows \/ LimitMet \/ EndPage
    BY <2>2 DEF ReadPage, NoRows, LimitMet, EndPage, PassInv, dbVars
  <2>3. ASSUME NEW n \in Roots, PassOver(n) \/ Postpone(n) \/ ReachLimit(n) \/ Select(n)
        PROVE  PassInv'
    <3>1. pc = "examine" /\ UNCHANGED <<cursor, open>> /\ n = next
      BY <2>3 DEF PassOver, Postpone, ReachLimit, Select, Examining, dbVars
    <3>2. at' = at \/ at' = n
      BY <2>3 DEF PassOver, Postpone, ReachLimit, Select, MoveCursor
    <3>3. {cursor, at, n, N} \subseteq Nat /\ at < n
      BY <3>1, SweepAssumption DEF TypeOK, CursorInv, Roots
    <3> QED BY <3>1, <3>2, <3>3 DEF PassInv
  <2>4. CASE Probes
    BY <2>4 DEF Probes, StoreResult, PassInv
  <2>5. CASE StoreProgress
    BY <2>5, EndBatchType DEF StoreProgress, PassInv
  <2>6. CASE Crash
    BY <2>6, EndBatchType DEF Crash, PassInv, dbVars
  <2>7. CASE DatesPass
    BY <2>7 DEF DatesPass, GateOpens, CoverageDue, AuthorityDue, PassInv, batchVars
  <2>8. CASE UNCHANGED vars
    BY <2>8 DEF PassInv, vars, dbVars, batchVars
  <2> QED BY <2>1, <2>2, <2>3, <2>4, <2>5, <2>6, <2>7, <2>8 DEF Next, SweepStep, BatchStep, Selection
<1> QED BY <1>1, <1>2, SweepTyped, CursorInvariant, PTL DEF Spec

\* A root is dealt with, or was before: a step of the pass or none.
LEMMA DealStep ==
  ASSUME TypeOK, NEW n \in Roots, open, accounted' = accounted \cup {n}, UNCHANGED <<cursor, open>>
  PROVE  [Pass!PassNext]_<<Roots \ accounted, cursor, ~open>>
<1>1. (Roots \ accounted)' = (Roots \ accounted) \ {n}
  BY DEF Roots
<1>2. CASE n \in accounted
  BY <1>1, <1>2
<1>3. CASE n \notin accounted
  BY <1>1, <1>3 DEF Pass!PassNext, Pass!Deal, Roots
<1> QED BY <1>2, <1>3

\* The sweep of a tier implements the pass of TierPass, for every tier, page size,
\* limit, number of samples and sharing of authorities: every step deals with one
\* root, saves a cursor behind which no root is left, ends a whole pass, opens the
\* gate, or is invisible.
THEOREM SweepRefines == Spec => SweepIsPass
<1> DEFINE left == Roots \ accounted
           passVars == <<left, cursor, ~open>>
<1>1. Init => Pass!PassInit
  BY DEF Init, Pass!PassInit, Roots
<1>2. TypeOK /\ CursorInv /\ PassInv /\ [Next]_vars => [Pass!PassNext]_passVars
  <2> SUFFICES ASSUME TypeOK, CursorInv, PassInv, [Next]_vars
               PROVE  [Pass!PassNext]_passVars
    OBVIOUS
  <2>1. CASE UNCHANGED <<accounted, cursor, open>>
    BY <2>1 DEF Roots
  <2>2. CASE StartSweep \/ Selection
    <3>1. CASE \E n \in Roots : PassOver(n)
      <4>1. PICK n \in Roots : PassOver(n)
        BY <3>1
      <4>2. open /\ accounted' = accounted \cup {n} /\ UNCHANGED <<cursor, open>>
        BY <4>1 DEF PassOver, Examining, PassInv, dbVars
      <4> QED BY <4>2, DealStep
    <3>2. CASE StartSweep \/ ReadPage \/ NoRows \/ LimitMet \/ EndPage
               \/ \E n \in Roots : Postpone(n) \/ ReachLimit(n) \/ Select(n)
      BY <2>1, <3>2 DEF StartSweep, ReadPage, NoRows, LimitMet, EndPage, Postpone, ReachLimit,
                        Select, dbVars
    <3> QED BY <2>2, <3>1, <3>2 DEF Selection
  <2>3. CASE Probes
    <3>1. PICK n \in Roots, answered \in BOOLEAN : StoreResult(n, answered)
      BY <2>3 DEF Probes
    <3>2. open /\ accounted' = accounted \cup {n} /\ UNCHANGED <<cursor, open>>
      BY <3>1 DEF StoreResult, PassInv
    <3> QED BY <3>2, DealStep
  <2>4. CASE StoreProgress
    <3>1. /\ pc = "probe" /\ DOMAIN batch = {}
          /\ cursor' = IF complete THEN 0 ELSE at
          /\ accounted' = IF complete THEN {} ELSE accounted
      BY <2>4 DEF StoreProgress
    <3>2. open /\ cursor <= at /\ open' = ~complete
      BY <2>4, <3>1 DEF StoreProgress, PassInv
    <3>3. \A n \in 1 .. at : n \in accounted
      BY <3>1 DEF CursorInv
    <3>4. CASE complete
      <4>1. at = N
        BY <3>4 DEF CursorInv
      <4>2. left = {} /\ left' = 1 .. N /\ cursor' = 0 /\ (~open') = TRUE
        BY <3>1, <3>2, <3>3, <3>4, <4>1 DEF Roots
      <4> QED BY <3>2, <4>2 DEF Pass!PassNext, Pass!Finish
    <3>5. CASE ~complete
      <4>1. cursor' = at /\ left' = left /\ UNCHANGED open
        BY <3>1, <3>2, <3>5 DEF Roots
      <4>2. at \in 0 .. N /\ cursor \in 0 .. N /\ N \in Nat
        BY SweepAssumption DEF TypeOK
      <4>3. \A n \in left : at < n
        BY <3>3, <4>2 DEF Roots
      <4>4. CASE at = 0
        <5>1. cursor' = cursor
          BY <3>2, <4>1, <4>2, <4>4
        <5> QED BY <4>1, <5>1
      <4>5. CASE at \in 1 .. N
        BY <3>2, <4>1, <4>2, <4>3, <4>5 DEF Pass!PassNext, Pass!Save
      <4> QED BY <4>2, <4>4, <4>5
    <3> QED BY <3>4, <3>5 DEF TypeOK
  <2>5. CASE Crash
    BY <2>1, <2>5 DEF Crash, dbVars
  <2>6. CASE DatesPass
    <3>1. CASE GateOpens
      <4>1. ~open /\ open' = TRUE /\ UNCHANGED <<cursor, accounted>>
        BY <3>1 DEF GateOpens
      <4> QED BY <4>1 DEF Pass!PassNext, Pass!Wake, Roots
    <3>2. CASE ~GateOpens
      BY <2>1, <2>6, <3>2 DEF DatesPass, CoverageDue, AuthorityDue
    <3> QED BY <3>1, <3>2
  <2>7. CASE UNCHANGED vars
    BY <2>1, <2>7 DEF vars, dbVars
  <2> QED BY <2>2, <2>3, <2>4, <2>5, <2>6, <2>7 DEF Next, SweepStep, BatchStep
<1> QED BY <1>1, <1>2, SweepTyped, CursorInvariant, PassInvariant, PTL
        DEF Spec, SweepIsPass, Pass!PassSpec

-----------------------------------------------------------------------------
(* Samples of an unknown authority *)

\* The inductive form of SamplesAreLimited: the selection's counter is no less than
\* the samples taken.
SampleInv ==
  /\ pc = "idle" => DOMAIN batch = {} /\ samples = NoSamples
  /\ pc \in {"page", "examine"} =>
       \A k \in Keys : samples[k] <= Samples /\ Cardinality(Sampled(k)) <= samples[k]

\* A nonempty set of indices has a lowest one.
LEMMA LowestIndex ==
  ASSUME NEW I, I \subseteq Nat, I # {}
  PROVE  \E i \in I : \A j \in I : i <= j
<1> DEFINE R == OpToRel(<, Nat)
<1>1. \A z : z \in Nat \X Nat => (z[1] < z[2] => z \in R)
  BY Zenon DEF OpToRel
<1>2. IsWellFoundedOn(R, Nat)
  BY NatLessThanWellFounded, Zenon
<1> HIDE DEF R
<1>3. PICK i \in I : \A j \in I : ~ (<<j, i>> \in R)
  BY <1>2, WFMin
<1>4. \A j \in I : <<j, i>> \in Nat \X Nat /\ <<j, i>>[1] = j /\ <<j, i>>[2] = i
  OBVIOUS
<1>5. \A j \in I : ~ (j < i)
  BY <1>1, <1>3, <1>4
<1> QED BY <1>5

\* A root's keys are authorities.
LEMMA KeysType ==
  ASSUME NEW n \in Roots
  PROVE  /\ DOMAIN KeysOf[n] \subseteq Nat \ {0} /\ KeySet(n) \subseteq Keys
         /\ \A i \in DOMAIN KeysOf[n] : \A j \in 1 .. i - 1 : j \in DOMAIN KeysOf[n]
         /\ SharedKeys(n) \subseteq KeySet(n)
<1>1. KeysOf[n] \in Seq(Keys)
  BY SweepAssumption
<1> QED BY <1>1 DEF KeySet, SharedKeys

\* A root with an unknown authority has a first one.
LEMMA FirstUnknownType ==
  ASSUME NEW n \in Roots, IsUnknown(n)
  PROVE  UnknownKey(n) \in Keys
<1> DEFINE keys == KeysOf[n]
           Unknown(i) == keys[i] \in SharedKeys(n) /\ health[keys[i]] = "unknown"
           First(i) == Unknown(i) /\ \A j \in 1 .. i - 1 : ~Unknown(j)
           I == {i \in DOMAIN keys : Unknown(i)}
<1>1. I # {} /\ I \subseteq Nat
  <2>1. PICK k \in SharedKeys(n) : health[k] = "unknown"
    BY DEF IsUnknown, Speculative
  <2> QED BY <2>1, KeysType DEF KeySet
<1>2. PICK i \in I : \A j \in I : i <= j
  BY <1>1, LowestIndex
<1>3. i \in DOMAIN keys /\ Unknown(i) /\ i \in Nat
  BY <1>1, <1>2
<1>4. \A j \in 1 .. i - 1 : ~Unknown(j)
  BY <1>2, <1>3, KeysType
<1>5. \E x \in DOMAIN keys : First(x)
  BY <1>3, <1>4
<1> HIDE DEF First
<1>6. (CHOOSE x \in DOMAIN keys : First(x)) \in DOMAIN keys
  BY <1>5, Zenon
<1>7. keys[CHOOSE x \in DOMAIN keys : First(x)] \in KeySet(n)
  BY <1>6 DEF KeySet
<1>8. UnknownKey(n) = keys[CHOOSE x \in DOMAIN keys : First(x)]
  BY DEF UnknownKey, FirstUnknown, First
<1> QED BY <1>7, <1>8, KeysType

\* The samples of an authority, for a given health of all of them.
FirstIn(h, n, shared) ==
  LET Unknown(i) == KeysOf[n][i] \in shared /\ h[KeysOf[n][i]] = "unknown"
  IN  KeysOf[n][CHOOSE i \in DOMAIN KeysOf[n] :
                  Unknown(i) /\ \A j \in 1 .. i - 1 : ~Unknown(j)]

SpeculativeIn(h, shared) ==
  (\A k \in shared : h[k] # "healthy") /\ \E k \in shared : h[k] = "unknown"

SampleOf(h, k, n, shared) == SpeculativeIn(h, shared) /\ FirstIn(h, n, shared) = k

LEMMA SampledIs ==
  ASSUME NEW k
  PROVE  /\ Sampled(k) = {n \in DOMAIN batch : SampleOf(health, k, n, batch[n])}
         /\ Sampled(k)' = {n \in DOMAIN batch' : SampleOf(health', k, n, batch'[n])}
         /\ \A n : SampleOf(health, k, n, SharedKeys(n)) <=> IsUnknown(n) /\ k = UnknownKey(n)
BY DEF Sampled, SampleOf, Speculative, SpeculativeIn, FirstUnknown, FirstIn, IsUnknown, UnknownKey

\* They depend on the batch and on the health only.
LEMMA SampledKept ==
  ASSUME UNCHANGED <<health, batch>>, NEW k
  PROVE  Sampled(k)' = Sampled(k)
BY SampledIs

\* Few enough roots are sampled to be counted.
LEMMA SampledFinite == TypeOK => \A k : IsFiniteSet(Sampled(k)) /\ Cardinality(Sampled(k)) \in Nat
<1> SUFFICES ASSUME TypeOK, NEW k PROVE IsFiniteSet(Sampled(k)) /\ Cardinality(Sampled(k)) \in Nat
  OBVIOUS
<1>1. IsFiniteSet(Roots)
  BY SweepAssumption, FS_Interval DEF Roots
<1>2. Sampled(k) \subseteq Roots
  BY DEF Sampled, TypeOK
<1> QED BY <1>1, <1>2, FS_Subset, FS_CardinalityType

\* Selecting a root adds it to the samples of its first unknown authority, and to
\* no others.
LEMMA SampleTaken ==
  ASSUME TypeOK, NEW n \in Roots, Select(n), NEW k
  PROVE  Sampled(k)' \subseteq
           Sampled(k) \cup (IF IsUnknown(n) /\ k = UnknownKey(n) THEN {n} ELSE {})
<1>1. /\ health' = health
      /\ DOMAIN batch' = DOMAIN batch \cup {n}
      /\ \A m \in DOMAIN batch' : batch'[m] = IF m = n THEN SharedKeys(n) ELSE batch[m]
  BY DEF Select, dbVars
<1>2. ASSUME NEW m \in Sampled(k)', m # n PROVE m \in Sampled(k)
  <2>1. m \in DOMAIN batch' /\ SampleOf(health', k, m, batch'[m])
    BY <1>2, SampledIs
  <2>2. m \in DOMAIN batch /\ SampleOf(health, k, m, batch[m])
    BY <1>1, <1>2, <2>1
  <2> QED BY <2>2, SampledIs
<1>3. ASSUME n \in Sampled(k)' PROVE IsUnknown(n) /\ k = UnknownKey(n)
  <2>1. SampleOf(health', k, n, batch'[n])
    BY <1>3, SampledIs
  <2>2. SampleOf(health, k, n, SharedKeys(n))
    BY <1>1, <2>1
  <2> QED BY <2>2, SampledIs
<1> QED BY <1>2, <1>3

\* Selecting a root keeps the count of samples.
LEMMA SampleSelect ==
  ASSUME TypeOK, TypeOK', SampleInv, NEW n \in Roots, Select(n)
  PROVE  SampleInv'
<1>1. pc = "examine" /\ pc' = pc /\ ~OutOfSamples(n)
  BY DEF Select, Examining
<1>2. samples \in [Keys -> Nat] /\ Samples \in Nat
  BY SweepAssumption DEF TypeOK
<1>3. ASSUME NEW k \in Keys
      PROVE  samples'[k] <= Samples /\ Cardinality(Sampled(k)') <= samples'[k]
  <2>1. /\ samples[k] <= Samples /\ Cardinality(Sampled(k)) <= samples[k]
        /\ IsFiniteSet(Sampled(k)) /\ Cardinality(Sampled(k)) \in Nat
    BY <1>1, SampledFinite DEF SampleInv
  <2>2. CASE IsUnknown(n) /\ k = UnknownKey(n)
    <3>1. samples'[k] = samples[k] + 1
      BY <1>2, <2>2 DEF Select
    <3>2. samples[k] < Samples
      BY <1>1, <1>2, <2>2 DEF OutOfSamples
    <3>3. Sampled(k)' \subseteq Sampled(k) \cup {n}
      BY <2>2, SampleTaken
    <3>4. IsFiniteSet(Sampled(k) \cup {n}) /\ Cardinality(Sampled(k) \cup {n}) <= Cardinality(Sampled(k)) + 1
      <4> DEFINE S == Sampled(k)
      <4>1. IsFiniteSet(S) /\ Cardinality(S) \in Nat
        BY <2>1
      <4> HIDE DEF S
      <4>2. IsFiniteSet(S \cup {n}) /\ Cardinality(S \cup {n}) \in {Cardinality(S), Cardinality(S) + 1}
        BY <4>1, FS_AddElement
      <4>3. Cardinality(S \cup {n}) <= Cardinality(S) + 1
        BY <4>1, <4>2
      <4> QED BY <4>2, <4>3 DEF S
    <3>5. /\ Cardinality(Sampled(k) \cup {n}) \in Nat /\ Cardinality(Sampled(k)') \in Nat
          /\ Cardinality(Sampled(k)') <= Cardinality(Sampled(k) \cup {n})
      BY <3>3, <3>4, FS_Subset, FS_CardinalityType
    <3> QED BY <1>2, <2>1, <3>1, <3>2, <3>4, <3>5
  <2>3. CASE ~(IsUnknown(n) /\ k = UnknownKey(n))
    <3>1. samples'[k] = samples[k]
      BY <1>2, <2>3, FirstUnknownType DEF Select
    <3>2. Sampled(k)' \subseteq Sampled(k)
      BY <2>3, SampleTaken
    <3>3. Cardinality(Sampled(k)') \in Nat /\ Cardinality(Sampled(k)') <= Cardinality(Sampled(k))
      BY <2>1, <3>2, FS_Subset, FS_CardinalityType
    <3> QED BY <1>2, <2>1, <3>1, <3>3
  <2> QED BY <2>2, <2>3
<1> QED BY <1>1, <1>3 DEF SampleInv

\* The other steps of a selection neither select nor count.
LEMMA SampleSelection ==
  ASSUME TypeOK, TypeOK', SampleInv, StartSweep \/ Selection
  PROVE  SampleInv'
<1>1. CASE StartSweep
  <2>1. UNCHANGED <<batch, samples>> /\ pc' = "page"
        /\ DOMAIN batch = {} /\ samples = NoSamples
    BY <1>1 DEF StartSweep, SampleInv
  <2>2. \A k \in Keys : samples'[k] = 0
    BY <2>1 DEF NoSamples
  <2>3. \A k : Cardinality(Sampled(k)') = 0
    BY <2>1, FS_EmptySet DEF Sampled
  <2> QED BY <2>1, <2>2, <2>3, SweepAssumption DEF SampleInv
<1>2. CASE \E n \in Roots : Select(n)
  BY <1>2, SampleSelect
<1>3. CASE ReadPage \/ NoRows \/ LimitMet \/ EndPage
           \/ (\E n \in Roots : PassOver(n) \/ Postpone(n) \/ ReachLimit(n))
  <2>1. /\ UNCHANGED <<health, batch, samples>> /\ pc \in {"page", "examine"}
        /\ pc' \in {"page", "examine", "probe"}
    BY <1>3 DEF ReadPage, NoRows, LimitMet, EndPage, PassOver, Postpone, ReachLimit, Examining,
                dbVars
  <2>2. \A k : Sampled(k)' = Sampled(k)
    BY <2>1, SampledKept
  <2> QED BY <2>1, <2>2 DEF SampleInv
<1> QED BY <1>1, <1>2, <1>3 DEF Selection

\* SampleInv holds, whatever the authorities of the roots.
LEMMA SampleInvariant == Spec => [](TypeOK /\ SampleInv)
<1>1. Init => SampleInv
  BY DEF Init, NoBatch, SampleInv
<1>2. TypeOK /\ TypeOK' /\ SampleInv /\ [Next]_vars => SampleInv'
  <2> SUFFICES ASSUME TypeOK, TypeOK', SampleInv, [Next]_vars PROVE SampleInv'
    OBVIOUS
  <2>1. CASE UNCHANGED vars
    <3>1. UNCHANGED <<health, batch, samples, pc>>
      BY <2>1 DEF vars, dbVars, batchVars
    <3>2. \A k : Sampled(k)' = Sampled(k)
      BY <3>1, SampledKept
    <3> QED BY <3>1, <3>2 DEF SampleInv
  <2>2. CASE Probes
    BY <2>2 DEF Probes, StoreResult, SampleInv
  <2>3. CASE StoreProgress \/ Crash
    BY <2>3 DEF StoreProgress, Crash, EndBatch, NoBatch, SampleInv
  <2>4. CASE DatesPass
    BY <2>4 DEF DatesPass, GateOpens, CoverageDue, AuthorityDue, BetweenSelections, batchVars,
                SampleInv
  <2> QED BY <2>1, <2>2, <2>3, <2>4, SampleSelection DEF Next, SweepStep, BatchStep
<1> QED BY <1>1, <1>2, SweepTyped, PTL DEF Spec

\* One selection takes no more samples of an authority than `Samples`, whatever the
\* pages, the limit, the authorities of the roots, and the results and crashes
\* before it.
THEOREM SamplesAreBounded == Spec => []SamplesAreLimited
<1>1. TypeOK /\ SampleInv => SamplesAreLimited
  <2> SUFFICES ASSUME TypeOK, SampleInv, pc \in {"page", "examine"}, NEW k \in Keys
               PROVE  Cardinality(Sampled(k)) <= Samples
    BY DEF SamplesAreLimited
  <2>1. Samples \in Nat /\ samples[k] \in Nat /\ Cardinality(Sampled(k)) \in Nat
    BY SweepAssumption, SampledFinite DEF TypeOK
  <2> QED BY <2>1 DEF SampleInv
<1> QED BY <1>1, SampleInvariant, PTL
=============================================================================
