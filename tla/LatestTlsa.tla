----------------------------- MODULE LatestTlsa -----------------------------
(***************************************************************************)
(* What the TLSA evidence of the topology database promises (the comment   *)
(* of summarize_tlsa_evidence, tlsa_evidence.py): of every vantage point   *)
(* the latest observation counts, older answers must not keep a removed    *)
(* TLSA record alive.  Late is by the time of the observation; of two with *)
(* the same time the one imported last.                                    *)
(***************************************************************************)
EXTENDS Naturals

CONSTANTS
  Names,
  Times,      \* when an observation may have been made
  Vantages,   \* qname, server, source and source ID of an observation
  None

VARIABLES
  latest,   \* per name and vantage point: time and answer of the observation that counts
  has       \* per name: None without evidence, else whether a TLSA record is known

Observation == [at : Times, ok : BOOLEAN]

Known(n) ==
  IF \A v \in Vantages : latest[n][v] = None THEN None
  ELSE \E v \in Vantages : latest[n][v] # None /\ latest[n][v].ok

LatestInit ==
  /\ latest = [n \in Names |-> [v \in Vantages |-> None]]
  /\ has = [n \in Names |-> None]

\* An observation arrives, perhaps later than a more recent one.
Observe(n, v, o) ==
  /\ latest' = [latest EXCEPT ![n][v] = IF @ = None \/ o.at >= @.at THEN o ELSE @]
  /\ has' = [has EXCEPT ![n] = Known(n)']

\* The name leaves the database.
Forget(n) ==
  /\ latest' = [latest EXCEPT ![n] = [v \in Vantages |-> None]]
  /\ has' = [has EXCEPT ![n] = None]

LatestNext ==
  \E n \in Names :
    \/ \E v \in Vantages, o \in Observation : Observe(n, v, o)
    \/ Forget(n)

LatestSpec == LatestInit /\ [][LatestNext]_<<latest, has>>
=============================================================================
