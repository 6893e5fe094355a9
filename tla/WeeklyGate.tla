----------------------------- MODULE WeeklyGate -----------------------------
(***************************************************************************)
(* What the handoff tier's weekly gate promises (live_handoffs.py: "A new  *)
(* artifact can introduce a route that was absent during the previous      *)
(* empty pass, so do not leave it behind the weekly tier gate."): it rests *)
(* only when every indexed route has been probed, a new index ends the     *)
(* rest, and nothing is probed over a route during it.  Selections, limits *)
(* and the coverage rows shared with other tiers are left out.             *)
(***************************************************************************)
CONSTANTS
  Roots,
  Row,      \* what the index says of a root: its resource and its route
  None      \* a root without a route

VARIABLES
  routes,   \* the index: root -> row, or None
  probed,   \* rows probed over their route, ever
  open      \* the gate

gateVars == <<routes, probed, open>>

GateInit ==
  /\ routes = [r \in Roots |-> None]
  /\ probed = {}
  /\ open = TRUE

NewIndex ==
  /\ routes' \in [Roots -> Row \cup {None}]
  /\ open' = TRUE
  /\ UNCHANGED probed

ProbeRoute(r) ==
  /\ open /\ routes[r] # None
  /\ probed' = probed \cup {<<r, routes[r]>>}
  /\ UNCHANGED <<routes, open>>

Rest ==
  /\ open /\ \A r \in Roots : routes[r] # None => <<r, routes[r]>> \in probed
  /\ open' = FALSE
  /\ UNCHANGED <<routes, probed>>

WeekPasses ==
  /\ ~open /\ open' = TRUE
  /\ UNCHANGED <<routes, probed>>

GateNext == NewIndex \/ (\E r \in Roots : ProbeRoute(r)) \/ Rest \/ WeekPasses

GateSpec == GateInit /\ [][GateNext]_gateVars
=============================================================================
