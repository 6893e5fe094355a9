---------------------------- MODULE ChainReplica ----------------------------
(***************************************************************************)
(* What the topology index promises while it keeps up with the chain: a    *)
(* replica of HSD's name states that is taken at a block, follows it block *)
(* by block, and after a reorganisation steps back to a block the chain    *)
(* still has.  Commands, RPC calls, transactions, hashes, snapshots and    *)
(* kills are left out: between two steps the replica is that of one block. *)
(***************************************************************************)
EXTENDS HsdChain

CONSTANT None    \* nothing indexed yet

VARIABLES
  at,        \* height of the block the replica shows
  infos,     \* per name what getnameinfo said at that block
  resources  \* per name what getnameresource said

replicaVars == <<at, infos, resources>>

Shows(h) == infos = chain[h].view /\ resources = chain[h].view
Moved(h) == at' = h /\ infos' = chain[h].view /\ resources' = chain[h].view

ReplicaInit ==
  /\ ChainInit
  /\ at = None
  /\ infos = [n \in Names |-> Unregistered] /\ resources = infos

\* Taken from HSD itself at the tip, or from an export at the block it was read at.
Start == at = None /\ \E h \in 1 .. Tip : Moved(h)

\* One block further, from a replica of this very chain.
Follow == at + 1 = Tip /\ Shows(at) /\ Moved(Tip)

\* Back to a lower block that is on the chain now.
Rewind == \E h \in 1 .. Tip : h < at /\ Moved(h)

Step ==
  \/ Start
  \/ at # None /\ (Follow \/ Rewind)

ReplicaNext ==
  \/ (Disconnect \/ Export \/ \E S \in SUBSET Names : Connect(S)) /\ UNCHANGED replicaVars
  \/ Step /\ UNCHANGED chainVars

ReplicaSpec == ReplicaInit /\ [][ReplicaNext]_<<chainVars, replicaVars>>
=============================================================================
