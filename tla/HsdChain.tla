------------------------------ MODULE HsdChain ------------------------------
(***************************************************************************)
(* The HSD full node as the indexer sees it through JSON-RPC: a chain of   *)
(* blocks and, at its tip, one state per name.  HSD is external; only what *)
(* hsd_rpc.py calls is modelled.                                           *)
(*                                                                         *)
(* A block is identified by a version <<height, id>>, unique over all      *)
(* branches, and it carries the version of every name's state after it:    *)
(* the state of a name is identified with the block that last changed it.  *)
(* A name that was never opened has version Unregistered.                  *)
(***************************************************************************)
EXTENDS Naturals, Sequences

CONSTANTS
  Names,        \* the names of the instance
  FinalHeight,  \* blocks up to this height are never disconnected
  MaxHeight,    \* bound: the longest chain
  MaxBlocks     \* bound: how many blocks may be mined, over all branches

ASSUME ChainAssumption ==
  /\ FinalHeight \in Nat \ {0}
  /\ MaxHeight \in Nat
  /\ MaxBlocks \in Nat

VARIABLES
  chain,  \* the connected blocks, chain[h] is the block at height h
  mined,  \* how many blocks have been mined on any branch
  exports \* the JSONL files written so far: of each, the chain it was read from

chainVars == <<chain, mined, exports>>

Version == Nat \X Nat
Unregistered == <<0, 0>>
Block == [hash : Version, changed : SUBSET Names, view : [Names -> Version]]

Tip == Len(chain)

\* getblockchaininfo / getblockhash / getnameinfo / getnameresource all answer
\* from the chain HSD has connected at the moment of the call.
TipView == chain[Tip].view

\* The final prefix: every block up to FinalHeight, the first of which opens
\* the names of `opened`.
Genesis(opened) ==
  [h \in 1 .. FinalHeight |->
     [hash    |-> <<h, 0>>,
      changed |-> IF h = 1 THEN opened ELSE {},
      view    |-> [n \in Names |-> IF n \in opened THEN <<1, 0>> ELSE Unregistered]]]

ChainInit ==
  /\ \E opened \in SUBSET Names : chain = Genesis(opened)
  /\ mined = 0
  /\ exports = {}

\* A new block changes the names in S.
Connect(S) ==
  /\ Tip < MaxHeight
  /\ mined < MaxBlocks
  /\ LET v == <<Tip + 1, mined + 1>>
     IN  chain' = Append(chain,
                   [hash    |-> v,
                    changed |-> S,
                    view    |-> [n \in Names |-> IF n \in S THEN v ELSE TipView[n]]])
  /\ mined' = mined + 1
  /\ UNCHANGED exports

\* A reorganisation disconnects blocks one by one before it connects the new
\* branch, and RPC calls are answered in between.
Disconnect ==
  /\ Tip > FinalHeight
  /\ chain' = SubSeq(chain, 1, Tip - 1)
  /\ UNCHANGED <<mined, exports>>

\* hsd-export-names-jsonl.js reads the names of the tip while HSD is stopped.
Export ==
  /\ exports' = exports \cup {chain}
  /\ UNCHANGED <<chain, mined>>

ChainTypeOK ==
  /\ chain \in Seq(Block)
  /\ Tip >= FinalHeight
  /\ mined \in Nat
  /\ \A file \in exports : file \in Seq(Block) /\ Len(file) >= FinalHeight
=============================================================================
