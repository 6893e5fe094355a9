----------------------- MODULE TopologyIndexerProofs -----------------------
(***************************************************************************)
(* Proofs, for every value of the constants, about TopologyIndexer.        *)
(***************************************************************************)
EXTENDS TopologyIndexer, TLAPS, SequenceTheorems, WellFoundedInduction

-----------------------------------------------------------------------------
(* Lemmas *)

\* A nonempty set of heights has a lowest one.
LEMMA LowestHeight ==
  ASSUME NEW S, S \subseteq Nat, S # {}
  PROVE  \E h \in S : IsMin(h, S)
<1> DEFINE R == OpToRel(<, Nat)
<1>1. \A z : z \in Nat \X Nat => (z[1] < z[2] => z \in R)
  BY Zenon DEF OpToRel
<1>2. IsWellFoundedOn(R, Nat)
  BY NatLessThanWellFounded, Zenon
<1> HIDE DEF R
<1>3. \E x \in S : \A y \in S : ~ (<<y, x>> \in R)
  BY <1>2, WFMin
<1>4. \A x, y \in Nat : y < x => <<y, x>> \in R
  <2> TAKE x, y \in Nat
  <2>1. <<y, x>> \in Nat \X Nat /\ <<y, x>>[1] = y /\ <<y, x>>[2] = x
    OBVIOUS
  <2> QED BY <2>1, <1>1
<1>5. PICK h \in S : \A y \in S : ~ (<<y, h>> \in R)
  BY <1>3
<1>6. \A k \in S : ~ (k < h)
  BY <1>4, <1>5
<1> QED BY <1>6 DEF IsMin

\* Undoing from height h restores, for each name, its lowest snapshot at or
\* above h, and leaves a name without one alone.
LEMMA UndoneValue ==
  ASSUME NEW r, NEW u, NEW h, DOMAIN u \subseteq Nat, NEW n \in Names
  PROVE  /\ Snapshots(u, h, n) = {} => Undone(r, u, h)[n] = r[n]
         /\ \A k \in Nat : IsMin(k, Snapshots(u, h, n)) => Undone(r, u, h)[n] = u[k][n]
         /\ Snapshots(u, h, n) # {} => \E k \in Nat : IsMin(k, Snapshots(u, h, n))
<1> DEFINE S == Snapshots(u, h, n)
           low == CHOOSE k \in S : IsMin(k, S)
<1>1. S \subseteq Nat
  BY DEF Snapshots
<1>2. Undone(r, u, h)[n] = IF S = {} THEN r[n] ELSE u[low][n]
  BY DEF Undone
<1>3. S # {} => \E k \in S : IsMin(k, S)
  BY <1>1, LowestHeight
<1> HIDE DEF S
<1>4. S # {} => low \in S /\ IsMin(low, S)
  BY <1>3, Zenon
<1>5. ASSUME NEW k \in Nat, IsMin(k, S)
      PROVE  S # {} /\ k = low
  <2>1. S # {} /\ k \in S
    BY <1>5 DEF IsMin
  <2>2. low \in S /\ IsMin(low, S)
    BY <1>4, <2>1
  <2>3. k <= low /\ low <= k /\ low \in Nat
    BY <1>1, <1>5, <2>1, <2>2 DEF IsMin
  <2> QED BY <2>1, <2>3
<1>6. \A k \in Nat : IsMin(k, S) => Undone(r, u, h)[n] = u[k][n]
  BY <1>2, <1>5
<1>7. S # {} => \E k \in Nat : IsMin(k, S)
  BY <1>1, <1>3
<1> QED BY <1>2, <1>6, <1>7 DEF S

\* Rows stay rows, and snapshots snapshots.
LEMMA UndoneType ==
  ASSUME NEW r \in Rows, NEW u, NEW h, DOMAIN u \subseteq Nat,
         \A k \in DOMAIN u : IsSnapshot(u[k])
  PROVE  Undone(r, u, h) \in Rows
<1>1. ASSUME NEW n \in Names
      PROVE  Undone(r, u, h)[n] \in Row \cup {None}
  <2>1. CASE Snapshots(u, h, n) = {}
    BY <2>1, UndoneValue DEF Rows
  <2>2. CASE Snapshots(u, h, n) # {}
    <3>1. PICK k \in Nat : IsMin(k, Snapshots(u, h, n))
      BY <2>2, UndoneValue
    <3>2. k \in DOMAIN u /\ n \in DOMAIN u[k]
      BY <3>1 DEF IsMin, Snapshots
    <3>3. Undone(r, u, h)[n] = u[k][n]
      BY <3>1, UndoneValue
    <3> QED BY <3>2, <3>3 DEF IsSnapshot
  <2> QED BY <2>1, <2>2
<1>2. Undone(r, u, h) = [n \in Names |-> Undone(r, u, h)[n]]
  BY DEF Undone
<1> QED BY <1>1, <1>2 DEF Rows

-----------------------------------------------------------------------------
(* Type correctness *)

\* Each place in the code belongs to some commands, the heights a command works
\* on are heights of blocks, and a name half read has a row to complete.
CommandOK ==
  /\ pc = "idle" => cmd = "none"
  /\ pc = "names" => cmd = "boot"
  /\ pc = "check" => cmd \in {"check", "catch-up", "scan", "file"}
  /\ pc \in {"plan", "finish"} => cmd = "catch-up"
  /\ pc = "fetch" => cmd \in {"catch-up", "scan", "file"}
  /\ pc = "read" => cmd \in {"boot", "catch-up", "scan", "file"}
  /\ cmd = "scan" \/ pc \in {"rollback", "fetch"} \/ (pc = "read" /\ cmd # "boot") => cur > 0

HalfRead ==
  pc = "read" => \A n \in todo : cmd = "boot" \/ n \in DOMAIN snap => work[n] # None

TypeInv == TypeOK /\ CommandOK /\ HalfRead

\* A row is never taken for the absence of a row.
LEMMA RowIsNotNone == \A row \in Row : row # None
  BY IndexerAssumption DEF Row

\* HSD always has a tip at or above the final height, with a state per name.
LEMMA TipFacts ==
  ASSUME ChainTypeOK
  PROVE  /\ Tip \in Nat /\ Tip > 0
         /\ TipView \in [Names -> Version]
         /\ \A h \in 1 .. Tip : chain[h] \in Block
<1>1. Tip \in Nat /\ Tip > 0
  BY ChainAssumption DEF ChainTypeOK, Tip
<1>2. \A h \in 1 .. Tip : chain[h] \in Block
  BY DEF ChainTypeOK, Tip
<1>3. chain[Tip] \in Block
  BY <1>1, <1>2
<1> QED BY <1>1, <1>2, <1>3 DEF TipView, Block

\* A file that was written has at least the final prefix, with a state per name.
LEMMA FileFacts ==
  ASSUME ChainTypeOK, NEW file \in exports
  PROVE  /\ Len(file) \in Nat /\ Len(file) > 0
         /\ file[Len(file)].view \in [Names -> Version]
         /\ \A h \in 1 .. Len(file) : file[h] \in Block
<1>1. file \in Seq(Block) /\ Len(file) >= FinalHeight
  BY DEF ChainTypeOK
<1>2. Len(file) \in Nat /\ Len(file) > 0
  BY <1>1, ChainAssumption
<1>3. \A h \in 1 .. Len(file) : file[h] \in Block
  BY <1>1
<1>4. file[Len(file)] \in Block
  BY <1>2, <1>3
<1> QED BY <1>2, <1>3, <1>4 DEF Block

\* Mining a block keeps the chain well-formed.
LEMMA ConnectType ==
  ASSUME ChainTypeOK, NEW S \in SUBSET Names, Connect(S)
  PROVE  ChainTypeOK'
<1> DEFINE v == <<Tip + 1, mined + 1>>
           b == [hash    |-> v,
                 changed |-> S,
                 view    |-> [n \in Names |-> IF n \in S THEN v ELSE TipView[n]]]
<1>1. chain' = Append(chain, b) /\ mined' = mined + 1 /\ exports' = exports
  BY DEF Connect
<1>2. v \in Version
  BY TipFacts DEF Version, ChainTypeOK
<1>3. [n \in Names |-> IF n \in S THEN v ELSE TipView[n]] \in [Names -> Version]
  BY <1>2, TipFacts
<1>4. b \in Block
  BY <1>2, <1>3 DEF Block
<1> HIDE DEF b
<1>5. chain' \in Seq(Block) /\ Len(chain') = Len(chain) + 1
  BY <1>1, <1>4 DEF ChainTypeOK
<1> QED BY <1>1, <1>5, ChainAssumption DEF ChainTypeOK, Tip

\* Disconnecting a block keeps the chain well-formed.
LEMMA DisconnectType ==
  ASSUME ChainTypeOK, Disconnect
  PROVE  ChainTypeOK'
<1>1. /\ chain' = SubSeq(chain, 1, Tip - 1) /\ mined' = mined /\ Tip > FinalHeight
      /\ exports' = exports
  BY DEF Disconnect
<1>2. Tip - 1 \in Nat /\ \A h \in 1 .. Tip - 1 : chain[h] \in Block
  BY <1>1, TipFacts
<1>3. chain' \in Seq(Block) /\ Len(chain') = Tip - 1
  BY <1>1, <1>2, SubSeqProperties
<1>4. Tip \in Nat /\ FinalHeight \in Nat /\ Tip - 1 >= FinalHeight
  BY <1>1, TipFacts, ChainAssumption
<1> QED BY <1>1, <1>3, <1>4 DEF ChainTypeOK, Tip

\* The final prefix is a well-formed chain.
LEMMA GenesisType ==
  ASSUME NEW opened \in SUBSET Names
  PROVE  Genesis(opened) \in Seq(Block) /\ Len(Genesis(opened)) = FinalHeight
<1>1. Unregistered \in Version /\ <<1, 0>> \in Version /\ \A h \in Nat : <<h, 0>> \in Version
  BY DEF Unregistered, Version
<1>2. \A h \in 1 .. FinalHeight : Genesis(opened)[h] \in Block
  <2> TAKE h \in 1 .. FinalHeight
  <2> DEFINE view == [n \in Names |-> IF n \in opened THEN <<1, 0>> ELSE Unregistered]
             changed == IF h = 1 THEN opened ELSE {}
  <2>1. Genesis(opened)[h] = [hash |-> <<h, 0>>, changed |-> changed, view |-> view]
    BY DEF Genesis
  <2>2. view \in [Names -> Version] /\ changed \in SUBSET Names
    BY <1>1
  <2>3. <<h, 0>> \in Version
    BY <1>1, ChainAssumption
  <2> HIDE DEF view, changed
  <2> QED BY <2>1, <2>2, <2>3 DEF Block
<1>3. Genesis(opened) = [h \in 1 .. FinalHeight |-> Genesis(opened)[h]]
  BY DEF Genesis
<1> QED BY <1>2, <1>3, ChainAssumption

\* A command that ends leaves a well-typed empty transaction.
LEMMA EndCommandType ==
  ASSUME EndCommand
  PROVE  /\ pc' = "idle" /\ cmd' = "none" /\ rollback' \in BOOLEAN
         /\ pending' \subseteq Nat \ {0} /\ cur' \in Nat /\ target' \in Nat
         /\ hash' \in Version /\ todo' \subseteq Names /\ work' \in Rows
         /\ IsSnapshot(snap')
         /\ CommandOK' /\ HalfRead'
<1>1. NoRows \in Rows
  BY DEF NoRows, Rows
<1>2. IsSnapshot(Empty)
  BY DEF IsSnapshot, Empty
<1> QED BY <1>1, <1>2 DEF EndCommand, CommandOK, HalfRead, Version, Unregistered

\* A database that was never bootstrapped is well-typed.
LEMMA TypeInit == Init => TypeInv
<1> SUFFICES ASSUME Init PROVE TypeInv
  OBVIOUS
<1>1. ChainTypeOK
  BY GenesisType, ChainAssumption DEF Init, ChainInit, ChainTypeOK, Tip
<1>2. NoRows \in Rows /\ IsSnapshot(Empty) /\ DOMAIN Empty = {} /\ Unregistered \in Version
  BY DEF NoRows, Rows, IsSnapshot, Empty, Unregistered, Version
<1> QED BY <1>1, <1>2 DEF Init, TypeInv, TypeOK, CommandOK, HalfRead

\* HSD moving on, and a file written from it, change nothing of the indexer.
LEMMA ChainMovesType == TypeInv /\ (ChainMoves \/ ExportJsonl) => TypeInv'
<1> SUFFICES ASSUME TypeInv, ChainMoves \/ ExportJsonl PROVE TypeInv'
  OBVIOUS
<1>1. ASSUME ChainMoves PROVE ChainTypeOK'
  BY <1>1, ConnectType, DisconnectType DEF ChainMoves, TypeInv, TypeOK
<1>2. ASSUME ExportJsonl PROVE ChainTypeOK'
  BY <1>2 DEF ExportJsonl, Export, TypeInv, TypeOK, ChainTypeOK, Tip
<1> QED BY <1>1, <1>2 DEF ChainMoves, ExportJsonl, TypeInv, TypeOK, CommandOK, HalfRead, dbVars, runVars, txnVars, IsSnapshot

\* A bootstrap, from RPC or from an export, stores well-formed rows.
LEMMA BootstrapType ==
  TypeInv /\ (BootstrapTip \/ BootstrapNames \/ BootstrapCommit \/ ImportJsonl) => TypeInv'
<1> SUFFICES ASSUME TypeInv PROVE BootstrapTip \/ BootstrapNames \/ BootstrapCommit
                                    \/ ImportJsonl => TypeInv'
  OBVIOUS
<1> USE DEF TypeInv, TypeOK, CommandOK, HalfRead
<1>1. ASSUME BootstrapTip PROVE TypeInv'
  BY <1>1, TipFacts DEF BootstrapTip, chainVars, dbVars, txnVars, ChainTypeOK, Tip,
                        IsSnapshot
<1>2. ASSUME BootstrapNames PROVE TypeInv'
  <2>1. \A n \in Names : [info |-> TipView[n], resource |-> None] \in Row
    BY TipFacts DEF Row
  <2>2. work' \in Rows /\ todo' \subseteq Names
    BY <1>2, <2>1 DEF BootstrapNames, Rows
  <2>3. HalfRead'
    BY <1>2, <2>1, RowIsNotNone DEF BootstrapNames
  <2>4. CommandOK'
    BY <1>2 DEF BootstrapNames
  <2> HIDE DEF CommandOK, HalfRead
  <2> QED BY <1>2, <2>2, <2>3, <2>4
          DEF BootstrapNames, chainVars, dbVars, ChainTypeOK, Tip, IsSnapshot
<1>3. ASSUME BootstrapCommit PROVE TypeInv'
  BY <1>3, EndCommandType DEF BootstrapCommit, chainVars, ChainTypeOK, Tip, IsSnapshot
<1>4. ASSUME ImportJsonl PROVE TypeInv'
  <2> PICK file \in exports : Import(file)
    BY <1>4 DEF ImportJsonl
  <2>1. rows' \in Rows
    BY FileFacts DEF Import, Rows, Row
  <2>2. DOMAIN history' \subseteq Nat \ {0} /\ \A h \in DOMAIN history' : history'[h] \in Version
    BY FileFacts DEF Import, Block
  <2>3. lastHeight' \in Nat
    BY FileFacts DEF Import
  <2> QED BY <2>1, <2>2, <2>3
          DEF Import, chainVars, runVars, txnVars, ChainTypeOK, Tip, IsSnapshot
<1> QED BY <1>1, <1>2, <1>3, <1>4

\* Starting a command copies the stored heights to be compared.
LEMMA StartCheckType ==
  ASSUME TypeInv, NEW c \in {"check", "catch-up", "scan", "file"}, NEW rb \in BOOLEAN,
         NEW h \in Nat, c = "scan" => h > 0, StartCheck(c, rb, h)
  PROVE  TypeInv'
  BY DEF TypeInv, TypeOK, StartCheck, CommandOK, HalfRead, chainVars, dbVars, txnVars, ChainTypeOK, Tip,
         IsSnapshot

\* Comparing hashes, and what follows a clean comparison, is well-typed.
LEMMA CheckType ==
  TypeInv /\ (ReorgCheck \/ CatchUp \/ Scan \/ FromFile \/ CompareHash \/ CheckPassed) => TypeInv'
<1> SUFFICES ASSUME TypeInv PROVE ReorgCheck \/ CatchUp \/ Scan \/ FromFile \/ CompareHash
                                    \/ CheckPassed => TypeInv'
  OBVIOUS
<1>1. ASSUME ReorgCheck \/ CatchUp \/ Scan \/ FromFile PROVE TypeInv'
  BY <1>1, StartCheckType, IndexerAssumption DEF ReorgCheck, CatchUp, Scan, FromFile
<1> USE DEF TypeInv, TypeOK, CommandOK, HalfRead
<1>2. ASSUME CompareHash PROVE TypeInv'
  <2>1. PICK h \in pending :
          \/ /\ pending' = pending \ {h}
             /\ UNCHANGED <<pc, cmd, rollback, cur, target, txnVars>>
          \/ /\ pc' = "rollback"
             /\ cur' = h
             /\ UNCHANGED <<cmd, rollback, pending, target, txnVars>>
          \/ EndCommand
    BY <1>2 DEF CompareHash
  <2>2. UNCHANGED <<chainVars, dbVars, before>> /\ pc = "check"
    BY <1>2 DEF CompareHash
  <2> USE DEF chainVars, dbVars, txnVars, ChainTypeOK, Tip, IsSnapshot
  <2>3. CASE EndCommand
    BY <2>2, <2>3, EndCommandType
  <2>4. CASE pending' = pending \ {h} /\ UNCHANGED <<pc, cmd, rollback, cur, target, txnVars>>
    BY <2>2, <2>4
  <2>5. CASE /\ pc' = "rollback"
             /\ cur' = h
             /\ UNCHANGED <<cmd, rollback, pending, target, txnVars>>
    BY <2>2, <2>5
  <2> QED BY <2>1, <2>3, <2>4, <2>5
<1>3. ASSUME CheckPassed PROVE TypeInv'
  <2> USE DEF CheckPassed, chainVars, dbVars, txnVars, ChainTypeOK, Tip, IsSnapshot
  <2>1. CASE EndCommand
    BY <1>3, <2>1, EndCommandType
  <2>2. CASE ~EndCommand
    BY <1>3, <2>2, TipFacts
  <2> QED BY <2>1, <2>2
<1> QED BY <1>1, <1>2, <1>3

\* A rollback leaves well-formed rows, windows and a height.
LEMMA RollbackType == TypeInv /\ RollbackReorg => TypeInv'
<1> SUFFICES ASSUME TypeInv, RollbackReorg PROVE TypeInv'
  OBVIOUS
<1> USE DEF TypeInv, TypeOK, CommandOK, HalfRead
<1>1. rows' \in Rows
  BY UndoneType DEF RollbackReorg, RolledBack
<1>2. cur > 0
  BY DEF RollbackReorg
<1>3. /\ history' = Restricted(history, 0 .. cur - 1)
      /\ undo' = Restricted(undo, 0 .. cur - 1)
      /\ before' = Restricted(before, 0 .. cur - 1)
      /\ summary' = rows' /\ UNCHANGED chainVars /\ EndCommand
  BY DEF RollbackReorg, RolledBack
<1>4. /\ DOMAIN history' \subseteq Nat \ {0}
      /\ \A h \in DOMAIN history' : history'[h] \in Version
      /\ DOMAIN undo' \subseteq Nat \ {0}
      /\ \A h \in DOMAIN undo' : IsSnapshot(undo'[h])
      /\ DOMAIN before' \subseteq Nat \ {0}
  BY <1>3 DEF Restricted
<1>5. lastHeight' \in Nat
  <2>1. CASE lastHeight' = cur - 1
    BY <1>2, <2>1
  <2>2. CASE \E h \in DOMAIN history' : lastHeight' = h
    BY <1>4, <2>2
  <2> QED BY <2>1, <2>2 DEF RollbackReorg, RolledBack
<1> QED BY <1>1, <1>3, <1>4, <1>5, EndCommandType DEF chainVars, ChainTypeOK, Tip

\* Planning a catch-up and fetching a block open a well-formed transaction.
LEMMA FetchType == TypeInv /\ (PlanCatchUp \/ FetchBlock) => TypeInv'
<1> SUFFICES ASSUME TypeInv PROVE PlanCatchUp \/ FetchBlock => TypeInv'
  OBVIOUS
<1> USE DEF TypeInv, TypeOK, CommandOK, HalfRead
<1>1. ASSUME PlanCatchUp PROVE TypeInv'
  <2> USE DEF chainVars, dbVars, txnVars, ChainTypeOK, Tip, IsSnapshot
  <2>1. CASE EndCommand
    BY <1>1, <2>1, EndCommandType DEF PlanCatchUp
  <2>2. CASE ~EndCommand
    <3>1. PICK to \in {Tip} \cup ToHeights :
            /\ lastHeight # None
            /\ pc' = "fetch"
            /\ cur' = lastHeight + 1
            /\ target' = to
            /\ UNCHANGED <<cmd, rollback, pending, txnVars>>
      BY <1>1, <2>2 DEF PlanCatchUp
    <3>2. cur' \in Nat /\ cur' > 0 /\ target' \in Nat
      <4>1. lastHeight \in Nat
        BY <3>1
      <4>2. Tip \in Nat /\ ToHeights \subseteq Nat
        BY TipFacts, IndexerAssumption
      <4>3. to \in Nat
        BY <4>2
      <4>4. cur' = lastHeight + 1 /\ target' = to
        BY <3>1
      <4> HIDE DEF TypeInv
      <4> QED BY <4>1, <4>3, <4>4
    <3>3. UNCHANGED <<chainVars, dbVars, txnVars, before>>
      BY <1>1, <3>1 DEF PlanCatchUp
    <3>4. cmd' = "catch-up"
      BY <1>1, <3>1 DEF PlanCatchUp
    <3> QED BY <3>1, <3>2, <3>3, <3>4
  <2> QED BY <2>1, <2>2
<1>2. ASSUME FetchBlock PROVE TypeInv'
  <2> USE DEF chainVars, dbVars, txnVars, ChainTypeOK, Tip
  <2>1. CASE EndCommand
    BY <1>2, <2>1, EndCommandType DEF FetchBlock
  <2>2. CASE ~EndCommand
    <3>1. cur \in 1 .. Tip
      BY <1>2, <2>2, TipFacts DEF FetchBlock
    <3>2. chain[cur].changed \subseteq Names /\ chain[cur].hash \in Version
      BY <3>1, TipFacts DEF Block
    <3>3. todo' \subseteq Names
      <4>1. todo' \in FetchedNames /\ cmd \in {"catch-up", "scan", "file"}
        BY <1>2, <2>2 DEF FetchBlock
      <4>2. FetchedNames \subseteq NameFiles \cup {chain[cur].changed}
        BY <4>1 DEF FetchedNames
      <4> QED BY <4>1, <4>2, <3>2, IndexerAssumption
    <3>4. IsSnapshot(snap')
      BY <1>2, <2>2 DEF FetchBlock, IsSnapshot, Empty
    <3>5. HalfRead'
      BY <1>2, <2>2 DEF FetchBlock, Empty
    <3>6. CommandOK'
      BY <1>2, <2>2 DEF FetchBlock
    <3> HIDE DEF CommandOK, HalfRead
    <3> QED BY <1>2, <2>2, <3>2, <3>3, <3>4, <3>5, <3>6 DEF FetchBlock
  <2> QED BY <2>1, <2>2
<1> QED BY <1>1, <1>2

\* Re-reading a name keeps both halves of its row and its captured old row.
LEMMA ReadType ==
  ASSUME TypeInv, NEW n \in Names, ReadInfo(n) \/ ReadResource(n)
  PROVE  TypeInv'
<1> USE DEF TypeInv, TypeOK, CommandOK, HalfRead, chainVars, dbVars, runVars, ChainTypeOK, Tip
<1>1. ASSUME ReadInfo(n) PROVE TypeInv'
  <2>1. work' \in Rows
    <3>1. [info |-> TipView[n], resource |-> None] \in Row
      BY TipFacts DEF Row
    <3> QED BY <1>1, <3>1 DEF ReadInfo, Rows
  <2>2. IsSnapshot(snap')
    BY <1>1 DEF ReadInfo, IsSnapshot, Rows
  <2>3. HalfRead'
    <3>1. \A m \in todo : m \in DOMAIN snap' => m = n
      BY <1>1 DEF ReadInfo
    <3>2. work'[n] = [info |-> TipView[n], resource |-> None]
      BY <1>1 DEF ReadInfo, Rows
    <3>3. work'[n] # None
      BY <3>2, RowIsNotNone, TipFacts DEF Row
    <3> QED BY <1>1, <3>1, <3>3 DEF ReadInfo
  <2>4. CommandOK'
    BY <1>1 DEF ReadInfo
  <2> HIDE DEF CommandOK, HalfRead
  <2> QED BY <1>1, <2>1, <2>2, <2>3, <2>4 DEF ReadInfo
<1>2. ASSUME ReadResource(n) PROVE TypeInv'
  <2>1. work' \in Rows
    <3>1. work[n] \in Row
      BY <1>2 DEF ReadResource, Rows
    <3>2. [work[n] EXCEPT !.resource = TipView[n]] \in Row
      BY <3>1, TipFacts DEF Row
    <3> QED BY <1>2, <3>2 DEF ReadResource, Rows
  <2> QED BY <1>2, <2>1 DEF ReadResource, IsSnapshot
<1> QED BY <1>1, <1>2

\* Committing a block, or the provider summary, stores well-formed values.
LEMMA CommitType == TypeInv /\ (CommitBlock \/ FinishCatchUp) => TypeInv'
<1> SUFFICES ASSUME TypeInv PROVE CommitBlock \/ FinishCatchUp => TypeInv'
  OBVIOUS
<1> USE DEF TypeInv, TypeOK, chainVars, ChainTypeOK, Tip
<1>1. ASSUME CommitBlock PROVE TypeInv'
  <2>1. cur \in Nat \ {0}
    BY <1>1 DEF CommitBlock, CommandOK
  <2>2. DOMAIN history' \subseteq Nat \ {0} /\ \A h \in DOMAIN history' : history'[h] \in Version
    BY <1>1, <2>1 DEF CommitBlock, Pruned, Restricted
  <2>3. DOMAIN before' \subseteq Nat \ {0}
    BY <1>1, <2>1 DEF CommitBlock, Pruned, Restricted
  <2>4. DOMAIN undo' \subseteq Nat \ {0}
    BY <1>1, <2>1 DEF CommitBlock, Pruned, Restricted
  <2>5. ASSUME NEW h \in DOMAIN undo' PROVE IsSnapshot(undo'[h])
    <3>1. CASE h # cur
      <4>1. h \in DOMAIN undo /\ undo'[h] = undo[h]
        BY <1>1, <2>5, <3>1 DEF CommitBlock, Pruned, Restricted
      <4> QED BY <4>1
    <3>2. CASE h = cur /\ cur \notin DOMAIN undo
      <4>1. undo'[h] = snap
        BY <1>1, <2>5, <3>2 DEF CommitBlock, Pruned, Restricted
      <4> QED BY <4>1
    <3>3. CASE h = cur /\ cur \in DOMAIN undo
      <4>1. undo'[h] = [n \in (DOMAIN snap) \cup (DOMAIN undo[h]) |->
                          IF n \in DOMAIN snap THEN snap[n] ELSE undo[h][n]]
        BY <1>1, <2>5, <3>3 DEF CommitBlock, Pruned, Restricted
      <4>2. IsSnapshot(undo[h])
        BY <3>3
      <4> QED BY <4>1, <4>2 DEF IsSnapshot
    <3> QED BY <3>1, <3>2, <3>3
  <2>6. rows' \in Rows /\ lastHeight' \in Nat /\ UNCHANGED <<chain, mined, exports>>
    BY <1>1 DEF CommitBlock
  <2>7. CASE cmd \in {"scan", "file"}
    BY <1>1, <2>2, <2>3, <2>4, <2>5, <2>6, <2>7, EndCommandType DEF CommitBlock
  <2>8. CASE cmd = "catch-up"
    <3>1. /\ pc' = IF cur = target THEN "finish" ELSE "fetch"
          /\ cur' = IF cur = target THEN cur ELSE cur + 1
          /\ hash' = Unregistered
          /\ work' = NoRows
          /\ snap' = Empty
          /\ UNCHANGED <<summary, cmd, rollback, pending, target, todo>>
      BY <1>1, <2>8 DEF CommitBlock
    <3>2. NoRows \in Rows /\ IsSnapshot(Empty) /\ Unregistered \in Version
      BY DEF NoRows, Rows, IsSnapshot, Empty, Unregistered, Version
    <3>3. pc' \in {"finish", "fetch"} /\ cur' \in Nat \ {0}
      BY <2>1, <3>1
    <3>4. CommandOK' /\ HalfRead'
      BY <2>8, <3>1, <3>3 DEF CommandOK, HalfRead
    <3> QED BY <2>2, <2>3, <2>4, <2>5, <2>6, <3>1, <3>2, <3>3, <3>4
  <2> QED BY <1>1, <2>7, <2>8 DEF CommitBlock
<1>2. ASSUME FinishCatchUp PROVE TypeInv'
  BY <1>2, EndCommandType DEF FinishCatchUp, IsSnapshot
<1> QED BY <1>1, <1>2

\* An interruption drops the transaction and keeps the database.
LEMMA InterruptedType == TypeInv /\ Interrupted => TypeInv'
  BY EndCommandType DEF Interrupted, TypeInv, TypeOK, chainVars, dbVars, ChainTypeOK, Tip,
                        IsSnapshot

\* The type invariant is about the specification's variables only.
LEMMA StutterType == TypeInv /\ UNCHANGED vars => TypeInv'
  BY DEF vars, chainVars, dbVars, runVars, txnVars, TypeInv, TypeOK, CommandOK, HalfRead,
         ChainTypeOK, Tip, IsSnapshot

\* Type correctness with its strengthening, for every behaviour.
LEMMA TypeInvariant == Spec => []TypeInv
<1>1. Init => TypeInv
  BY TypeInit
<1>2. TypeInv /\ [Next]_vars => TypeInv'
  BY ChainMovesType, BootstrapType, CheckType, RollbackType, FetchType, ReadType, CommitType,
     InterruptedType, StutterType DEF Next, Command
<1> QED BY <1>1, <1>2, PTL DEF Spec

\* The indexer never leaves its types: no interleaving of the chain, the nightly
\* commands, manual scans, bootstraps, rollbacks and interruptions stores an
\* ill-formed row, height, hash or snapshot.
THEOREM TypeCorrect == Spec => []TypeOK
<1>1. TypeInv => TypeOK
  BY DEF TypeInv
<1> QED BY <1>1, TypeInvariant, PTL

-----------------------------------------------------------------------------
(* The reorg window of the nightly commands *)

\* The operator bootstraps once, from an export whose history fits in the
\* window, and leaves the rest to reorg-check and catch-up.
NightlyOnly ==
  /\ ScanHeights = {}
  /\ NameFiles = {}
  /\ ~Rebootstrap
  /\ ImportedBlocks <= KeepBlocks + 1

\* What the running command knows about the recorded history.
NightlyInv ==
  /\ cmd \in {"none", "boot", "check", "catch-up"}
  /\ lastHeight = None => DOMAIN history = {}
  /\ cmd = "boot" => lastHeight = None
  /\ pc = "check" => pending \subseteq DOMAIN history
  /\ pc = "rollback" => cur \in DOMAIN history
  /\ pc = "fetch" \/ (pc = "read" /\ cmd = "catch-up") =>
       lastHeight # None /\ cur = lastHeight + 1

WindowInv == NightlyInv /\ HistoryIsContiguous

\* A step that changes nothing in the database.
LEMMA WindowKept ==
  ASSUME NightlyInv', WindowInv, UNCHANGED dbVars
  PROVE  WindowInv'
  BY DEF WindowInv, HistoryIsContiguous, dbVars

\* Steps that commit nothing keep the window.
LEMMA WindowQuietSteps ==
  ASSUME NightlyOnly, TypeInv, WindowInv,
         \/ ChainMoves \/ ExportJsonl \/ BootstrapTip \/ BootstrapNames \/ ReorgCheck
         \/ CatchUp \/ Scan \/ FromFile \/ CompareHash \/ CheckPassed \/ PlanCatchUp \/ FetchBlock
         \/ (\E n \in Names : ReadInfo(n) \/ ReadResource(n))
         \/ Interrupted \/ UNCHANGED vars
  PROVE  WindowInv'
<1> USE DEF NightlyInv
<1>1. ASSUME EndCommand, UNCHANGED dbVars PROVE WindowInv'
  BY <1>1, WindowKept DEF WindowInv, EndCommand, dbVars
<1>2. ASSUME ChainMoves \/ ExportJsonl \/ UNCHANGED vars PROVE WindowInv'
  BY <1>2, WindowKept DEF WindowInv, ChainMoves, ExportJsonl, vars, dbVars, runVars
<1>3. ASSUME BootstrapTip \/ BootstrapNames PROVE WindowInv'
  BY <1>3, WindowKept, IndexerAssumption
     DEF WindowInv, BootstrapTip, BootstrapNames, MayBootstrap, dbVars, NightlyOnly, TypeInv,
         CommandOK
<1>4. ASSUME ReorgCheck \/ CatchUp PROVE WindowInv'
  BY <1>4, WindowKept DEF WindowInv, ReorgCheck, CatchUp, StartCheck, dbVars
<1>5. ~Scan /\ ~FromFile
  BY DEF Scan, FromFile, NightlyOnly
<1>6. ASSUME CompareHash PROVE WindowInv'
  <2>1. UNCHANGED dbVars /\ pc = "check"
    BY <1>6 DEF CompareHash
  <2>2. PICK h \in pending :
          \/ /\ pending' = pending \ {h}
             /\ UNCHANGED <<pc, cmd, rollback, cur, target, txnVars>>
          \/ /\ pc' = "rollback"
             /\ cur' = h
             /\ UNCHANGED <<cmd, rollback, pending, target, txnVars>>
          \/ EndCommand
    BY <1>6 DEF CompareHash
  <2>3. CASE ~EndCommand
    BY <2>1, <2>2, <2>3, WindowKept DEF WindowInv, dbVars
  <2> QED BY <1>1, <2>1, <2>3
<1>7. ASSUME CheckPassed PROVE WindowInv'
  BY <1>1, <1>7, WindowKept DEF WindowInv, CheckPassed, dbVars
<1>8. ASSUME PlanCatchUp PROVE WindowInv'
  <2>1. UNCHANGED dbVars /\ pc = "plan" /\ cmd = "catch-up"
    BY <1>8 DEF PlanCatchUp, TypeInv, CommandOK
  <2>2. \/ EndCommand
        \/ /\ lastHeight # None /\ pc' = "fetch" /\ cur' = lastHeight + 1
           /\ UNCHANGED cmd
    BY <1>8 DEF PlanCatchUp
  <2> QED BY <1>1, <2>1, <2>2, WindowKept DEF WindowInv, dbVars
<1>9. ASSUME FetchBlock PROVE WindowInv'
  <2>1. UNCHANGED dbVars /\ pc = "fetch"
    BY <1>9 DEF FetchBlock
  <2>2. EndCommand \/ (pc' = "read" /\ UNCHANGED <<cmd, cur>>)
    BY <1>9 DEF FetchBlock
  <2> QED BY <1>1, <2>1, <2>2, WindowKept DEF WindowInv, dbVars
<1>10. ASSUME \E n \in Names : ReadInfo(n) \/ ReadResource(n) PROVE WindowInv'
  BY <1>10, WindowKept DEF WindowInv, ReadInfo, ReadResource, dbVars, runVars
<1>11. ASSUME Interrupted PROVE WindowInv'
  BY <1>1, <1>11 DEF Interrupted
<1> QED BY <1>2, <1>3, <1>4, <1>5, <1>6, <1>7, <1>8, <1>9, <1>10, <1>11

\* In nightly use a bootstrap meets an empty history; an import writes one run.
LEMMA WindowBootstrap ==
  ASSUME NightlyOnly, TypeInv, WindowInv, BootstrapCommit \/ ImportJsonl
  PROVE  WindowInv'
<1>1. ASSUME BootstrapCommit PROVE WindowInv'
  <2>1. DOMAIN history = {} /\ history' = history /\ cur \in Nat /\ lastHeight' = cur
    BY <1>1 DEF BootstrapCommit, WindowInv, NightlyInv, TypeInv, TypeOK
  <2> QED BY <1>1, <2>1 DEF BootstrapCommit, EndCommand, WindowInv, NightlyInv,
                             HistoryIsContiguous
<1>2. ASSUME ImportJsonl PROVE WindowInv'
  <2> PICK file \in exports : Import(file)
    BY <1>2 DEF ImportJsonl
  <2> DEFINE height == Len(file)
  <2>1. lastHeight = None /\ DOMAIN history = {}
    BY DEF Import, MayBootstrap, NightlyOnly, WindowInv, NightlyInv
  <2>2. height \in Nat /\ lastHeight' = height /\ lastHeight' # None
    BY FileFacts, IndexerAssumption DEF Import, TypeInv, TypeOK
  <2>3. DOMAIN history' = {h \in 1 .. height : h + ImportedBlocks > height}
    BY <2>1 DEF Import
  <2>4. HistoryIsContiguous'
    BY <2>2, <2>3, IndexerAssumption DEF HistoryIsContiguous, NightlyOnly
  <2>5. NightlyInv'
    BY <2>1, <2>2
       DEF Import, MayBootstrap, runVars, WindowInv, NightlyInv, TypeInv, CommandOK
  <2> QED BY <2>4, <2>5 DEF WindowInv
<1> QED BY <1>1, <1>2

\* A rollback cuts the window below the mismatch and steps the height back to it.
LEMMA WindowRollback ==
  ASSUME TypeInv, WindowInv, RollbackReorg
  PROVE  WindowInv'
<1>1. cur \in Nat \ {0} /\ cur \in DOMAIN history
  BY DEF RollbackReorg, WindowInv, NightlyInv, TypeInv, TypeOK, CommandOK
<1>2. DOMAIN history' = {h \in DOMAIN history : h < cur} /\ EndCommand
  BY <1>1 DEF RollbackReorg, RolledBack, Restricted, TypeInv, TypeOK
<1>3. lastHeight' \in Nat
  BY RollbackType DEF RollbackReorg, RolledBack, TypeInv, TypeOK, Restricted, WindowInv, NightlyInv
<1>4. NightlyInv'
  BY <1>2, <1>3, IndexerAssumption DEF EndCommand, NightlyInv
<1>5. ASSUME DOMAIN history' # {} PROVE HistoryIsContiguous'
  <2>1. lastHeight' \in DOMAIN history' /\ \A k \in DOMAIN history' : k <= lastHeight'
    BY <1>5 DEF RollbackReorg, RolledBack
  <2>2. /\ lastHeight \in Nat
        /\ \A h \in DOMAIN history : h \in Nat /\ h <= lastHeight /\ h + KeepBlocks >= lastHeight
        /\ \A h, k \in DOMAIN history : \A i \in h .. k : i \in DOMAIN history
    BY <1>1 DEF WindowInv, HistoryIsContiguous, TypeInv, TypeOK
  <2>3. \A h \in DOMAIN history' : h + KeepBlocks >= lastHeight'
    BY <1>2, <1>3, <2>1, <2>2, IndexerAssumption
  <2>4. \A h, k \in DOMAIN history' : \A i \in h .. k : i \in DOMAIN history'
    BY <1>1, <1>2, <2>2
  <2> QED BY <2>1, <2>3, <2>4 DEF HistoryIsContiguous
<1> QED BY <1>4, <1>5 DEF WindowInv, HistoryIsContiguous

\* A catch-up commits the height next to the window, and pruning cuts its low end.
LEMMA WindowCommit ==
  ASSUME TypeInv, WindowInv, CommitBlock \/ FinishCatchUp
  PROVE  WindowInv'
<1>1. ASSUME CommitBlock PROVE WindowInv'
  <2>1. cmd = "catch-up" /\ lastHeight \in Nat /\ cur = lastHeight + 1 /\ lastHeight' = cur
    BY <1>1 DEF CommitBlock, WindowInv, NightlyInv, TypeInv, TypeOK, CommandOK
  <2>2. DOMAIN history' = {h \in (DOMAIN history) \cup {cur} : h + KeepBlocks >= cur}
    BY <1>1 DEF CommitBlock, Pruned, Restricted
  <2>3. NightlyInv'
    <3>1. /\ pc' = IF cur = target THEN "finish" ELSE "fetch"
          /\ cur' = IF cur = target THEN cur ELSE cur + 1
          /\ UNCHANGED cmd
      BY <1>1, <2>1 DEF CommitBlock
    <3>2. lastHeight' # None
      BY <2>1, IndexerAssumption
    <3> QED BY <2>1, <3>1, <3>2 DEF NightlyInv
  <2>4. HistoryIsContiguous'
    <3>1. \A h \in DOMAIN history :
            /\ h \in Nat /\ h <= lastHeight /\ lastHeight \in DOMAIN history
            /\ \A k \in DOMAIN history : \A i \in h .. k : i \in DOMAIN history
      BY DEF WindowInv, HistoryIsContiguous, TypeInv, TypeOK
    <3>2. cur \in Nat /\ cur \in DOMAIN history'
      BY <2>1, <2>2, IndexerAssumption
    <3>3. \A h \in DOMAIN history' : h \in Nat /\ h <= cur /\ h + KeepBlocks >= cur
      BY <2>1, <2>2, <3>1, IndexerAssumption
    <3>4. ASSUME NEW h \in DOMAIN history', NEW k \in DOMAIN history', NEW i \in h .. k
          PROVE  i \in DOMAIN history'
      <4>1. i \in Nat /\ i <= cur /\ i + KeepBlocks >= cur
        BY <3>2, <3>3, IndexerAssumption
      <4>2. CASE i = cur
        BY <3>2, <4>2
      <4>3. CASE i # cur
        <5>1. h \in DOMAIN history /\ i \in h .. lastHeight
          BY <2>1, <2>2, <3>3, <4>1, <4>3
        <5>2. i \in DOMAIN history
          BY <3>1, <5>1
        <5> QED BY <2>2, <4>1, <5>2
      <4> QED BY <4>2, <4>3
    <3> QED BY <2>1, <3>2, <3>3, <3>4 DEF HistoryIsContiguous
  <2> QED BY <2>3, <2>4 DEF WindowInv
<1>2. ASSUME FinishCatchUp PROVE WindowInv'
  BY <1>2 DEF FinishCatchUp, EndCommand, WindowInv, NightlyInv, HistoryIsContiguous
<1> QED BY <1>1, <1>2

\* The window with its strengthening, for every nightly behaviour.
LEMMA WindowInvariant == NightlyOnly => (Spec => [](TypeInv /\ WindowInv))
<1> SUFFICES ASSUME NightlyOnly PROVE Spec => [](TypeInv /\ WindowInv)
  OBVIOUS
<1>1. Init => WindowInv
  BY DEF Init, WindowInv, NightlyInv, HistoryIsContiguous, Empty
<1>2. TypeInv /\ WindowInv /\ [Next]_vars => WindowInv'
  BY WindowQuietSteps, WindowBootstrap, WindowRollback, WindowCommit DEF Next, Command
<1> QED BY <1>1, <1>2, TypeInvariant, PTL DEF Spec

\* Catch-up leaves no gap: under the nightly commands the recorded heights are
\* one run ending at the last indexed height, whatever is pruned, rolled back
\* or interrupted, for every window, limit and chain.
THEOREM NoGapInHistory == NightlyOnly => (Spec => []HistoryIsContiguous)
<1>1. WindowInv => HistoryIsContiguous
  BY DEF WindowInv
<1> QED BY <1>1, WindowInvariant, PTL

-----------------------------------------------------------------------------
(* Rollback undoes indexing *)

\* Undoing depends on the snapshots at and above the height only.
LEMMA UndoneEqual ==
  ASSUME NEW r, NEW u, NEW h, NEW q, NEW v, NEW g,
         \A n \in Names : Undone(r, u, h)[n] = Undone(q, v, g)[n]
  PROVE  Undone(r, u, h) = Undone(q, v, g)
<1> DEFINE F(n) == IF Snapshots(u, h, n) = {} THEN r[n]
                   ELSE u[CHOOSE k \in Snapshots(u, h, n) : IsMin(k, Snapshots(u, h, n))][n]
           G(n) == IF Snapshots(v, g, n) = {} THEN q[n]
                   ELSE v[CHOOSE k \in Snapshots(v, g, n) : IsMin(k, Snapshots(v, g, n))][n]
<1>1. Undone(r, u, h) = [n \in Names |-> F(n)] /\ Undone(q, v, g) = [n \in Names |-> G(n)]
  BY DEF Undone
<1> HIDE DEF F, G
<1>2. \A n \in Names : F(n) = G(n)
  BY <1>1
<1> QED BY <1>1, <1>2

\* With nothing to restore, the rows stay.
LEMMA UndoneNothing ==
  ASSUME NEW r \in Rows, NEW u, NEW h \in Nat, DOMAIN u \subseteq Nat,
         \A k \in DOMAIN u : k < h
  PROVE  Undone(r, u, h) = r
<1>1. \A n \in Names : Snapshots(u, h, n) = {}
  BY DEF Snapshots
<1>2. Undone(r, u, h) = [n \in Names |-> r[n]]
  BY <1>1 DEF Undone
<1> QED BY <1>2 DEF Rows

\* Undoing down to c and then, with what is left, down to h is undoing to h.
LEMMA UndoneTwice ==
  ASSUME NEW r, NEW u, NEW c \in Nat, NEW h \in Nat, h < c, DOMAIN u \subseteq Nat
  PROVE  Undone(Undone(r, u, c), Restricted(u, 0 .. c - 1), h) = Undone(r, u, h)
<1> DEFINE v == Restricted(u, 0 .. c - 1)
           q == Undone(r, u, c)
<1>1. DOMAIN v = {k \in DOMAIN u : k < c} /\ \A k \in DOMAIN v : v[k] = u[k]
  BY DEF Restricted
<1> HIDE DEF v, q
<1>2. ASSUME NEW n \in Names PROVE Undone(q, v, h)[n] = Undone(r, u, h)[n]
  <2>1. Snapshots(v, h, n) = {k \in Snapshots(u, h, n) : k < c}
    BY <1>1 DEF Snapshots
  <2>2. Snapshots(u, c, n) = {k \in Snapshots(u, h, n) : k >= c}
    BY DEF Snapshots
  <2>3. CASE Snapshots(v, h, n) = {}
    <3>1. Undone(q, v, h)[n] = Undone(r, u, c)[n]
      BY <1>1, <2>3, UndoneValue DEF q
    <3>2. Snapshots(u, c, n) = Snapshots(u, h, n)
      BY <2>1, <2>2, <2>3 DEF Snapshots
    <3>3. Undone(r, u, c)[n] = Undone(r, u, h)[n]
      BY <3>2 DEF Undone
    <3> QED BY <3>1, <3>3
  <2>4. CASE Snapshots(v, h, n) # {}
    <3>1. PICK k \in Nat : IsMin(k, Snapshots(v, h, n))
      BY <1>1, <2>4, UndoneValue
    <3>2. k < c /\ k \in DOMAIN v /\ k \in Snapshots(u, h, n)
      BY <1>1, <2>1, <3>1 DEF IsMin, Snapshots
    <3>3. IsMin(k, Snapshots(u, h, n))
      BY <2>1, <3>1, <3>2 DEF IsMin, Snapshots
    <3>4. Undone(q, v, h)[n] = v[k][n] /\ Undone(r, u, h)[n] = u[k][n]
      BY <1>1, <3>1, <3>3, UndoneValue
    <3> QED BY <1>1, <3>2, <3>4
  <2> QED BY <2>3, <2>4
<1>3. Undone(q, v, h) = Undone(r, u, h)
  BY <1>2, UndoneEqual
<1> QED BY <1>3 DEF v, q

\* The rows w and snapshots v after indexing block c on top of the rows r and the
\* snapshots u, none as high, with s the old rows of what the block changed and
\* every snapshot from height h on still kept.
Indexed(r, u, c, s, w, v, h) ==
  /\ c \in Nat /\ h \in Nat /\ h <= c
  /\ DOMAIN u \subseteq Nat /\ \A k \in DOMAIN u : k < c
  /\ DOMAIN v \subseteq (DOMAIN u) \cup {c}
  /\ \A k \in (DOMAIN u) \cup {c} : k >= h => k \in DOMAIN v
  /\ \A k \in DOMAIN v : v[k] = IF k = c THEN s ELSE u[k]
  /\ \A n \in Names : /\ n \in DOMAIN s => s[n] = r[n]
                      /\ n \notin DOMAIN s => w[n] = r[n]

\* Indexing a block changes nothing in what undoing leads back to.
LEMMA UndoneCommit ==
  ASSUME NEW r, NEW u, NEW c, NEW s, NEW w, NEW v, NEW h, Indexed(r, u, c, s, w, v, h)
  PROVE  Undone(w, v, h) = Undone(r, u, h)
<1>1. c \in Nat /\ h \in Nat /\ h <= c /\ DOMAIN u \subseteq Nat /\ DOMAIN v \subseteq Nat
  <2>1. c \in Nat /\ h \in Nat /\ h <= c
    BY Zenon DEF Indexed
  <2>2. DOMAIN u \subseteq Nat /\ DOMAIN v \subseteq (DOMAIN u) \cup {c}
    BY Zenon DEF Indexed
  <2> QED BY <2>1, <2>2
<1>2. \A n \in Names : /\ n \in DOMAIN s => s[n] = r[n]
                       /\ n \notin DOMAIN s => w[n] = r[n]
  BY Zenon DEF Indexed
<1>3. ASSUME NEW n \in Names PROVE Undone(w, v, h)[n] = Undone(r, u, h)[n]
  <2>1. /\ \A k \in Snapshots(u, h, n) : k \in Nat /\ k < c /\ k \in Snapshots(v, h, n)
                                          /\ v[k] = u[k]
        /\ \A k \in Snapshots(v, h, n) : k \in Snapshots(u, h, n) \/ (k = c /\ n \in DOMAIN s)
        /\ n \in DOMAIN s => c \in Snapshots(v, h, n) /\ v[c] = s
    BY DEF Indexed, Snapshots
  <2>2. CASE Snapshots(u, h, n) # {}
    <3>1. PICK k \in Nat : IsMin(k, Snapshots(u, h, n))
      BY <1>1, <2>2, UndoneValue
    <3>2. k < c /\ k \in Snapshots(v, h, n) /\ v[k] = u[k]
      BY <2>1, <3>1 DEF IsMin
    <3>3. IsMin(k, Snapshots(v, h, n))
      BY <1>1, <2>1, <3>1, <3>2 DEF IsMin
    <3>4. Undone(w, v, h)[n] = v[k][n] /\ Undone(r, u, h)[n] = u[k][n]
      BY <1>1, <3>1, <3>3, UndoneValue
    <3> QED BY <3>2, <3>4
  <2>3. CASE Snapshots(u, h, n) = {} /\ n \in DOMAIN s
    <3>1. IsMin(c, Snapshots(v, h, n)) /\ v[c] = s
      BY <1>1, <2>1, <2>3 DEF IsMin
    <3>2. Undone(w, v, h)[n] = v[c][n]
      BY <1>1, <3>1, UndoneValue
    <3>3. Undone(r, u, h)[n] = r[n]
      BY <1>1, <2>3, UndoneValue
    <3> QED BY <1>2, <2>3, <3>1, <3>2, <3>3
  <2>4. CASE Snapshots(u, h, n) = {} /\ n \notin DOMAIN s
    <3>1. Snapshots(v, h, n) = {}
      BY <2>1, <2>4
    <3>2. Undone(w, v, h)[n] = w[n] /\ Undone(r, u, h)[n] = r[n]
      BY <1>1, <2>4, <3>1, UndoneValue
    <3> QED BY <1>2, <2>4, <3>2
  <2> QED BY <2>2, <2>3, <2>4
<1> QED BY <1>3, UndoneEqual

\* The open transaction holds the old row of every name it has touched.
CapturedOld ==
  pc = "read" /\ cmd = "catch-up" =>
    \A n \in Names : /\ n \in DOMAIN snap => snap[n] = rows[n]
                     /\ n \notin DOMAIN snap => work[n] = rows[n]

UndoInv ==
  /\ DOMAIN before = DOMAIN undo
  /\ DOMAIN undo \subseteq DOMAIN history
  /\ CapturedOld
  /\ ExactUndo

\* A step that changes no row, snapshot or history keeps the rollback exact.
LEMMA UndoKept ==
  ASSUME UndoInv, UNCHANGED <<rows, history, undo, before>>, CapturedOld'
  PROVE  UndoInv'
  BY DEF UndoInv, ExactUndo, Undone, Snapshots, IsMin

\* Re-reading a name captures the row the block found.
LEMMA UndoReads ==
  ASSUME TypeInv, UndoInv, NEW n \in Names, ReadInfo(n) \/ ReadResource(n)
  PROVE  CapturedOld'
<1> USE DEF UndoInv, CapturedOld, dbVars, runVars
<1>1. ASSUME ReadInfo(n) PROVE CapturedOld'
  <2>1. n \notin DOMAIN snap /\ pc = "read" /\ cmd # "boot"
    BY <1>1 DEF ReadInfo
  <2>2. /\ DOMAIN snap' = (DOMAIN snap) \cup {n}
        /\ \A m \in DOMAIN snap' : snap'[m] = IF m = n THEN work[n] ELSE snap[m]
        /\ \A m \in Names : m # n => work'[m] = work[m]
        /\ UNCHANGED <<rows, pc, cmd>>
    BY <1>1 DEF ReadInfo, TypeInv, TypeOK, Rows
  <2> QED BY <2>1, <2>2
<1>2. ASSUME ReadResource(n) PROVE CapturedOld'
  <2>1. /\ \A m \in Names : m # n => work'[m] = work[m]
        /\ pc = "read"
        /\ cmd # "boot" => n \in DOMAIN snap
        /\ UNCHANGED <<rows, pc, cmd, snap>>
    BY <1>2 DEF ReadResource, TypeInv, TypeOK, Rows
  <2> QED BY <2>1
<1> QED BY <1>1, <1>2

\* Steps that commit nothing keep the rollback exact.
LEMMA UndoQuietSteps ==
  ASSUME TypeInv, UndoInv,
         \/ ChainMoves \/ ExportJsonl \/ BootstrapTip \/ BootstrapNames \/ ReorgCheck
         \/ CatchUp \/ Scan \/ FromFile \/ CompareHash \/ CheckPassed \/ PlanCatchUp \/ FetchBlock
         \/ FinishCatchUp \/ (\E n \in Names : ReadInfo(n) \/ ReadResource(n))
         \/ Interrupted \/ UNCHANGED vars
  PROVE  UndoInv'
<1>1. ASSUME UNCHANGED <<rows, history, undo, before>>, pc' # "read" PROVE UndoInv'
  BY <1>1, UndoKept DEF CapturedOld
<1>2. ASSUME ChainMoves \/ ExportJsonl \/ UNCHANGED vars PROVE UndoInv'
  BY <1>2, UndoKept DEF ChainMoves, ExportJsonl, vars, dbVars, runVars, txnVars, UndoInv, CapturedOld
<1>3. ASSUME BootstrapTip \/ ReorgCheck \/ CatchUp \/ Scan \/ FromFile PROVE UndoInv'
  BY <1>1, <1>3 DEF BootstrapTip, ReorgCheck, CatchUp, Scan, FromFile, StartCheck, dbVars
<1>4. ASSUME BootstrapNames PROVE UndoInv'
  <2>1. CapturedOld'
    BY <1>4 DEF BootstrapNames, CapturedOld, TypeInv, CommandOK
  <2> QED BY <1>4, <2>1, UndoKept DEF BootstrapNames, dbVars
<1>5. ASSUME CompareHash \/ CheckPassed \/ PlanCatchUp PROVE UndoInv'
  BY <1>1, <1>5 DEF CompareHash, CheckPassed, PlanCatchUp, EndCommand, dbVars
<1>6. ASSUME FetchBlock PROVE UndoInv'
  <2>1. pc' # "read" \/ (work' = rows /\ snap' = Empty)
    BY <1>6 DEF FetchBlock, EndCommand
  <2>2. CapturedOld'
    BY <1>6, <2>1 DEF FetchBlock, CapturedOld, Empty, dbVars
  <2> QED BY <1>6, <2>2, UndoKept DEF FetchBlock, dbVars
<1>7. ASSUME FinishCatchUp \/ Interrupted PROVE UndoInv'
  BY <1>1, <1>7 DEF FinishCatchUp, Interrupted, EndCommand, dbVars
<1>8. ASSUME NEW n \in Names, ReadInfo(n) \/ ReadResource(n) PROVE UndoInv'
  BY <1>8, UndoReads, UndoKept DEF ReadInfo, ReadResource, dbVars
<1> QED BY <1>2, <1>3, <1>4, <1>5, <1>6, <1>7, <1>8

\* In nightly use a bootstrap meets no snapshot.
LEMMA UndoBootstrap ==
  ASSUME NightlyOnly, TypeInv, WindowInv, UndoInv, BootstrapCommit \/ ImportJsonl
  PROVE  UndoInv'
<1>1. DOMAIN history = {} /\ pc' # "read"
  BY DEF BootstrapCommit, ImportJsonl, Import, EndCommand, MayBootstrap, runVars, NightlyOnly,
         WindowInv, NightlyInv
<1>2. DOMAIN undo' = {} /\ DOMAIN before' = {}
  BY <1>1 DEF BootstrapCommit, ImportJsonl, Import, UndoInv
<1> QED BY <1>1, <1>2 DEF UndoInv, CapturedOld, ExactUndo

\* After a rollback the lower heights still roll back exactly.
LEMMA UndoRollback ==
  ASSUME TypeInv, UndoInv, RollbackReorg
  PROVE  UndoInv'
<1>1. /\ rows' = Undone(rows, undo, cur)
      /\ history' = Restricted(history, 0 .. cur - 1)
      /\ undo' = Restricted(undo, 0 .. cur - 1)
      /\ before' = Restricted(before, 0 .. cur - 1)
      /\ pc' # "read"
  BY DEF RollbackReorg, RolledBack, EndCommand
<1>2. cur \in Nat /\ DOMAIN undo \subseteq Nat /\ DOMAIN before \subseteq Nat
  BY DEF TypeInv, TypeOK
<1>3. ASSUME NEW h \in DOMAIN before' PROVE Undone(rows', undo', h) = before'[h]
  <2>1. h \in DOMAIN before /\ h \in Nat /\ h < cur /\ before'[h] = before[h]
    BY <1>1, <1>2 DEF Restricted
  <2>2. Undone(rows', undo', h) = Undone(rows, undo, h)
    BY <1>1, <1>2, <2>1, UndoneTwice
  <2> QED BY <2>1, <2>2 DEF UndoInv, ExactUndo
<1>4. DOMAIN before' = DOMAIN undo' /\ DOMAIN undo' \subseteq DOMAIN history'
  BY <1>1 DEF UndoInv, Restricted
<1> QED BY <1>1, <1>3, <1>4 DEF UndoInv, ExactUndo, CapturedOld

\* Committing a block adds its snapshot, and every height still rolls back exactly.
LEMMA UndoCommitBlock ==
  ASSUME TypeInv, WindowInv, UndoInv, CommitBlock
  PROVE  UndoInv'
<1>1. /\ cmd = "catch-up" /\ pc = "read" /\ cur \in Nat
      /\ \A k \in DOMAIN undo : k \in Nat /\ k < cur
  BY DEF CommitBlock, WindowInv, NightlyInv, HistoryIsContiguous, TypeInv, TypeOK, CommandOK,
         UndoInv
<1>2. cur \notin DOMAIN undo /\ cur \notin DOMAIN before
  BY <1>1 DEF UndoInv
<1>3. /\ DOMAIN undo' = {k \in (DOMAIN undo) \cup {cur} : k + KeepBlocks >= cur}
      /\ \A k \in DOMAIN undo' : undo'[k] = IF k = cur THEN snap ELSE undo[k]
  BY <1>2 DEF CommitBlock, Pruned, Restricted
<1>4. /\ DOMAIN before' = {k \in (DOMAIN undo) \cup {cur} : k + KeepBlocks >= cur}
      /\ \A k \in DOMAIN before' : before'[k] = IF k = cur THEN rows ELSE before[k]
  BY <1>2 DEF CommitBlock, Pruned, Restricted, UndoInv
<1>5. DOMAIN history' = {k \in (DOMAIN history) \cup {cur} : k + KeepBlocks >= cur}
  BY DEF CommitBlock, Pruned, Restricted
<1>6. rows' = work /\ pc' # "read"
  BY <1>1 DEF CommitBlock
<1>7. ASSUME NEW h \in DOMAIN before' PROVE Undone(rows', undo', h) = before'[h]
  <2>1. h \in Nat /\ h <= cur /\ \A k \in (DOMAIN undo) \cup {cur} : k >= h => k \in DOMAIN undo'
    BY <1>1, <1>3, <1>4, IndexerAssumption
  <2>2. \A n \in Names : /\ n \in DOMAIN snap => snap[n] = rows[n]
                         /\ n \notin DOMAIN snap => work[n] = rows[n]
    BY <1>1 DEF UndoInv, CapturedOld
  <2>3. Undone(work, undo', h) = Undone(rows, undo, h)
    <3>1. cur \in Nat /\ DOMAIN undo \subseteq Nat /\ \A k \in DOMAIN undo : k < cur
      BY <1>1
    <3>2. /\ DOMAIN undo' \subseteq (DOMAIN undo) \cup {cur}
          /\ \A k \in DOMAIN undo' : undo'[k] = IF k = cur THEN snap ELSE undo[k]
      BY <1>3
    <3>3. \A k \in (DOMAIN undo) \cup {cur} : k >= h => k \in DOMAIN undo'
      BY <2>1
    <3>4. h \in Nat /\ h <= cur
      BY <2>1
    <3>5. Indexed(rows, undo, cur, snap, work, undo', h)
      BY <2>2, <3>1, <3>2, <3>3, <3>4 DEF Indexed
    <3> QED BY <3>5, UndoneCommit
  <2>4. CASE h = cur
    BY <1>1, <1>4, <1>6, <2>3, <2>4, UndoneNothing DEF TypeInv, TypeOK
  <2>5. CASE h # cur
    BY <1>4, <1>6, <2>3, <2>5 DEF UndoInv, ExactUndo
  <2> QED BY <2>4, <2>5
<1> QED BY <1>3, <1>4, <1>5, <1>6, <1>7 DEF UndoInv, ExactUndo, CapturedOld

\* Exact rollback with its strengthening, for every nightly behaviour.
LEMMA UndoInvariant == NightlyOnly => (Spec => [](TypeInv /\ WindowInv /\ UndoInv))
<1> SUFFICES ASSUME NightlyOnly PROVE Spec => [](TypeInv /\ WindowInv /\ UndoInv)
  OBVIOUS
<1>1. Init => UndoInv
  BY DEF Init, UndoInv, CapturedOld, ExactUndo, Empty
<1>2. TypeInv /\ WindowInv /\ UndoInv /\ [Next]_vars => UndoInv'
  BY UndoQuietSteps, UndoBootstrap, UndoRollback, UndoCommitBlock DEF Next, Command
<1> QED BY <1>1, <1>2, WindowInvariant, PTL DEF Spec

\* Rollback is the inverse of indexing: under the nightly commands, rolling back
\* to any height in the window restores exactly the rows there were before it
\* was indexed, for every chain, window and interleaving with HSD.
THEOREM RollbackUndoesIndexing == NightlyOnly => (Spec => []ExactUndo)
<1>1. UndoInv => ExactUndo
  BY DEF UndoInv
<1> QED BY <1>1, UndoInvariant, PTL

-----------------------------------------------------------------------------
(* What HSD's chain always satisfies *)

\* A connected block goes on top, under a fresh id, and changes only its names.
LEMMA ConnectFacts ==
  ASSUME ChainTypeOK, NEW S \in SUBSET Names, Connect(S)
  PROVE  /\ Tip' = Tip + 1 /\ mined' = mined + 1 /\ Tip < MaxHeight
         /\ \A h \in 1 .. Tip : chain'[h] = chain[h]
         /\ chain'[Tip + 1].hash = <<Tip + 1, mined + 1>>
         /\ chain'[Tip + 1].changed = S
         /\ \A n \in Names : chain'[Tip + 1].view[n] =
                               IF n \in S THEN <<Tip + 1, mined + 1>> ELSE TipView[n]
         /\ TipView' = chain'[Tip + 1].view
<1> DEFINE v == <<Tip + 1, mined + 1>>
           b == [hash    |-> v,
                 changed |-> S,
                 view    |-> [n \in Names |-> IF n \in S THEN v ELSE TipView[n]]]
<1>1. chain' = Append(chain, b) /\ mined' = mined + 1 /\ Tip < MaxHeight
  BY DEF Connect
<1>2. b.hash = v /\ b.changed = S /\ \A n \in Names : b.view[n] = IF n \in S THEN v ELSE TipView[n]
  OBVIOUS
<1> HIDE DEF b
<1>3. /\ Len(chain') = Len(chain) + 1 /\ chain'[Len(chain) + 1] = b
      /\ \A h \in 1 .. Len(chain) : chain'[h] = chain[h]
  BY <1>1 DEF ChainTypeOK
<1> QED BY <1>1, <1>2, <1>3 DEF Tip, TipView

\* A disconnected block leaves the others, and never the final prefix.
LEMMA DisconnectFacts ==
  ASSUME ChainTypeOK, Disconnect
  PROVE  /\ Tip' = Tip - 1 /\ Tip' \in Nat /\ Tip' >= FinalHeight /\ mined' = mined
         /\ \A h \in 1 .. Tip' : chain'[h] = chain[h]
<1>1. chain' = SubSeq(chain, 1, Tip - 1) /\ mined' = mined /\ Tip > FinalHeight
  BY DEF Disconnect
<1>2. Tip - 1 \in Nat /\ \A h \in 1 .. Tip - 1 : chain[h] \in Block
  BY <1>1, TipFacts
<1>3. Len(chain') = Tip - 1 /\ \A h \in 1 .. Tip - 1 : chain'[h] = chain[h]
  BY <1>1, <1>2, SubSeqProperties
<1>4. Tip \in Nat /\ FinalHeight \in Nat /\ Tip - 1 >= FinalHeight
  BY <1>1, TipFacts, ChainAssumption
<1> QED BY <1>1, <1>3, <1>4 DEF Tip

\* A block carries an id already given out; the state of a name is as old as the
\* last block that changed it; final blocks change nothing after the first.
BlockOK(h) ==
  /\ chain[h].hash[2] <= mined
  /\ \A n \in Names :
       /\ HeightOf(chain[h].view[n]) <= h
       /\ h > 1 /\ n \notin chain[h].changed => chain[h].view[n] = chain[h - 1].view[n]
       /\ \A k \in 1 .. h : n \in chain[k].changed => HeightOf(chain[h].view[n]) >= k

ChainInv ==
  /\ Tip <= FinalHeight \/ Tip <= MaxHeight
  /\ \A h \in 1 .. Tip : BlockOK(h)
  /\ \A h \in 1 .. FinalHeight : chain[h].view = chain[FinalHeight].view

\* ChainInv holds of the chain's final prefix.
LEMMA ChainInvInit == ChainInit => ChainInv
<1> SUFFICES ASSUME NEW opened \in SUBSET Names, chain = Genesis(opened), mined = 0
             PROVE  ChainInv
  BY DEF ChainInit
<1>1. Tip = FinalHeight /\ FinalHeight \in Nat \ {0}
  BY GenesisType, ChainAssumption DEF Tip
<1> DEFINE view == [n \in Names |-> IF n \in opened THEN <<1, 0>> ELSE Unregistered]
<1>2. \A h \in 1 .. FinalHeight :
        /\ chain[h].hash = <<h, 0>>
        /\ chain[h].changed = IF h = 1 THEN opened ELSE {}
        /\ chain[h].view = view
  BY DEF Genesis
<1>3. \A n \in Names : HeightOf(view[n]) = IF n \in opened THEN 1 ELSE 0
  BY DEF HeightOf, Unregistered
<1> HIDE DEF view
<1>4. ASSUME NEW h \in 1 .. Tip PROVE BlockOK(h)
  <2>1. chain[h].hash[2] = mined /\ chain[h].view = view
    BY <1>1, <1>2
  <2>2. h > 1 => chain[h - 1].view = view
    BY <1>1, <1>2
  <2>3. \A n \in Names : \A k \in 1 .. h : n \in chain[k].changed => n \in opened /\ k = 1
    BY <1>1, <1>2
  <2> QED BY <1>1, <1>3, <2>1, <2>2, <2>3 DEF BlockOK
<1>5. \A h \in 1 .. FinalHeight : chain[h].view = chain[FinalHeight].view
  BY <1>1, <1>2
<1> QED BY <1>1, <1>4, <1>5 DEF ChainInv

\* ChainInv survives blocks coming and going.
LEMMA ChainInvMoves ==
  ASSUME ChainTypeOK, ChainInv, ChainMoves
  PROVE  ChainInv'
<1>1. Tip \in Nat /\ Tip > 0 /\ mined \in Nat /\ Tip >= FinalHeight /\ FinalHeight \in Nat \ {0}
      /\ MaxHeight \in Nat
  BY TipFacts, ChainAssumption DEF ChainTypeOK
<1>2. \A h \in 1 .. Tip : chain[h].hash \in Version /\ chain[h].view \in [Names -> Version]
                           /\ chain[h].changed \in SUBSET Names
  BY TipFacts DEF Block
<1>3. \A v \in Version : HeightOf(v) \in Nat /\ v[2] \in Nat
  BY DEF Version, HeightOf
<1>4. ASSUME NEW S \in SUBSET Names, Connect(S) PROVE ChainInv'
  <2>1. ASSUME NEW h \in 1 .. Tip PROVE BlockOK(h)'
    BY <1>1, <1>2, <1>3, <1>4, <2>1, ConnectFacts DEF BlockOK, ChainInv
  <2>2. ASSUME NEW h, h = Tip + 1 PROVE BlockOK(h)'
    <3> DEFINE v == <<Tip + 1, mined + 1>>
    <3>1. chain'[h].hash[2] = mined' /\ HeightOf(v) = h
      BY <1>4, <2>2, ConnectFacts DEF HeightOf
    <3>2. h - 1 = Tip /\ h - 1 \in 1 .. Tip /\ chain'[h - 1].view = TipView
      BY <1>1, <1>4, <2>2, ConnectFacts DEF TipView
    <3>3. ASSUME NEW n \in Names
          PROVE  /\ HeightOf(chain'[h].view[n]) <= h
                 /\ n \notin chain'[h].changed => chain'[h].view[n] = chain'[h - 1].view[n]
                 /\ \A k \in 1 .. h : n \in chain'[k].changed => HeightOf(chain'[h].view[n]) >= k
      <4>1. CASE n \in S
        BY <1>1, <1>4, <2>2, <3>1, <4>1, ConnectFacts
      <4>2. CASE n \notin S
        <5>1. chain'[h].view[n] = chain[Tip].view[n] /\ chain'[h].changed = S
          BY <1>4, <2>2, <4>2, ConnectFacts DEF TipView
        <5>2. /\ HeightOf(chain[Tip].view[n]) <= Tip
              /\ \A k \in 1 .. Tip : n \in chain[k].changed => HeightOf(chain[Tip].view[n]) >= k
          BY <1>1 DEF ChainInv, BlockOK
        <5>3. HeightOf(chain[Tip].view[n]) \in Nat
          BY <1>1, <1>2, <1>3
        <5>4. \A k \in 1 .. h : n \in chain'[k].changed => k \in 1 .. Tip /\ n \in chain[k].changed
          BY <1>1, <1>4, <2>2, <4>2, <5>1, ConnectFacts
        <5> QED BY <1>1, <2>2, <3>2, <5>1, <5>2, <5>3, <5>4 DEF TipView
      <4> QED BY <4>1, <4>2
    <3>4. mined' <= mined'
      BY <1>1, <1>4, ConnectFacts
    <3> QED BY <3>1, <3>3, <3>4 DEF BlockOK
  <2>3. Tip' = Tip + 1 /\ Tip' <= MaxHeight
    BY <1>1, <1>4, ConnectFacts
  <2>4. \A h \in 1 .. FinalHeight : chain'[h].view = chain'[FinalHeight].view
    <3>1. \A h \in 1 .. FinalHeight : chain'[h] = chain[h]
      BY <1>1, <1>4, ConnectFacts
    <3> QED BY <1>1, <3>1 DEF ChainInv
  <2>5. \A h \in 1 .. Tip' : h \in 1 .. Tip \/ h = Tip + 1
    BY <1>1, <2>3
  <2> QED BY <2>1, <2>2, <2>3, <2>4, <2>5 DEF ChainInv
<1>5. ASSUME Disconnect PROVE ChainInv'
  <2>1. \A h \in 1 .. Tip' : h \in 1 .. Tip /\ BlockOK(h)'
    BY <1>1, <1>2, <1>3, <1>5, DisconnectFacts DEF BlockOK, ChainInv
  <2>2. \A h \in 1 .. FinalHeight : chain'[h].view = chain'[FinalHeight].view
    <3>1. \A h \in 1 .. FinalHeight : chain'[h] = chain[h]
      BY <1>1, <1>5, DisconnectFacts
    <3> QED BY <1>1, <3>1 DEF ChainInv
  <2>3. Tip' <= FinalHeight \/ Tip' <= MaxHeight
    BY <1>1, <1>5, DisconnectFacts DEF ChainInv
  <2> QED BY <2>1, <2>2, <2>3 DEF ChainInv
<1> QED BY <1>4, <1>5 DEF ChainMoves

\* Only ChainMoves moves the chain.
LEMMA ChainStays ==
  ASSUME [Next]_vars, ~ChainMoves
  PROVE  UNCHANGED <<chain, mined>>
<1>1. CASE UNCHANGED vars
  BY <1>1 DEF vars, chainVars
<1>2. CASE Interrupted
  BY <1>2 DEF Interrupted, chainVars
<1>3. CASE ExportJsonl
  BY <1>3 DEF ExportJsonl, Export
<1>4. CASE Command
  BY <1>4 DEF Command, BootstrapTip, BootstrapNames, BootstrapCommit, ImportJsonl, Import, ReorgCheck,
              CatchUp, Scan, FromFile, StartCheck, CompareHash, CheckPassed, RollbackReorg,
              PlanCatchUp, FetchBlock, ReadInfo, ReadResource, CommitBlock, FinishCatchUp, chainVars
<1> QED BY <1>1, <1>2, <1>3, <1>4 DEF Next

\* Only ExportJsonl writes a file.
LEMMA FilesStay ==
  ASSUME [Next]_vars, ~ExportJsonl
  PROVE  UNCHANGED exports
<1>1. CASE UNCHANGED vars
  BY <1>1 DEF vars, chainVars
<1>2. CASE Interrupted
  BY <1>2 DEF Interrupted, chainVars
<1>3. CASE ChainMoves
  BY <1>3 DEF ChainMoves, Connect, Disconnect
<1>4. CASE Command
  BY <1>4 DEF Command, BootstrapTip, BootstrapNames, BootstrapCommit, ImportJsonl, Import, ReorgCheck,
              CatchUp, Scan, FromFile, StartCheck, CompareHash, CheckPassed, RollbackReorg,
              PlanCatchUp, FetchBlock, ReadInfo, ReadResource, CommitBlock, FinishCatchUp, chainVars
<1> QED BY <1>1, <1>2, <1>3, <1>4 DEF Next

\* ChainInv holds in every state.
LEMMA ChainInvariant == Spec => [](TypeInv /\ ChainInv)
<1>1. Init => ChainInv
  BY ChainInvInit DEF Init
<1>2. TypeInv /\ ChainInv /\ [Next]_vars => ChainInv'
  <2> SUFFICES ASSUME TypeInv, ChainInv, [Next]_vars PROVE ChainInv'
    OBVIOUS
  <2>1. CASE ChainMoves
    BY <2>1, ChainInvMoves DEF TypeInv, TypeOK
  <2>2. CASE ~ChainMoves
    BY <2>2, ChainStays DEF ChainInv, BlockOK, Tip
  <2> QED BY <2>1, <2>2
<1> QED BY <1>1, <1>2, TypeInvariant, PTL DEF Spec

-----------------------------------------------------------------------------
(* A chain that only grows *)

\* The file shows what the chain still has.
OnChain(file) == Len(file) <= Tip /\ \A h \in 1 .. Len(file) : file[h] = chain[h]

\* Without a reorganisation every recorded hash stays the chain's, so no command
\* ever rolls back, and everything the index has read is still on the chain, from
\* HSD or from a file.
GrowInv ==
  /\ HistoryMatches
  /\ pc = "check" => pending \subseteq DOMAIN history
  /\ pc # "rollback"
  /\ lastHeight # None => lastHeight <= Tip
  /\ pc \in {"names", "read"} => cur <= Tip
  /\ pc = "read" /\ cmd # "boot" => hash = chain[cur].hash
  /\ \A file \in exports : OnChain(file)

\* Steps that commit nothing keep GrowInv.
LEMMA GrowQuietSteps ==
  ASSUME ~Reorgs, TypeInv, GrowInv,
         \/ ChainMoves \/ ExportJsonl \/ BootstrapTip \/ BootstrapNames \/ ReorgCheck
         \/ CatchUp \/ Scan \/ FromFile \/ CompareHash \/ CheckPassed \/ PlanCatchUp \/ FetchBlock
         \/ (\E n \in Names : ReadInfo(n) \/ ReadResource(n))
         \/ FinishCatchUp \/ Interrupted \/ UNCHANGED vars
  PROVE  GrowInv'
<1> USE DEF GrowInv, HistoryMatches, OnChain
<1>1. Tip \in Nat /\ Tip > 0 /\ cur \in Nat /\ DOMAIN history \subseteq Nat \ {0}
      /\ (lastHeight # None => lastHeight \in Nat)
  BY TipFacts DEF TypeInv, TypeOK
<1>2. ASSUME EndCommand, UNCHANGED <<chain, exports, history, lastHeight>> PROVE GrowInv'
  BY <1>2 DEF EndCommand, Tip
<1>3. CASE ChainMoves
  <2>1. PICK S \in SUBSET Names : Connect(S)
    BY <1>3 DEF ChainMoves
  <2>2. Tip' = Tip + 1 /\ \A h \in 1 .. Tip : chain'[h] = chain[h]
    BY <2>1, ConnectFacts DEF TypeInv, TypeOK
  <2>3. UNCHANGED <<exports, history, lastHeight, pc, cmd, pending, cur, hash>>
    BY <1>3, <2>1 DEF ChainMoves, Connect, dbVars, runVars, txnVars
  <2>4. pc = "read" /\ cmd # "boot" => cur \in 1 .. Tip
    BY <1>1 DEF TypeInv, CommandOK
  <2>5. \A file \in exports : OnChain(file)'
    BY <1>1, <2>2, FileFacts DEF TypeInv, TypeOK
  <2> HIDE DEF OnChain
  <2> QED BY <1>1, <2>2, <2>3, <2>4, <2>5
<1>export. CASE ExportJsonl
  <2>1. UNCHANGED <<chain, history, lastHeight, pc, cmd, pending, cur, hash>>
    BY <1>export DEF ExportJsonl, Export, dbVars, runVars, txnVars
  <2>2. \A file \in exports' : OnChain(file)'
    BY <1>1, <1>export DEF ExportJsonl, Export, Tip
  <2> HIDE DEF OnChain
  <2> QED BY <2>1, <2>2 DEF Tip
<1>4. CASE BootstrapTip \/ BootstrapNames
  BY <1>1, <1>4 DEF BootstrapTip, BootstrapNames, chainVars, dbVars, Tip, TypeInv, CommandOK
<1>5. CASE ReorgCheck \/ CatchUp \/ Scan \/ FromFile
  BY <1>5 DEF ReorgCheck, CatchUp, Scan, FromFile, StartCheck, chainVars, dbVars, Tip
<1>6. CASE CompareHash
  <2>1. PICK h \in pending :
          \/ /\ pending' = pending \ {h}
             /\ UNCHANGED <<pc, cmd, rollback, cur, target, txnVars>>
          \/ /\ h <= Tip /\ chain[h].hash # history[h]
          \/ EndCommand
    BY <1>6 DEF CompareHash
  <2>2. pc = "check" /\ UNCHANGED <<chain, exports, history, lastHeight>>
    BY <1>6 DEF CompareHash, chainVars, dbVars
  <2> QED BY <1>2, <2>1, <2>2 DEF Tip, txnVars
<1>7. CASE CheckPassed
  BY <1>2, <1>7 DEF CheckPassed, chainVars, dbVars, Tip
<1>8. CASE PlanCatchUp
  BY <1>2, <1>8 DEF PlanCatchUp, chainVars, dbVars, Tip
<1>9. CASE FetchBlock
  BY <1>2, <1>9 DEF FetchBlock, chainVars, dbVars, Tip
<1>10. CASE \E n \in Names : ReadInfo(n) \/ ReadResource(n)
  BY <1>10 DEF ReadInfo, ReadResource, chainVars, dbVars, runVars, Tip
<1>11. CASE FinishCatchUp \/ Interrupted
  BY <1>2, <1>11 DEF FinishCatchUp, Interrupted, chainVars, dbVars
<1>12. CASE UNCHANGED vars
  BY <1>12 DEF vars, chainVars, dbVars, runVars, txnVars, Tip
<1> QED BY <1>3, <1>4, <1>5, <1>6, <1>7, <1>8, <1>9, <1>10, <1>11, <1>12, <1>export

\* What a bootstrap, an import or a block records is on the chain.
LEMMA GrowCommits ==
  ASSUME TypeInv, GrowInv, BootstrapCommit \/ ImportJsonl \/ CommitBlock \/ RollbackReorg
  PROVE  GrowInv'
<1> USE DEF GrowInv, HistoryMatches, OnChain
<1>1. Tip \in Nat /\ Tip > 0 /\ cur \in Nat /\ DOMAIN history \subseteq Nat \ {0}
      /\ (lastHeight # None => lastHeight \in Nat)
  BY TipFacts DEF TypeInv, TypeOK
<1>2. CASE BootstrapCommit
  BY <1>1, <1>2 DEF BootstrapCommit, EndCommand, chainVars, Tip
<1>3. CASE ImportJsonl
  <2> PICK file \in exports : Import(file)
    BY <1>3 DEF ImportJsonl
  <2>1. OnChain(file) /\ Len(file) \in Nat
    BY FileFacts DEF TypeInv, TypeOK
  <2>2. \A h \in DOMAIN history' : h <= Tip /\ chain[h].hash = history'[h]
    BY <1>1, <2>1 DEF Import
  <2> QED BY <1>1, <2>1, <2>2 DEF Import, MayBootstrap, chainVars, runVars, txnVars, Tip
<1>4. CASE CommitBlock
  <2>1. /\ \A h \in DOMAIN history' : /\ h \in (DOMAIN history) \cup {cur}
                                      /\ history'[h] = IF h = cur THEN hash ELSE history[h]
        /\ lastHeight' = cur /\ chain' = chain /\ exports' = exports /\ pc = "read" /\ cmd # "boot"
        /\ pc' \in {"idle", "finish", "fetch"}
    BY <1>4 DEF CommitBlock, Pruned, Restricted, EndCommand, chainVars
  <2> QED BY <1>1, <2>1 DEF Tip
<1>5. ~RollbackReorg
  BY DEF RollbackReorg
<1> QED BY <1>2, <1>3, <1>4, <1>5

\* GrowInv holds as long as no block is disconnected.
LEMMA GrowInvariant == ~Reorgs => (Spec => [](TypeInv /\ ChainInv /\ GrowInv))
<1> SUFFICES ASSUME ~Reorgs PROVE Spec => [](TypeInv /\ ChainInv /\ GrowInv)
  OBVIOUS
<1>1. Init => GrowInv
  BY DEF Init, ChainInit, GrowInv, HistoryMatches, Empty
<1>2. TypeInv /\ GrowInv /\ [Next]_vars => GrowInv'
  BY GrowQuietSteps, GrowCommits DEF Next, Command
<1> QED BY <1>1, <1>2, ChainInvariant, PTL DEF Spec

-----------------------------------------------------------------------------
(* Whole rows *)

\* A name's row is read by two RPC calls; a whole row has had both.
Whole(row) == row = None \/ row.resource # None

\* The transaction has re-read the info of the name, not yet its resource.
Half(n) == n \in todo /\ (cmd = "boot" \/ n \in DOMAIN snap)

\* Only an open transaction holds a row of which one half has been read: neither
\* the database nor a snapshot a rollback would restore ever does.
WholeInv ==
  /\ \A n \in Names : Whole(rows[n])
  /\ \A h \in DOMAIN undo : \A n \in DOMAIN undo[h] : Whole(undo[h][n])
  /\ \A n \in DOMAIN snap : Whole(snap[n])
  /\ pc = "read" => \A n \in Names : Half(n) \/ Whole(work[n])

\* A state of the chain is not the mark of a missing one.
LEMMA VersionIsNotNone == None \notin Version
  BY IndexerAssumption

\* Steps that commit nothing keep rows whole.
LEMMA WholeQuietSteps ==
  ASSUME TypeInv, WholeInv,
         \/ ChainMoves \/ ExportJsonl \/ BootstrapTip \/ BootstrapNames \/ ReorgCheck
         \/ CatchUp \/ Scan \/ FromFile \/ CompareHash \/ CheckPassed \/ PlanCatchUp \/ FetchBlock
         \/ FinishCatchUp \/ Interrupted \/ UNCHANGED vars
  PROVE  WholeInv'
<1> USE DEF WholeInv, Half
<1>1. ASSUME EndCommand, UNCHANGED <<rows, undo>> PROVE WholeInv'
  BY <1>1 DEF EndCommand, Empty
<1>2. ASSUME UNCHANGED <<rows, undo, snap>>, pc' # "read" PROVE WholeInv'
  BY <1>2
<1>3. CASE ChainMoves \/ ExportJsonl \/ UNCHANGED vars
  BY <1>3 DEF ChainMoves, ExportJsonl, vars, dbVars, runVars, txnVars
<1>4. CASE BootstrapTip \/ ReorgCheck \/ CatchUp \/ Scan \/ FromFile
  BY <1>2, <1>4 DEF BootstrapTip, ReorgCheck, CatchUp, Scan, FromFile, StartCheck, dbVars, txnVars
<1>5. CASE BootstrapNames
  <2>1. /\ cmd = "boot" /\ UNCHANGED <<rows, undo, snap, cmd>>
        /\ \A n \in Names : n \in todo' \/ work'[n] = rows[n]
    BY <1>5 DEF BootstrapNames, dbVars, TypeInv, CommandOK
  <2> QED BY <2>1
<1>6. CASE CompareHash \/ CheckPassed \/ PlanCatchUp
  <2>1. UNCHANGED <<rows, undo>> /\ (EndCommand \/ (UNCHANGED snap /\ pc' # "read"))
    BY <1>6 DEF CompareHash, CheckPassed, PlanCatchUp, dbVars, txnVars
  <2> QED BY <1>1, <1>2, <2>1
<1>7. CASE FetchBlock
  <2>1. UNCHANGED <<rows, undo>> /\ (EndCommand \/ (snap' = Empty /\ work' = rows))
    BY <1>7 DEF FetchBlock, dbVars
  <2> QED BY <1>1, <2>1 DEF Empty
<1>8. CASE FinishCatchUp \/ Interrupted
  BY <1>1, <1>8 DEF FinishCatchUp, Interrupted, dbVars
<1> QED BY <1>3, <1>4, <1>5, <1>6, <1>7, <1>8

\* Reading one half of a row keeps the others whole.
LEMMA WholeReads ==
  ASSUME TypeInv, WholeInv, NEW n \in Names, ReadInfo(n) \/ ReadResource(n)
  PROVE  WholeInv'
<1> USE DEF WholeInv, Half
<1>1. /\ UNCHANGED <<rows, undo, pc, cmd>> /\ pc = "read"
      /\ \A m \in Names : m # n => work'[m] = work[m]
  BY DEF ReadInfo, ReadResource, dbVars, runVars, TypeInv, TypeOK, Rows
<1>2. CASE ReadInfo(n)
  <2>1. /\ n \in todo /\ n \notin DOMAIN snap /\ cmd # "boot" /\ todo' = todo
        /\ DOMAIN snap' = (DOMAIN snap) \cup {n}
        /\ \A m \in DOMAIN snap' : snap'[m] = IF m = n THEN work[n] ELSE snap[m]
    BY <1>2 DEF ReadInfo
  <2> QED BY <1>1, <2>1
<1>3. CASE ReadResource(n)
  <2>1. n \in todo /\ todo' = todo \ {n} /\ snap' = snap /\ Half(n)
    BY <1>3 DEF ReadResource
  <2>2. Whole(work'[n])
    <3>1. work[n] \in Row /\ TipView[n] \in Version
      BY <1>1, <2>1, TipFacts DEF TypeInv, TypeOK, HalfRead, Rows
    <3>2. work'[n] = [work[n] EXCEPT !.resource = TipView[n]]
      BY <1>3 DEF ReadResource, TypeInv, TypeOK, Rows
    <3> QED BY <3>1, <3>2, VersionIsNotNone DEF Row, Whole
  <2> QED BY <1>1, <2>1, <2>2
<1> QED BY <1>2, <1>3

\* An import stores what the file says of each name the file knows.
LEMMA ImportedRows ==
  ASSUME TypeInv, NEW file \in exports, Import(file), NEW n \in Names
  PROVE  IF file[Len(file)].view[n] = Unregistered THEN rows'[n] = rows[n]
         ELSE /\ Info(rows'[n]) = file[Len(file)].view[n]
              /\ Resource(rows'[n]) = file[Len(file)].view[n]
<1> DEFINE v == file[Len(file)].view[n]
           row == [info |-> v, resource |-> v]
<1>1. rows'[n] = IF v # Unregistered THEN row ELSE rows[n]
  BY DEF Import
<1>2. v \in Version
  BY FileFacts DEF TypeInv, TypeOK
<1>3. row \in Row /\ row.info = v /\ row.resource = v
  BY <1>2 DEF Row
<1>4. row # None
  BY <1>3, RowIsNotNone
<1>5. Info(row) = v /\ Resource(row) = v
  BY <1>3, <1>4 DEF Info, Resource
<1> QED BY <1>1, <1>5

\* What is committed or restored is whole.
LEMMA WholeCommits ==
  ASSUME TypeInv, WholeInv, BootstrapCommit \/ ImportJsonl \/ CommitBlock \/ RollbackReorg
  PROVE  WholeInv'
<1> USE DEF WholeInv, Half
<1>1. CASE BootstrapCommit
  BY <1>1 DEF BootstrapCommit, EndCommand, Empty
<1>2. CASE ImportJsonl
  <2> PICK file \in exports : Import(file)
    BY <1>2 DEF ImportJsonl
  <2>1. \A n \in Names : Whole(rows'[n])
    <3> TAKE n \in Names
    <3>1. rows'[n] = rows[n] \/ Resource(rows'[n]) = file[Len(file)].view[n]
      BY ImportedRows
    <3>2. file[Len(file)].view[n] \in Version
      BY FileFacts DEF TypeInv, TypeOK
    <3>3. Whole(rows[n])
      OBVIOUS
    <3> QED BY <3>1, <3>2, <3>3, VersionIsNotNone DEF Whole, Resource
  <2>2. UNCHANGED <<undo, snap>> /\ pc' # "read"
    BY DEF Import, MayBootstrap, runVars, txnVars
  <2> QED BY <2>1, <2>2
<1>3. CASE CommitBlock
  <2>1. /\ pc = "read" /\ todo = {} /\ rows' = work /\ snap' = Empty /\ pc' # "read"
    BY <1>3 DEF CommitBlock, EndCommand
  <2>2. ASSUME NEW h \in DOMAIN undo', NEW n \in DOMAIN undo'[h] PROVE Whole(undo'[h][n])
    <3>1. h = cur \/ (h \in DOMAIN undo /\ undo'[h] = undo[h])
      BY <1>3 DEF CommitBlock, Pruned, Restricted
    <3>2. h = cur => \/ undo'[h] = snap
                     \/ /\ h \in DOMAIN undo
                        /\ undo'[h] = [m \in (DOMAIN snap) \cup (DOMAIN undo[h]) |->
                                        IF m \in DOMAIN snap THEN snap[m] ELSE undo[h][m]]
      BY <1>3 DEF CommitBlock, Pruned, Restricted
    <3>3. CASE h = cur /\ undo'[h] # snap
      BY <2>2, <3>2, <3>3
    <3>4. CASE ~(h = cur /\ undo'[h] # snap)
      BY <2>2, <3>1, <3>4
    <3> QED BY <3>3, <3>4
  <2> QED BY <2>1, <2>2 DEF Empty
<1>4. CASE RollbackReorg
  <2>1. /\ rows' = Undone(rows, undo, cur)
        /\ undo' = Restricted(undo, 0 .. cur - 1)
        /\ snap' = Empty /\ pc' = "idle"
    BY <1>4 DEF RollbackReorg, RolledBack, EndCommand
  <2>2. DOMAIN undo \subseteq Nat
    BY DEF TypeInv, TypeOK
  <2>3. ASSUME NEW n \in Names PROVE Whole(rows'[n])
    <3>1. CASE Snapshots(undo, cur, n) = {}
      BY <2>1, <2>2, <3>1, UndoneValue
    <3>2. CASE Snapshots(undo, cur, n) # {}
      <4>1. PICK k \in Nat : IsMin(k, Snapshots(undo, cur, n))
        BY <2>2, <3>2, UndoneValue
      <4>2. k \in DOMAIN undo /\ n \in DOMAIN undo[k]
        BY <4>1 DEF IsMin, Snapshots
      <4>3. rows'[n] = undo[k][n]
        BY <2>1, <2>2, <4>1, UndoneValue
      <4> QED BY <4>2, <4>3
    <3> QED BY <3>1, <3>2
  <2>4. \A h \in DOMAIN undo' : h \in DOMAIN undo /\ undo'[h] = undo[h]
    BY <2>1 DEF Restricted
  <2> QED BY <2>1, <2>3, <2>4 DEF Empty
<1> QED BY <1>1, <1>2, <1>3, <1>4

\* No half-read row is ever stored: the info and the resource of a name come from
\* two RPC calls, yet no interruption, rollback or interleaving with the chain
\* leaves one of them missing in the database or in a snapshot.
THEOREM RowsAreWhole == Spec => [](TypeInv /\ WholeInv)
<1>1. Init => WholeInv
  BY DEF Init, WholeInv, Whole, NoRows, Empty
<1>2. TypeInv /\ WholeInv /\ [Next]_vars => WholeInv'
  BY WholeQuietSteps, WholeReads, WholeCommits DEF Next, Command
<1> QED BY <1>1, <1>2, TypeInvariant, PTL DEF Spec

-----------------------------------------------------------------------------
(* On a growing chain rows never go back *)

\* r holds nothing about n that is newer than the tip.
NoNewer(n, r) ==
  /\ HeightOf(Info(r[n])) <= HeightOf(TipView[n])
  /\ HeightOf(Resource(r[n])) <= HeightOf(TipView[n])

\* r holds nothing about n that is older than what s holds.
NoOlder(n, r, s) ==
  /\ HeightOf(Info(s[n])) <= HeightOf(Info(r[n]))
  /\ HeightOf(Resource(s[n])) <= HeightOf(Resource(r[n]))

\* The rows are no newer than the tip, and the open transaction's no older than
\* the rows it will replace.
MonotoneInv ==
  \A n \in Names :
    /\ NoNewer(n, rows)
    /\ pc = "read" /\ Half(n) =>
         /\ HeightOf(Info(rows[n])) <= HeightOf(Info(work[n]))
         /\ HeightOf(Info(work[n])) <= HeightOf(TipView[n])
    /\ pc = "read" /\ ~Half(n) => NoOlder(n, work, rows) /\ NoNewer(n, work)

\* Whole rows hold two states with a height; so do the tip, and what has no row.
LEMMA HeightsType ==
  ASSUME TypeInv, WholeInv
  PROVE  /\ \A n \in Names : /\ HeightOf(TipView[n]) \in Nat
                             /\ HeightOf(Info(rows[n])) \in Nat
                             /\ HeightOf(Resource(rows[n])) \in Nat
         /\ Info(None) = Unregistered /\ Resource(None) = Unregistered
         /\ HeightOf(Unregistered) = 0
<1>1. \A v \in Version : HeightOf(v) \in Nat
  BY DEF Version, HeightOf
<1>2. \A n \in Names : rows[n] = None \/ (rows[n].info \in Version /\ rows[n].resource \in Version)
  BY DEF TypeInv, TypeOK, Rows, Row, WholeInv, Whole
<1>3. Unregistered \in Version /\ HeightOf(Unregistered) = 0
  BY DEF Unregistered, Version, HeightOf
<1>4. \A n \in Names : TipView[n] \in Version
  BY TipFacts DEF TypeInv, TypeOK
<1> QED BY <1>1, <1>2, <1>3, <1>4 DEF Info, Resource

\* HSD's tip never goes back on a growing chain.
LEMMA TipNeverBack ==
  ASSUME ~Reorgs, TypeInv, ChainInv, ChainMoves
  PROVE  \A n \in Names : /\ HeightOf(TipView[n]) \in Nat /\ HeightOf(TipView'[n]) \in Nat
                         /\ HeightOf(TipView[n]) <= HeightOf(TipView'[n])
<1>1. PICK S \in SUBSET Names : Connect(S)
  BY DEF ChainMoves
<1>2. Tip \in Nat /\ Tip > 0 /\ \A n \in Names : TipView[n] \in Version
  BY TipFacts DEF TypeInv, TypeOK
<1>3. \A n \in Names : HeightOf(TipView[n]) \in Nat /\ HeightOf(TipView[n]) <= Tip
  <2>1. BlockOK(Tip)
    BY <1>2 DEF ChainInv
  <2>2. \A v \in Version : HeightOf(v) \in Nat
    BY DEF HeightOf, Version
  <2> QED BY <1>2, <2>1, <2>2 DEF BlockOK, TipView
<1>4. HeightOf(<<Tip + 1, mined + 1>>) = Tip + 1
  BY DEF HeightOf
<1>5. \A n \in Names : TipView'[n] = TipView[n] \/ TipView'[n] = <<Tip + 1, mined + 1>>
  BY <1>1, ConnectFacts DEF TypeInv, TypeOK
<1> QED BY <1>2, <1>3, <1>4, <1>5

\* Steps that commit nothing keep MonotoneInv.
LEMMA MonotoneQuietSteps ==
  ASSUME ~Reorgs, TypeInv, ChainInv, WholeInv, MonotoneInv,
         \/ ChainMoves \/ ExportJsonl \/ BootstrapTip \/ BootstrapNames \/ ReorgCheck
         \/ CatchUp \/ Scan \/ FromFile \/ CompareHash \/ CheckPassed \/ PlanCatchUp \/ FetchBlock
         \/ FinishCatchUp \/ Interrupted \/ UNCHANGED vars
  PROVE  MonotoneInv'
<1> USE DEF MonotoneInv, NoNewer, NoOlder
<1>1. ASSUME UNCHANGED <<chain, rows>>, pc' # "read" PROVE MonotoneInv'
  BY <1>1 DEF TipView, Tip
<1>2. CASE ChainMoves
  <2>1. UNCHANGED <<rows, pc, cmd, todo, work, snap>>
    BY <1>2 DEF ChainMoves, dbVars, runVars, txnVars
  <2>2. \A n \in Names : /\ HeightOf(TipView[n]) \in Nat /\ HeightOf(TipView'[n]) \in Nat
                         /\ HeightOf(TipView[n]) <= HeightOf(TipView'[n])
    BY <1>2, TipNeverBack
  <2>3. ASSUME NEW n \in Names, pc = "read", Half(n) PROVE HeightOf(Info(work[n])) \in Nat
    BY <2>3 DEF TypeInv, TypeOK, HalfRead, Half, Rows, Row, Info, HeightOf, Version
  <2>4. ASSUME NEW n \in Names, pc = "read", ~Half(n)
        PROVE  HeightOf(Info(work[n])) \in Nat /\ HeightOf(Resource(work[n])) \in Nat
    <3>1. work[n] = None \/ (work[n].info \in Version /\ work[n].resource \in Version)
      BY <2>4 DEF TypeInv, TypeOK, Rows, Row, WholeInv, Whole
    <3>2. \A v \in Version : HeightOf(v) \in Nat
      BY DEF Version, HeightOf
    <3> QED BY <3>1, <3>2, HeightsType DEF Info, Resource
  <2>5. \A n \in Names : Half(n)' <=> Half(n)
    BY <2>1 DEF Half
  <2> QED BY <2>1, <2>2, <2>3, <2>4, <2>5, HeightsType
<1>export. CASE ExportJsonl
  BY <1>export DEF ExportJsonl, Export, dbVars, runVars, txnVars, TipView, Tip, Half
<1>3. CASE BootstrapTip \/ ReorgCheck \/ CatchUp \/ Scan \/ FromFile
  BY <1>1, <1>3 DEF BootstrapTip, ReorgCheck, CatchUp, Scan, FromFile, StartCheck, dbVars, chainVars
<1>4. CASE BootstrapNames
  <2>1. UNCHANGED <<rows, chain>>
    BY <1>4 DEF BootstrapNames, dbVars, chainVars
  <2>2. \A n \in Names :
          IF TipView[n] # Unregistered
          THEN n \in todo' /\ cmd' = "boot" /\ work'[n] = [info |-> TipView[n], resource |-> None]
          ELSE n \notin todo' /\ work'[n] = rows[n]
    BY <1>4 DEF BootstrapNames, TypeInv, CommandOK
  <2>3. \A n \in Names : TipView[n] # Unregistered => Info(work'[n]) = TipView[n]
    <3>1. \A n \in Names : [info |-> TipView[n], resource |-> None] \in Row
      BY TipFacts DEF Row, TypeInv, TypeOK
    <3>2. \A row \in Row : Info(row) = row.info
      BY RowIsNotNone DEF Info
    <3> QED BY <2>2, <3>1, <3>2
  <2>4. \A n \in Names : Half(n)' <=> TipView[n] # Unregistered
    BY <1>4, <2>2 DEF Half, BootstrapNames, TypeInv, CommandOK
  <2>5. TipView' = TipView
    BY <2>1 DEF TipView, Tip
  <2>6. ASSUME NEW n \in Names
        PROVE  /\ HeightOf(TipView[n]) <= HeightOf(TipView[n])
               /\ HeightOf(Info(rows[n])) <= HeightOf(Info(rows[n]))
               /\ HeightOf(Resource(rows[n])) <= HeightOf(Resource(rows[n]))
    <3>1. HeightOf(TipView[n]) \in Nat /\ HeightOf(Info(rows[n])) \in Nat
          /\ HeightOf(Resource(rows[n])) \in Nat
      BY HeightsType
    <3> QED BY <3>1
  <2> QED BY <2>1, <2>2, <2>3, <2>4, <2>5, <2>6
<1>5. CASE CompareHash \/ CheckPassed \/ PlanCatchUp \/ FinishCatchUp \/ Interrupted
  <2>1. UNCHANGED <<chain, rows>> /\ pc' # "read"
    BY <1>5 DEF CompareHash, CheckPassed, PlanCatchUp, FinishCatchUp, Interrupted, EndCommand,
                dbVars, chainVars
  <2> QED BY <1>1, <2>1
<1>6. CASE FetchBlock
  <2>1. UNCHANGED <<chain, rows>> /\ (EndCommand \/ (work' = rows /\ snap' = Empty /\ cmd' = cmd))
    BY <1>6 DEF FetchBlock, dbVars, chainVars
  <2>2. pc = "fetch"
    BY <1>6 DEF FetchBlock
  <2> QED BY <1>1, <2>1, <2>2, HeightsType
          DEF EndCommand, Half, Empty, TipView, Tip, TypeInv, CommandOK
<1>7. CASE UNCHANGED vars
  BY <1>7 DEF vars, dbVars, runVars, txnVars, chainVars, TipView, Tip, Half
<1> QED BY <1>2, <1>3, <1>4, <1>5, <1>6, <1>7, <1>export

\* What is read of a name is the tip's.
LEMMA MonotoneReads ==
  ASSUME TypeInv, WholeInv, MonotoneInv, NEW n \in Names, ReadInfo(n) \/ ReadResource(n)
  PROVE  MonotoneInv'
<1> USE DEF MonotoneInv, NoNewer, NoOlder
<1>1. /\ UNCHANGED <<chain, rows, pc, cmd>> /\ pc = "read"
      /\ \A m \in Names : m # n => work'[m] = work[m]
      /\ TipView[n] \in Version
  BY TipFacts DEF ReadInfo, ReadResource, dbVars, runVars, chainVars, TypeInv, TypeOK, Rows
<1>2. \A m \in Names : HeightOf(Info(rows[m])) <= HeightOf(TipView[m])
                       /\ HeightOf(Resource(rows[m])) <= HeightOf(TipView[m])
  OBVIOUS
<1>3. CASE ReadInfo(n)
  <2>1. work'[n] = [info |-> TipView[n], resource |-> None]
    BY <1>3 DEF ReadInfo, TypeInv, TypeOK, Rows
  <2>2. work'[n] # None /\ Info(work'[n]) = TipView[n]
    BY <1>1, <2>1, RowIsNotNone DEF Row, Info
  <2>3. \A m \in Names : Half(m)' <=> m = n \/ Half(m)
    BY <1>1, <1>3 DEF ReadInfo, Half
  <2> QED BY <1>1, <1>2, <2>2, <2>3, HeightsType DEF TipView, Tip
<1>4. CASE ReadResource(n)
  <2>1. work[n] \in Row /\ Half(n)
    BY <1>4 DEF ReadResource, Half, TypeInv, TypeOK, HalfRead, Rows
  <2>2. work'[n] = [work[n] EXCEPT !.resource = TipView[n]]
    BY <1>4 DEF ReadResource, TypeInv, TypeOK, Rows
  <2>3. work'[n] # None /\ Info(work'[n]) = Info(work[n]) /\ Resource(work'[n]) = TipView[n]
    BY <1>1, <2>1, <2>2, RowIsNotNone DEF Row, Info, Resource
  <2>4. \A m \in Names : Half(m)' <=> m # n /\ Half(m)
    BY <1>1, <1>4 DEF ReadResource, Half
  <2> QED BY <1>1, <1>2, <2>1, <2>3, <2>4, HeightsType DEF TipView, Tip
<1> QED BY <1>3, <1>4

\* A block between two heights changed the name, or it has the same state at both.
LEMMA ViewOrChanged ==
  ASSUME TypeInv, ChainInv, NEW n \in Names, NEW h \in 1 .. Tip
  PROVE  FreshAt(n, chain[h].view[n], h)
<1> DEFINE S == {k \in h .. Tip : chain[k].view[n] = TipView[n]}
<1>1. Tip \in Nat /\ h \in Nat /\ h > 0 /\ S \subseteq Nat /\ Tip \in S
  BY TipFacts DEF TypeInv, TypeOK, TipView
<1>2. PICK k \in S : IsMin(k, S)
  BY <1>1, LowestHeight
<1>3. CASE k = h
  BY <1>2, <1>3 DEF FreshAt
<1>4. CASE k # h
  <2>1. k - 1 \in h .. Tip /\ k \in 1 .. Tip /\ k > 1 /\ k \in h + 1 .. Tip
    BY <1>1, <1>2, <1>4
  <2>2. k - 1 \notin S
    BY <1>1, <1>2, <2>1 DEF IsMin
  <2>3. chain[k - 1].view[n] # chain[k].view[n]
    BY <1>2, <2>1, <2>2
  <2>4. n \in chain[k].changed
    BY <2>1, <2>3 DEF ChainInv, BlockOK
  <2> QED BY <2>1, <2>4 DEF FreshAt
<1> QED BY <1>3, <1>4

\* What a block says of a name is never newer than what the tip says.
LEMMA NeverNewer ==
  ASSUME TypeInv, ChainInv, NEW n \in Names, NEW h \in 1 .. Tip
  PROVE  HeightOf(chain[h].view[n]) <= HeightOf(TipView[n])
<1>1. /\ Tip \in Nat /\ Tip > 0 /\ \A v \in Version : HeightOf(v) \in Nat
      /\ chain[h].view[n] \in Version /\ TipView[n] \in Version
  BY TipFacts DEF TypeInv, TypeOK, Block, Version, HeightOf
<1>2. CASE chain[h].view[n] = TipView[n]
  BY <1>1, <1>2
<1>3. CASE chain[h].view[n] # TipView[n]
  <2>1. PICK k \in h + 1 .. Tip : n \in chain[k].changed
    BY <1>3, ViewOrChanged DEF FreshAt
  <2>2. k \in 1 .. Tip /\ k > h
    BY <1>1, <2>1
  <2>3. HeightOf(TipView[n]) >= k
    <3>1. BlockOK(Tip)
      BY <1>1 DEF ChainInv
    <3> QED BY <2>1, <2>2, <3>1 DEF BlockOK, TipView
  <2>4. HeightOf(chain[h].view[n]) <= h
    BY DEF ChainInv, BlockOK
  <2> QED BY <1>1, <2>2, <2>3, <2>4
<1> QED BY <1>2, <1>3

\* What is committed is no newer than the tip, and no older than what it replaces
\* unless it comes from a file written before the last block.
LEMMA MonotoneCommits ==
  ASSUME TypeInv, ChainInv, GrowInv, WholeInv, MonotoneInv,
         BootstrapCommit \/ ImportJsonl \/ CommitBlock
  PROVE  /\ MonotoneInv'
         /\ \/ \A n \in Names : NoOlder(n, rows', rows)
            \/ \E file \in exports : file # chain /\ Import(file)
<1> USE DEF MonotoneInv, NoNewer, NoOlder
<1>1. CASE BootstrapCommit \/ CommitBlock
  <2>1. /\ UNCHANGED chain /\ rows' = work /\ pc = "read" /\ todo = {}
        /\ pc' # "read"
    BY <1>1 DEF BootstrapCommit, CommitBlock, EndCommand, chainVars
  <2>2. \A n \in Names : ~Half(n)
    BY <2>1 DEF Half
  <2> QED BY <2>1, <2>2 DEF TipView, Tip
<1>2. CASE ImportJsonl
  <2> PICK file \in exports : Import(file)
    BY <1>2 DEF ImportJsonl
  <2>1. UNCHANGED chain /\ pc' # "read" /\ TipView' = TipView
    BY DEF Import, chainVars, runVars, MayBootstrap, TipView, Tip
  <2>2. Len(file) \in 1 .. Tip /\ file[Len(file)] = chain[Len(file)]
    BY FileFacts, TipFacts DEF GrowInv, OnChain, TypeInv, TypeOK
  <2>3. \A n \in Names : HeightOf(file[Len(file)].view[n]) <= HeightOf(TipView[n])
    BY <2>2, NeverNewer
  <2>4. ASSUME NEW n \in Names PROVE NoNewer(n, rows)'
    <3>1. NoNewer(n, rows)
      OBVIOUS
    <3> QED BY <2>1, <2>3, <3>1, ImportedRows
  <2>5. ASSUME file = chain, NEW n \in Names PROVE NoOlder(n, rows', rows)
    <3>1. file[Len(file)].view = TipView
      BY <2>5 DEF TipView, Tip
    <3>2. /\ HeightOf(TipView[n]) \in Nat /\ HeightOf(Info(rows[n])) \in Nat
          /\ HeightOf(Resource(rows[n])) \in Nat /\ NoNewer(n, rows)
      BY HeightsType
    <3>3. \/ Info(rows'[n]) = TipView[n] /\ Resource(rows'[n]) = TipView[n]
          \/ rows'[n] = rows[n]
      BY <3>1, ImportedRows
    <3> QED BY <3>2, <3>3
  <2>6. MonotoneInv'
    BY <2>1, <2>4
  <2> HIDE DEF MonotoneInv, NoNewer, NoOlder
  <2> QED BY <2>5, <2>6
<1> QED BY <1>1, <1>2

\* MonotoneInv holds as long as no block is disconnected.
LEMMA MonotoneInvariant ==
  ~Reorgs => (Spec => [](TypeInv /\ ChainInv /\ GrowInv /\ WholeInv /\ MonotoneInv))
<1> SUFFICES ASSUME ~Reorgs
             PROVE  Spec => [](TypeInv /\ ChainInv /\ GrowInv /\ WholeInv /\ MonotoneInv)
  OBVIOUS
<1>1. Init => MonotoneInv
  <2> SUFFICES ASSUME Init PROVE MonotoneInv
    OBVIOUS
  <2>1. TypeInv /\ WholeInv
    BY TypeInit DEF Init, WholeInv, Whole, NoRows, Empty
  <2>2. pc # "read" /\ \A n \in Names : rows[n] = None
    BY DEF Init, NoRows
  <2>3. \A n \in Names : /\ HeightOf(TipView[n]) \in Nat
                         /\ HeightOf(Info(rows[n])) = 0 /\ HeightOf(Resource(rows[n])) = 0
    BY <2>1, <2>2, HeightsType
  <2>4. ASSUME NEW n \in Names PROVE NoNewer(n, rows)
    BY <2>3 DEF NoNewer
  <2> QED BY <2>2, <2>4 DEF MonotoneInv
<1>2. TypeInv /\ ChainInv /\ GrowInv /\ WholeInv /\ MonotoneInv /\ [Next]_vars => MonotoneInv'
  <2> SUFFICES ASSUME TypeInv, ChainInv, GrowInv, WholeInv, MonotoneInv, [Next]_vars
               PROVE  MonotoneInv'
    OBVIOUS
  <2>1. ~RollbackReorg
    BY DEF GrowInv, RollbackReorg
  <2> QED BY <2>1, MonotoneQuietSteps, MonotoneReads, MonotoneCommits DEF Next, Command
<1> QED BY <1>1, <1>2, GrowInvariant, RowsAreWhole, PTL DEF Spec

\* While the chain only grows, no command replaces a state of a name by an older
\* one, not a scan of an old block, a names file, a repeated bootstrap or the import
\* of a file that shows the tip, for every chain, window and interleaving with HSD;
\* only the import of a file written before the last block may.
THEOREM GrowingRowsNeverGoBack == ~Reorgs => (Spec => RowsNeverGoBack)
<1> SUFFICES ASSUME ~Reorgs PROVE Spec => RowsNeverGoBack
  OBVIOUS
<1> DEFINE Up == \A n \in Names : /\ HeightOf(Info(rows'[n])) >= HeightOf(Info(rows[n]))
                                  /\ HeightOf(Resource(rows'[n])) >= HeightOf(Resource(rows[n]))
           Old == \E file \in exports : file # chain /\ Import(file)
<1>1. TypeInv /\ ChainInv /\ GrowInv /\ WholeInv /\ MonotoneInv /\ TypeInv' /\ WholeInv'
        /\ [Next]_vars => [Up \/ Old]_rows
  <2> SUFFICES ASSUME TypeInv, ChainInv, GrowInv, WholeInv, MonotoneInv, TypeInv', WholeInv',
                      [Next]_vars, rows' # rows, ~Old
               PROVE  Up
    OBVIOUS
  <2>1. BootstrapCommit \/ ImportJsonl \/ CommitBlock
    <3>1. ~RollbackReorg
      BY DEF GrowInv, RollbackReorg
    <3> QED BY <3>1 DEF Next, Command, vars, dbVars, ChainMoves, ExportJsonl, BootstrapTip,
              BootstrapNames, ReorgCheck, CatchUp, Scan, FromFile, StartCheck, CompareHash, CheckPassed,
              PlanCatchUp, FetchBlock, ReadInfo, ReadResource, FinishCatchUp, Interrupted
  <2>2. \A n \in Names : NoOlder(n, rows', rows)
    BY <2>1, MonotoneCommits
  <2>3. \A n \in Names : /\ HeightOf(Info(rows'[n])) \in Nat
                         /\ HeightOf(Resource(rows'[n])) \in Nat
    <3>1. \A v \in Version : HeightOf(v) \in Nat
      BY DEF Version, HeightOf
    <3>2. \A n \in Names : rows'[n] = None
                           \/ (rows'[n].info \in Version /\ rows'[n].resource \in Version)
      BY DEF TypeInv, TypeOK, Rows, Row, WholeInv, Whole
    <3> QED BY <3>1, <3>2, HeightsType DEF Info, Resource
  <2> QED BY <2>2, <2>3, HeightsType DEF NoOlder
<1> QED BY <1>1, MonotoneInvariant, PTL DEF Spec, RowsNeverGoBack

-----------------------------------------------------------------------------
(* On a growing chain a row is stale only ahead *)

\* By hand the operator scans only a block of the past every name was opened in,
\* and re-reads from a file only all the names.
ByHand == ScanHeights \subseteq {1} /\ NameFiles \subseteq {Names}

\* The height the index stands at: 0 before it was ever bootstrapped.
Base == IF lastHeight = None THEN 0 ELSE lastHeight

Fresh(n, r, h) == FreshAt(n, Info(r[n]), h) /\ FreshAt(n, Resource(r[n]), h)

\* Rows are fresh at the height the index stands at; what the open transaction
\* has read, and what its block leaves alone, at the height it will commit.
FreshInv ==
  /\ \A n \in Names : Fresh(n, rows, Base)
  /\ pc = "read" =>
       \A n \in Names : /\ Half(n) => FreshAt(n, Info(work[n]), cur)
                        /\ n \notin todo => Fresh(n, work, cur)
  /\ cmd = "scan" /\ pc \in {"check", "fetch", "read"} => cur = 1
  /\ cmd = "catch-up" /\ pc \in {"fetch", "read"} => lastHeight # None /\ cur = lastHeight + 1

\* What was fresh at a height is fresh at a lower one.
LEMMA FreshLower ==
  ASSUME TypeInv, NEW n \in Names, NEW v, NEW h \in Nat, NEW k \in Nat, k <= h, FreshAt(n, v, h)
  PROVE  FreshAt(n, v, k)
<1>1. Tip \in Nat
  BY TipFacts DEF TypeInv, TypeOK
<1> QED BY <1>1 DEF FreshAt

\* A block that does not change the name leaves its state fresh.
LEMMA FreshNext ==
  ASSUME TypeInv, NEW n \in Names, NEW v, NEW h \in Nat, FreshAt(n, v, h),
         n \notin chain[h + 1].changed
  PROVE  FreshAt(n, v, h + 1)
<1>1. Tip \in Nat
  BY TipFacts DEF TypeInv, TypeOK
<1>2. CASE v = TipView[n]
  BY <1>2 DEF FreshAt
<1>3. CASE v # TipView[n]
  <2>1. PICK k \in h + 1 .. Tip : n \in chain[k].changed
    BY <1>3 DEF FreshAt
  <2>2. k # h + 1
    BY <2>1
  <2>3. k \in (h + 1) + 1 .. Tip
    BY <1>1, <2>1, <2>2
  <2> QED BY <2>1, <2>3 DEF FreshAt
<1> QED BY <1>2, <1>3

\* What was fresh stays fresh when HSD connects a block.
LEMMA FreshMoves ==
  ASSUME TypeInv, ~Reorgs, ChainMoves, NEW n \in Names, NEW v, NEW h \in Nat, h <= Tip,
         FreshAt(n, v, h)
  PROVE  FreshAt(n, v, h)'
<1>1. PICK S \in SUBSET Names : Connect(S)
  BY DEF ChainMoves
<1>2. Tip \in Nat /\ Tip' = Tip + 1 /\ chain'[Tip + 1].changed = S
      /\ (\A k \in 1 .. Tip : chain'[k] = chain[k])
      /\ (n \notin S => TipView'[n] = TipView[n])
  BY <1>1, ConnectFacts, TipFacts DEF TypeInv, TypeOK
<1>3. CASE n \in S
  <2>1. Tip + 1 \in h + 1 .. Tip'
    BY <1>2
  <2> QED BY <1>2, <1>3, <2>1 DEF FreshAt
<1>4. CASE n \notin S
  <2>1. CASE v = TipView[n]
    BY <1>2, <1>4, <2>1 DEF FreshAt
  <2>2. CASE v # TipView[n]
    <3>1. PICK k \in h + 1 .. Tip : n \in chain[k].changed
      BY <2>2 DEF FreshAt
    <3>2. k \in h + 1 .. Tip' /\ n \in chain'[k].changed
      BY <1>2, <3>1
    <3> QED BY <3>2 DEF FreshAt
  <2> QED BY <2>1, <2>2
<1> QED BY <1>3, <1>4

\* A name the chain does not know was never changed.
LEMMA FreshUnknown ==
  ASSUME TypeInv, ChainInv, NEW n \in Names, NEW v, NEW h \in Nat, NEW k \in Nat,
         FreshAt(n, v, h), TipView[n] = Unregistered
  PROVE  FreshAt(n, v, k)
<1>1. Tip \in Nat /\ Tip > 0
  BY TipFacts DEF TypeInv, TypeOK
<1>2. BlockOK(Tip)
  BY <1>1 DEF ChainInv
<1>3. \A i \in 1 .. Tip : n \notin chain[i].changed
  BY <1>1, <1>2 DEF BlockOK, TipView, HeightOf, Unregistered
<1>4. \A i \in h + 1 .. Tip : i \in 1 .. Tip
  BY <1>1
<1> QED BY <1>3, <1>4 DEF FreshAt

\* A name not yet opened at a height was changed by no block up to there.
LEMMA FreshUnopened ==
  ASSUME TypeInv, ChainInv, NEW n \in Names, NEW v, NEW h \in Nat, NEW k \in 1 .. Tip,
         FreshAt(n, v, h), chain[k].view[n] = Unregistered
  PROVE  FreshAt(n, v, k)
<1>1. Tip \in Nat /\ k \in Nat
  BY TipFacts DEF TypeInv, TypeOK
<1>2. \A i \in 1 .. k : n \notin chain[i].changed
  BY <1>1 DEF ChainInv, BlockOK, HeightOf, Unregistered
<1>3. CASE v = TipView[n]
  BY <1>3 DEF FreshAt
<1>4. CASE v # TipView[n]
  <2>1. PICK i \in h + 1 .. Tip : n \in chain[i].changed
    BY <1>4 DEF FreshAt
  <2>2. i \in k + 1 .. Tip
    BY <1>1, <1>2, <2>1
  <2> QED BY <2>1, <2>2 DEF FreshAt
<1> QED BY <1>3, <1>4

\* Steps that change neither the rows nor the chain.
LEMMA FreshKept ==
  ASSUME FreshInv, UNCHANGED <<chain, rows, lastHeight>>, pc' # "read",
         cmd' = "scan" /\ pc' \in {"check", "fetch", "read"} => cur' = 1,
         cmd' = "catch-up" /\ pc' \in {"fetch", "read"} =>
           lastHeight # None /\ cur' = lastHeight + 1
  PROVE  FreshInv'
  BY DEF FreshInv, Fresh, FreshAt, Base, TipView, Tip

\* A step that changes nothing of the chain keeps what is fresh.
LEMMA FreshStays ==
  ASSUME UNCHANGED chain, NEW n, NEW v, NEW h, FreshAt(n, v, h)
  PROVE  FreshAt(n, v, h)'
  BY DEF FreshAt, TipView, Tip

\* Steps that commit nothing keep rows fresh.
LEMMA FreshQuietSteps ==
  ASSUME ~Reorgs, ByHand, TypeInv, ChainInv, GrowInv, FreshInv,
         \/ ChainMoves \/ ExportJsonl \/ BootstrapTip \/ BootstrapNames \/ ReorgCheck
         \/ CatchUp \/ Scan \/ FromFile \/ CompareHash \/ CheckPassed \/ PlanCatchUp \/ FetchBlock
         \/ FinishCatchUp \/ Interrupted \/ UNCHANGED vars
  PROVE  FreshInv'
<1>1. /\ Tip \in Nat /\ Tip > 0 /\ cur \in Nat /\ Base \in Nat /\ Base <= Tip
      /\ lastHeight # None => lastHeight \in Nat /\ Base = lastHeight
  BY TipFacts DEF TypeInv, TypeOK, GrowInv, Base
<1>2. ASSUME EndCommand, UNCHANGED <<chain, rows, lastHeight>> PROVE FreshInv'
  BY <1>2, FreshKept DEF EndCommand
<1>3. CASE ChainMoves
  <2>1. UNCHANGED <<rows, lastHeight, pc, cmd, cur, todo, work, snap>>
    BY <1>3 DEF ChainMoves, dbVars, runVars, txnVars
  <2>2. pc = "read" => cur <= Tip
    BY DEF GrowInv
  <2>3. Base' = Base
    BY <2>1 DEF Base
  <2>4. ASSUME NEW n \in Names PROVE Fresh(n, rows, Base)'
    <3>1. FreshAt(n, Info(rows[n]), Base) /\ FreshAt(n, Resource(rows[n]), Base)
      BY DEF FreshInv, Fresh
    <3>2. \A v, h : h = Base /\ FreshAt(n, v, h) => FreshAt(n, v, h)'
      BY <1>1, <1>3, FreshMoves
    <3> QED BY <2>1, <2>3, <3>1, <3>2 DEF Fresh, FreshAt
  <2>5. ASSUME NEW n \in Names, pc = "read"
        PROVE  /\ Half(n)' => FreshAt(n, Info(work[n]), cur)'
               /\ n \notin todo' => Fresh(n, work, cur)'
    <3>1. \A v, h : h = cur /\ FreshAt(n, v, h) => FreshAt(n, v, h)'
      BY <1>1, <1>3, <2>2, <2>5, FreshMoves
    <3>2. /\ Half(n) => FreshAt(n, Info(work[n]), cur)
          /\ n \notin todo => Fresh(n, work, cur)
      BY <2>5 DEF FreshInv
    <3>3. Half(n)' <=> Half(n)
      BY <2>1 DEF Half
    <3> QED BY <2>1, <3>1, <3>2, <3>3 DEF Fresh, FreshAt
  <2> QED BY <2>1, <2>4, <2>5 DEF FreshInv
<1>export. CASE ExportJsonl
  BY <1>export DEF ExportJsonl, Export, dbVars, runVars, txnVars, FreshInv, Fresh, FreshAt, Base, Half,
               TipView, Tip
<1>4. CASE BootstrapTip
  BY <1>4, FreshKept DEF BootstrapTip, chainVars, dbVars
<1>5. CASE BootstrapNames
  <2>1. UNCHANGED <<rows, lastHeight, chain, cur, cmd, snap>> /\ cmd = "boot"
    BY <1>5 DEF BootstrapNames, dbVars, chainVars, TypeInv, CommandOK
  <2>2. ASSUME NEW n \in Names
        PROVE  /\ n \in todo' => FreshAt(n, Info(work'[n]), cur)
               /\ n \notin todo' => Fresh(n, work', cur)
    <3>1. CASE n \in todo'
      <4>1. work'[n] = [info |-> TipView[n], resource |-> None]
        BY <1>5, <3>1 DEF BootstrapNames
      <4>2. [info |-> TipView[n], resource |-> None] \in Row
        BY TipFacts DEF Row, TypeInv, TypeOK
      <4>3. Info(work'[n]) = TipView[n]
        BY <4>1, <4>2, RowIsNotNone DEF Info
      <4> QED BY <3>1, <4>3 DEF FreshAt
    <3>2. CASE n \notin todo'
      <4>1. work'[n] = rows[n] /\ TipView[n] = Unregistered
        BY <1>5, <3>2 DEF BootstrapNames
      <4>2. Fresh(n, rows, Base)
        BY DEF FreshInv
      <4> QED BY <1>1, <3>2, <4>1, <4>2, FreshUnknown DEF Fresh
    <3> QED BY <3>1, <3>2
  <2>3. \A n \in Names : Fresh(n, rows, Base)
    BY DEF FreshInv
  <2> QED BY <2>1, <2>2, <2>3 DEF FreshInv, Fresh, FreshAt, Base, Half, TipView, Tip
<1>6. CASE ReorgCheck \/ CatchUp \/ Scan \/ FromFile
  <2>1. /\ UNCHANGED <<chain, rows, lastHeight>> /\ pc' = "check"
        /\ cmd' = "scan" => cur' \in ScanHeights
    BY <1>6 DEF ReorgCheck, CatchUp, Scan, FromFile, StartCheck, chainVars, dbVars
  <2> QED BY <2>1, FreshKept DEF ByHand
<1>7. CASE CompareHash
  <2>1. /\ UNCHANGED <<chain, rows, lastHeight>> /\ pc = "check"
        /\ EndCommand \/ (UNCHANGED <<pc, cmd, cur>>) \/ pc' = "rollback"
    BY <1>7 DEF CompareHash, chainVars, dbVars
  <2> QED BY <1>2, <2>1, FreshKept DEF FreshInv
<1>8. CASE CheckPassed
  <2>1. /\ UNCHANGED <<chain, rows, lastHeight>> /\ pc = "check"
        /\ \/ EndCommand
           \/ cmd' = "catch-up" /\ pc' = "plan"
           \/ cmd' = "scan" /\ cmd = "scan" /\ pc' = "fetch" /\ cur' = cur
           \/ cmd' = "file" /\ pc' = "fetch"
    BY <1>8 DEF CheckPassed, chainVars, dbVars
  <2> QED BY <1>2, <2>1, FreshKept DEF FreshInv
<1>9. CASE PlanCatchUp
  <2>1. /\ UNCHANGED <<chain, rows, lastHeight>> /\ cmd = "catch-up"
        /\ \/ EndCommand
           \/ cmd' = cmd /\ pc' = "fetch" /\ lastHeight # None /\ cur' = lastHeight + 1
    BY <1>9 DEF PlanCatchUp, chainVars, dbVars, TypeInv, CommandOK
  <2> QED BY <1>2, <2>1, FreshKept
<1>10. CASE FetchBlock
  <2>1. UNCHANGED <<chain, rows, lastHeight>> /\ pc = "fetch"
    BY <1>10 DEF FetchBlock, chainVars, dbVars
  <2>2. CASE ~EndCommand
    <3>1. /\ cur \in Nat /\ cur > 0 /\ cur <= Tip /\ todo' \in FetchedNames
          /\ work' = rows /\ snap' = Empty
          /\ pc' = "read" /\ UNCHANGED <<cmd, cur>> /\ cmd \in {"catch-up", "scan", "file"}
      BY <1>1, <1>10, <2>2 DEF FetchBlock, TypeInv, CommandOK
    <3>2. ASSUME NEW n \in Names, n \notin todo' PROVE Fresh(n, rows, cur)
      <4>1. n \notin chain[cur].changed /\ cmd # "file"
        BY <3>1, <3>2 DEF FetchedNames, ByHand
      <4>2. Fresh(n, rows, Base)
        BY DEF FreshInv
      <4>3. cur = Base + 1 \/ cur <= Base
        BY <1>1, <2>1, <3>1, <4>1 DEF FreshInv
      <4>4. CASE cur = Base + 1
        BY <1>1, <4>1, <4>2, <4>4, FreshNext DEF Fresh
      <4>5. CASE cur <= Base
        BY <1>1, <4>2, <4>5, FreshLower DEF Fresh
      <4> QED BY <4>3, <4>4, <4>5
    <3>3. \A n \in Names : n \notin DOMAIN snap'
      BY <3>1 DEF Empty
    <3>4. ASSUME NEW n \in Names
          PROVE  Fresh(n, rows, Base)' /\ (n \notin todo' => Fresh(n, work, cur)')
      BY <2>1, <3>1, <3>2, FreshStays DEF Fresh, FreshInv, Base
    <3> QED BY <2>1, <3>1, <3>3, <3>4 DEF FreshInv, Half
  <2> QED BY <1>2, <2>1, <2>2
<1>11. CASE FinishCatchUp \/ Interrupted
  BY <1>2, <1>11 DEF FinishCatchUp, Interrupted, chainVars, dbVars
<1>12. CASE UNCHANGED vars
  BY <1>12 DEF vars, dbVars, runVars, txnVars, chainVars, FreshInv, Fresh, FreshAt, Base, Half,
               TipView, Tip
<1> QED BY <1>3, <1>4, <1>5, <1>6, <1>7, <1>8, <1>9, <1>10, <1>11, <1>12, <1>export

\* What is read of a name is fresh at every height.
LEMMA FreshReads ==
  ASSUME TypeInv, FreshInv, NEW n \in Names, ReadInfo(n) \/ ReadResource(n)
  PROVE  FreshInv'
<1>1. /\ UNCHANGED <<chain, rows, lastHeight, pc, cmd, cur>> /\ pc = "read"
      /\ \A m \in Names : m # n => work'[m] = work[m]
      /\ TipView[n] \in Version
  BY TipFacts DEF ReadInfo, ReadResource, dbVars, runVars, chainVars, TypeInv, TypeOK, Rows
<1>2. \A v, h : v = TipView[n] => FreshAt(n, v, h)'
  BY <1>1 DEF FreshAt, TipView, Tip
<1>3. ASSUME NEW m \in Names PROVE Fresh(m, rows, Base)'
  BY <1>1, FreshStays DEF Fresh, FreshInv, Base
<1>4. ASSUME NEW m \in Names, m # n
      PROVE  /\ Half(m) => FreshAt(m, Info(work[m]), cur)'
             /\ m \notin todo => Fresh(m, work, cur)'
  BY <1>1, <1>4, FreshStays DEF FreshInv, Fresh
<1>5. CASE ReadInfo(n)
  <2>1. work'[n] = [info |-> TipView[n], resource |-> None]
    BY <1>5 DEF ReadInfo, TypeInv, TypeOK, Rows
  <2>2. Info(work'[n]) = TipView[n]
    BY <1>1, <2>1, RowIsNotNone DEF Row, Info
  <2>3. \A m \in Names : m # n => (Half(m)' <=> Half(m))
    BY <1>1, <1>5 DEF ReadInfo, Half
  <2>4. todo' = todo /\ n \in todo
    BY <1>5 DEF ReadInfo
  <2>5. FreshAt(n, Info(work[n]), cur)'
    BY <1>2, <2>2
  <2> QED BY <1>1, <1>3, <1>4, <2>3, <2>4, <2>5 DEF FreshInv
<1>6. CASE ReadResource(n)
  <2>1. work[n] \in Row /\ Half(n)
    BY <1>6 DEF ReadResource, Half, TypeInv, TypeOK, HalfRead, Rows
  <2>2. work'[n] = [work[n] EXCEPT !.resource = TipView[n]]
    BY <1>6 DEF ReadResource, TypeInv, TypeOK, Rows
  <2>3. Info(work'[n]) = Info(work[n]) /\ Resource(work'[n]) = TipView[n]
    BY <1>1, <2>1, <2>2, RowIsNotNone DEF Row, Info, Resource
  <2>4. \A m \in Names : m # n => (Half(m)' <=> Half(m))
    BY <1>1, <1>6 DEF ReadResource, Half
  <2>5. todo' = todo \ {n}
    BY <1>6 DEF ReadResource
  <2>6. FreshAt(n, Info(work[n]), cur)
    BY <1>1, <2>1 DEF FreshInv
  <2>7. Fresh(n, work, cur)'
    BY <1>1, <1>2, <2>3, <2>6, FreshStays DEF Fresh
  <2>8. ~Half(n)'
    BY <2>5 DEF Half
  <2> QED BY <1>1, <1>3, <1>4, <2>4, <2>5, <2>7, <2>8 DEF FreshInv
<1> QED BY <1>5, <1>6

\* What is committed is fresh at the recorded height.
LEMMA FreshCommits ==
  ASSUME TypeInv, ChainInv, GrowInv, FreshInv, BootstrapCommit \/ ImportJsonl \/ CommitBlock
  PROVE  FreshInv'
<1>1. Base \in Nat /\ cur \in Nat /\ Tip \in Nat
  BY TipFacts DEF TypeInv, TypeOK, Base
<1>2. CASE BootstrapCommit \/ CommitBlock
  <2>1. /\ UNCHANGED chain /\ rows' = work /\ lastHeight' = cur /\ todo = {} /\ pc = "read"
        /\ pc' # "read" /\ cmd' # "scan"
        /\ pc' = "fetch" => cur' = cur + 1
    BY <1>2 DEF BootstrapCommit, CommitBlock, EndCommand, chainVars
  <2>2. lastHeight' # None /\ Base' = cur
    BY <1>1, <2>1, IndexerAssumption DEF Base
  <2>3. ASSUME NEW n \in Names PROVE Fresh(n, rows, Base)'
    BY <2>1, <2>2, FreshStays DEF FreshInv, Fresh
  <2> QED BY <2>1, <2>2, <2>3 DEF FreshInv
<1>3. CASE ImportJsonl
  <2> PICK file \in exports : Import(file)
    BY <1>3 DEF ImportJsonl
  <2>1. /\ UNCHANGED <<chain, pc, cmd, cur>> /\ pc = "idle" /\ lastHeight' = Len(file)
        /\ Len(file) \in 1 .. Tip /\ Len(file) \in Nat /\ file[Len(file)] = chain[Len(file)]
    BY <1>1, FileFacts DEF Import, chainVars, runVars, MayBootstrap, GrowInv, OnChain, TypeInv,
                           TypeOK
  <2>2. Base' = Len(file)
    BY <2>1, IndexerAssumption DEF Base
  <2>3. ASSUME NEW n \in Names PROVE Fresh(n, rows', Len(file))
    <3>1. CASE file[Len(file)].view[n] = Unregistered
      <4>1. Fresh(n, rows, Base) /\ rows'[n] = rows[n]
        BY <3>1, ImportedRows DEF FreshInv
      <4>2. chain[Len(file)].view[n] = Unregistered
        BY <2>1, <3>1
      <4>3. \A v : FreshAt(n, v, Base) => FreshAt(n, v, Len(file))
        BY <1>1, <2>1, <4>2, FreshUnopened
      <4> QED BY <4>1, <4>3 DEF Fresh
    <3>2. CASE file[Len(file)].view[n] # Unregistered
      <4>1. /\ Info(rows'[n]) = chain[Len(file)].view[n]
            /\ Resource(rows'[n]) = chain[Len(file)].view[n]
        BY <2>1, <3>2, ImportedRows
      <4> QED BY <2>1, <4>1, ViewOrChanged DEF Fresh
    <3> QED BY <3>1, <3>2
  <2>4. ASSUME NEW n \in Names PROVE Fresh(n, rows, Base)'
    BY <2>1, <2>2, <2>3, FreshStays DEF Fresh
  <2> QED BY <2>1, <2>4 DEF FreshInv
<1> QED BY <1>2, <1>3

\* Before the first bootstrap the index stands at height 0, every block ahead.
LEMMA FreshInit == Init => FreshInv
<1> SUFFICES ASSUME Init PROVE FreshInv
  OBVIOUS
<1>1. PICK opened \in SUBSET Names : chain = Genesis(opened)
  BY DEF Init, ChainInit
<1>2. Tip = FinalHeight /\ FinalHeight \in Nat \ {0}
  BY <1>1, GenesisType, ChainAssumption DEF Tip
<1>3. chain[1].changed = opened
  BY <1>1, <1>2 DEF Genesis
<1>4. \A n \in Names : n \notin opened => TipView[n] = Unregistered
  BY <1>1, <1>2 DEF Genesis, TipView
<1>5. ASSUME NEW n \in Names PROVE FreshAt(n, Unregistered, 0)
  BY <1>2, <1>3, <1>4 DEF FreshAt
<1>6. pc = "idle" /\ Base = 0 /\ \A n \in Names : rows[n] = None
  BY DEF Init, Base, NoRows
<1> QED BY <1>5, <1>6 DEF FreshInv, Fresh, Info, Resource

\* While the chain only grows a row is stale only where the block that changed
\* its name is still ahead of the index, whatever is killed, refused or repeated,
\* for every chain and limit, provided the operator skips no block by hand.
THEOREM RowsAreStaleOnlyAhead == ~Reorgs /\ ByHand => (Spec => []StaleOnlyAhead)
<1> SUFFICES ASSUME ~Reorgs, ByHand PROVE Spec => []StaleOnlyAhead
  OBVIOUS
<1>1. Init => FreshInv
  BY FreshInit
<1>2. TypeInv /\ ChainInv /\ GrowInv /\ FreshInv /\ [Next]_vars => FreshInv'
  <2> SUFFICES ASSUME TypeInv, ChainInv, GrowInv, FreshInv, [Next]_vars
               PROVE  FreshInv'
    OBVIOUS
  <2>1. ~RollbackReorg
    BY DEF GrowInv, RollbackReorg
  <2> QED BY <2>1, FreshQuietSteps, FreshReads, FreshCommits DEF Next, Command
<1>3. FreshInv => StaleOnlyAhead
  BY DEF FreshInv, StaleOnlyAhead, Fresh, Base
<1> QED BY <1>1, <1>2, <1>3, GrowInvariant, PTL DEF Spec

-----------------------------------------------------------------------------
(* The deferred provider summary *)

\* A catch-up, once begun, runs to its end: nothing is interrupted, and it spans
\* one block at most or no block of it can be missing or refused.
UnbrokenCatchUp ==
  /\ ~Interruptions
  /\ MaxCatchUp <= 1 \/ (~MayHide /\ (QuietChain \/ ~Reorgs))

SummaryInv ==
  /\ pc # "finish" /\ summary # rows =>
       cmd = "catch-up" /\ pc \in {"fetch", "read"} /\ MaxCatchUp > 1
  /\ cmd = "catch-up" /\ pc \in {"fetch", "read"} =>
       /\ cur <= target
       /\ MaxCatchUp <= 1 => cur = target
       /\ QuietChain \/ ~Reorgs => target <= Tip

\* Steps that commit nothing end no catch-up with blocks committed.
LEMMA SummaryQuietSteps ==
  ASSUME UnbrokenCatchUp, TypeInv, SummaryInv,
         \/ ChainMoves \/ ExportJsonl \/ BootstrapTip \/ BootstrapNames \/ ReorgCheck
         \/ CatchUp \/ Scan \/ FromFile \/ CompareHash \/ CheckPassed \/ PlanCatchUp \/ FetchBlock
         \/ (\E n \in Names : ReadInfo(n) \/ ReadResource(n))
         \/ Interrupted \/ UNCHANGED vars
  PROVE  SummaryInv'
<1> USE DEF SummaryInv
<1>1. Tip \in Nat /\ cur \in Nat /\ target \in Nat /\ MaxCatchUp \in Nat
  BY TipFacts, IndexerAssumption DEF TypeInv, TypeOK
<1>2. ASSUME UNCHANGED <<rows, summary>>, summary = rows, pc' \notin {"fetch", "read"} \/ cmd' # "catch-up"
      PROVE  SummaryInv'
  BY <1>2
<1>export. CASE ExportJsonl
  BY <1>export DEF ExportJsonl, Export, dbVars, runVars, Tip
<1>3. CASE ChainMoves
  <2>1. UNCHANGED <<rows, summary, pc, cmd, cur, target>> /\ (QuietChain => pc = "idle")
    BY <1>3 DEF ChainMoves, dbVars, runVars
  <2>2. ~Reorgs => Tip' = Tip + 1
    BY <1>3, ConnectFacts DEF ChainMoves, TypeInv, TypeOK
  <2> QED BY <1>1, <2>1, <2>2
<1>4. CASE BootstrapTip \/ BootstrapNames \/ ReorgCheck \/ CatchUp \/ Scan \/ FromFile
  <2>1. /\ UNCHANGED <<rows, summary>> /\ pc \in {"idle", "names"}
        /\ pc' \notin {"fetch", "read"} \/ cmd' # "catch-up"
    BY <1>4 DEF BootstrapTip, MayBootstrap, BootstrapNames, ReorgCheck, CatchUp, Scan, FromFile,
                StartCheck, dbVars, TypeInv, CommandOK
  <2> QED BY <1>2, <2>1
<1>5. CASE CompareHash \/ CheckPassed
  <2>1. /\ UNCHANGED <<rows, summary>> /\ pc = "check"
        /\ pc' \notin {"fetch", "read"} \/ cmd' # "catch-up"
    BY <1>5 DEF CompareHash, CheckPassed, EndCommand, dbVars, TypeInv, CommandOK
  <2> QED BY <1>2, <2>1
<1>6. CASE PlanCatchUp
  <2>1. UNCHANGED <<rows, summary, chain>> /\ pc = "plan"
    BY <1>6 DEF PlanCatchUp, dbVars, chainVars
  <2>2. CASE EndCommand
    BY <1>2, <2>1, <2>2 DEF EndCommand
  <2>3. CASE ~EndCommand
    <3>1. PICK to \in {Tip} \cup ToHeights :
            /\ lastHeight # None /\ to <= Tip /\ to > lastHeight /\ to <= lastHeight + MaxCatchUp
            /\ pc' = "fetch" /\ cur' = lastHeight + 1 /\ target' = to
      BY <1>6, <2>3 DEF PlanCatchUp
    <3>2. to \in Nat /\ lastHeight \in Nat
      BY <1>1, <3>1, IndexerAssumption DEF TypeInv, TypeOK
    <3> QED BY <1>1, <2>1, <3>1, <3>2 DEF Tip
  <2> QED BY <2>2, <2>3
<1>7. CASE FetchBlock
  <2>1. UNCHANGED <<rows, summary, chain>> /\ pc = "fetch"
    BY <1>7 DEF FetchBlock, dbVars, chainVars
  <2>2. CASE EndCommand
    <3>1. summary = rows
      <4>1. BlockRefused
        BY <1>7, <2>1, <2>2 DEF FetchBlock, EndCommand
      <4>2. cmd = "catch-up" => MayHide \/ cur > Tip
        BY <1>1, <4>1 DEF BlockRefused
      <4> QED BY <1>1, <2>1, <4>2 DEF UnbrokenCatchUp
    <3> QED BY <1>2, <2>1, <2>2, <3>1 DEF EndCommand
  <2>3. CASE ~EndCommand
    BY <1>7, <2>1, <2>3 DEF FetchBlock, Tip
  <2> QED BY <2>2, <2>3
<1>8. CASE \E n \in Names : ReadInfo(n) \/ ReadResource(n)
  BY <1>8 DEF ReadInfo, ReadResource, chainVars, dbVars, runVars, Tip
<1>9. ~Interrupted
  BY DEF Interrupted, UnbrokenCatchUp
<1>10. CASE UNCHANGED vars
  BY <1>10 DEF vars, dbVars, runVars, chainVars, Tip
<1> QED BY <1>3, <1>4, <1>5, <1>6, <1>7, <1>8, <1>9, <1>10, <1>export

\* Every other commit brings the summary with it.
LEMMA SummaryCommits ==
  ASSUME TypeInv, SummaryInv,
         BootstrapCommit \/ ImportJsonl \/ CommitBlock \/ RollbackReorg \/ FinishCatchUp
  PROVE  SummaryInv'
<1> USE DEF SummaryInv
<1>1. Tip \in Nat /\ cur \in Nat /\ target \in Nat /\ MaxCatchUp \in Nat
  BY TipFacts, IndexerAssumption DEF TypeInv, TypeOK
<1>2. CASE BootstrapCommit \/ RollbackReorg \/ FinishCatchUp
  <2>1. summary' = rows' /\ EndCommand
    BY <1>2 DEF BootstrapCommit, RollbackReorg, RolledBack, FinishCatchUp
  <2> QED BY <2>1 DEF EndCommand
<1>3. CASE ImportJsonl
  BY <1>3 DEF ImportJsonl, Import, MayBootstrap, runVars
<1>4. CASE CommitBlock
  <2>1. CASE cmd \in {"scan", "file"}
    BY <1>4, <2>1 DEF CommitBlock, EndCommand
  <2>2. CASE cmd = "catch-up"
    BY <1>1, <1>4, <2>2 DEF CommitBlock, chainVars, Tip
  <2> QED BY <1>4, <2>1, <2>2 DEF CommitBlock
<1> QED BY <1>2, <1>3, <1>4

\* The provider summary is current whenever no command runs, although catch-up
\* defers it to its end, for every chain and window, provided a catch-up once
\* begun runs to its end.
THEOREM SummaryIsCurrent == UnbrokenCatchUp => (Spec => []SummaryCurrent)
<1> SUFFICES ASSUME UnbrokenCatchUp PROVE Spec => []SummaryCurrent
  OBVIOUS
<1>1. Init => SummaryInv
  BY DEF Init, SummaryInv
<1>2. TypeInv /\ SummaryInv /\ [Next]_vars => SummaryInv'
  BY SummaryQuietSteps, SummaryCommits DEF Next, Command
<1>3. SummaryInv => SummaryCurrent
  BY DEF SummaryInv, SummaryCurrent
<1> QED BY <1>1, <1>2, <1>3, TypeInvariant, PTL DEF Spec

-----------------------------------------------------------------------------
(* In lockstep with a quiet chain *)

\* The nightly commands keep up with the chain: it stands still while a command
\* runs, a catch-up spans one block, and the index starts from a final block.
Lockstep ==
  /\ NightlyOnly
  /\ QuietChain
  /\ MaxCatchUp <= 1 /\ ToHeights = {}
  /\ BootHeights \subseteq 0 .. FinalHeight

\* The file shows the final prefix.
Final(file) == Len(file) = FinalHeight /\ \A h \in 1 .. FinalHeight : file[h] = chain[h]

\* Then every command works at the tip, every file shows the final blocks, and only
\* blocks above these, each indexed with its snapshot, are ever found replaced.
LockInv ==
  /\ pc \in {"names", "read"} /\ cmd = "boot" => Tip = cur /\ cur = FinalHeight
  /\ cmd = "catch-up" /\ pc \in {"fetch", "read"} => Tip = cur /\ target = cur
  /\ IF lastHeight = None THEN rows = NoRows ELSE lastHeight >= FinalHeight
  /\ \A h \in DOMAIN history : h <= FinalHeight \/ h \in DOMAIN before
  /\ \A h \in DOMAIN before : h > FinalHeight
  /\ \A h \in DOMAIN history : h <= FinalHeight => history[h] = chain[h].hash
  /\ pc = "rollback" => cur > FinalHeight
  /\ \A file \in exports : Final(file)

\* The final blocks stay.
LEMMA FinalBlocksStay ==
  ASSUME TypeInv, [Next]_vars
  PROVE  \A h \in 1 .. FinalHeight : h <= Tip /\ h <= Tip' /\ chain'[h] = chain[h]
<1>1. Tip \in Nat /\ Tip >= FinalHeight /\ FinalHeight \in Nat
  BY TipFacts, ChainAssumption DEF TypeInv, TypeOK, ChainTypeOK
<1>2. CASE ChainMoves
  BY <1>1, <1>2, ConnectFacts, DisconnectFacts DEF ChainMoves, TypeInv, TypeOK
<1>3. CASE ~ChainMoves
  BY <1>1, <1>3, ChainStays DEF Tip
<1> QED BY <1>2, <1>3

\* A rollback steps back to the height right below the replaced block.
LEMMA RolledBackHeight ==
  ASSUME TypeInv, WindowInv, RollbackReorg
  PROVE  lastHeight' = cur - 1
<1>1. cur \in Nat \ {0} /\ cur \in DOMAIN history /\ DOMAIN history \subseteq Nat \ {0}
  BY DEF RollbackReorg, WindowInv, NightlyInv, TypeInv, TypeOK, CommandOK
<1>2. DOMAIN history' = {h \in DOMAIN history : h < cur}
  BY <1>1 DEF RollbackReorg, RolledBack, Restricted
<1>3. CASE DOMAIN history' = {}
  BY <1>3 DEF RollbackReorg, RolledBack
<1>4. CASE DOMAIN history' # {}
  <2>1. PICK h \in DOMAIN history' : lastHeight' = h /\ \A k \in DOMAIN history' : k <= h
    BY <1>4 DEF RollbackReorg, RolledBack
  <2>2. h \in Nat /\ h < cur /\ h \in DOMAIN history /\ cur - 1 \in h .. cur
    BY <1>1, <1>2, <2>1
  <2>3. cur - 1 \in DOMAIN history
    BY <1>1, <2>2 DEF WindowInv, HistoryIsContiguous
  <2>4. cur - 1 \in DOMAIN history'
    BY <1>1, <1>2, <2>3
  <2> QED BY <1>1, <2>1, <2>2, <2>4
<1> QED BY <1>3, <1>4

\* A rollback restores the rows recorded before the replaced block.
LEMMA RolledBackRows ==
  ASSUME TypeInv, WindowInv, UndoInv, LockInv, RollbackReorg
  PROVE  cur \in DOMAIN before /\ rows' = before[cur] /\ cur > FinalHeight
<1>1. cur \in DOMAIN history /\ cur > FinalHeight /\ cur \in Nat /\ FinalHeight \in Nat
  BY ChainAssumption
     DEF RollbackReorg, WindowInv, NightlyInv, LockInv, TypeInv, TypeOK
<1>2. cur \in DOMAIN before
  BY <1>1 DEF LockInv
<1> QED BY <1>1, <1>2 DEF RollbackReorg, RolledBack, UndoInv, ExactUndo

\* LockInv, step by step.
LEMMA LockSteps ==
  ASSUME Lockstep, TypeInv, WindowInv, UndoInv, LockInv, [Next]_vars
  PROVE  LockInv'
<1>1. /\ Tip \in Nat /\ Tip >= FinalHeight /\ FinalHeight \in Nat \ {0} /\ cur \in Nat
      /\ lastHeight # None => lastHeight \in Nat
      /\ DOMAIN history \subseteq Nat \ {0}
  BY TipFacts, ChainAssumption DEF TypeInv, TypeOK, ChainTypeOK
<1>2. \A h \in 1 .. FinalHeight : chain'[h] = chain[h]
  BY FinalBlocksStay
<1>files. \A file \in exports' : Final(file)'
  <2>1. CASE ExportJsonl
    <3>1. exports' = exports \cup {chain} /\ Tip = FinalHeight
      BY <1>1, <2>1 DEF ExportJsonl, Export, Lockstep
    <3> QED BY <1>2, <3>1 DEF LockInv, Final, Tip
  <2>2. CASE ~ExportJsonl
    BY <1>2, <2>2, FilesStay DEF LockInv, Final
  <2> QED BY <2>1, <2>2
<1>3. ASSUME UNCHANGED <<history, before>>
      PROVE  /\ \A file \in exports' : Final(file)'
             /\ \A h \in DOMAIN history' : h <= FinalHeight \/ h \in DOMAIN before'
             /\ \A h \in DOMAIN before' : h > FinalHeight
             /\ \A h \in DOMAIN history' : h <= FinalHeight => history'[h] = chain'[h].hash
  <2>1. \A h \in DOMAIN history : h <= FinalHeight => h \in 1 .. FinalHeight
    BY <1>1
  <2> QED BY <1>2, <1>3, <1>files, <2>1 DEF LockInv
<1>4. ASSUME EndCommand, UNCHANGED <<dbVars, before>> PROVE LockInv'
  BY <1>3, <1>4 DEF EndCommand, LockInv, dbVars
<1>5. CASE ChainMoves \/ ExportJsonl \/ UNCHANGED vars
  <2>1. UNCHANGED <<rows, lastHeight, history, before, pc, cmd, cur, target>>
        /\ (pc = "idle" \/ chain' = chain)
    BY <1>5 DEF ChainMoves, ExportJsonl, Export, vars, chainVars, dbVars, runVars, Lockstep
  <2> QED BY <1>3, <2>1 DEF LockInv, Tip
<1>6. CASE BootstrapTip
  <2>1. cur' = FinalHeight /\ Tip' = cur' /\ pc' = "names" /\ UNCHANGED <<dbVars, before>>
    BY <1>1, <1>6 DEF BootstrapTip, MayBootstrap, Lockstep, chainVars, Tip
  <2>2. cmd' = "boot"
    BY <1>6 DEF BootstrapTip
  <2> QED BY <1>3, <2>1, <2>2 DEF LockInv, dbVars
<1>7. CASE BootstrapNames
  <2>1. pc' = "read" /\ pc = "names" /\ cmd = "boot" /\ UNCHANGED <<chain, dbVars, before, cmd, cur>>
    BY <1>7 DEF BootstrapNames, chainVars, TypeInv, CommandOK
  <2> QED BY <1>3, <2>1 DEF LockInv, dbVars, Tip
<1>8. CASE ReorgCheck \/ CatchUp \/ Scan \/ FromFile
  <2>1. pc' = "check" /\ UNCHANGED <<dbVars, before>>
    BY <1>8 DEF ReorgCheck, CatchUp, Scan, FromFile, StartCheck
  <2> QED BY <1>3, <2>1 DEF LockInv, dbVars
<1>9. CASE CompareHash
  <2>1. pc = "check" /\ UNCHANGED <<chain, dbVars, before>>
    BY <1>9 DEF CompareHash, chainVars
  <2>2. PICK h \in pending :
          \/ UNCHANGED <<pc, cmd, cur, target>>
          \/ h <= Tip /\ chain[h].hash # history[h] /\ pc' = "rollback" /\ cur' = h
          \/ EndCommand
    BY <1>9 DEF CompareHash
  <2>3. h \in DOMAIN history
    BY <2>1 DEF WindowInv, NightlyInv
  <2>4. h <= FinalHeight => chain[h].hash = history[h]
    BY <2>3 DEF LockInv
  <2> QED BY <1>1, <1>3, <1>4, <2>1, <2>2, <2>3, <2>4 DEF LockInv, dbVars
<1>10. CASE CheckPassed
  <2>1. UNCHANGED <<dbVars, before>>
    BY <1>10 DEF CheckPassed
  <2>2. EndCommand \/ pc' = "plan" \/ (pc' = "fetch" /\ cmd' # "catch-up")
    BY <1>10 DEF CheckPassed
  <2> QED BY <1>3, <1>4, <2>1, <2>2 DEF LockInv, dbVars
<1>11. CASE PlanCatchUp
  <2>1. UNCHANGED <<chain, dbVars, before>>
    BY <1>11 DEF PlanCatchUp, chainVars
  <2>2. CASE ~EndCommand
    <3>1. /\ lastHeight # None /\ Tip > lastHeight /\ Tip <= lastHeight + MaxCatchUp
          /\ pc' = "fetch" /\ cur' = lastHeight + 1 /\ target' = Tip
      BY <1>11, <2>2 DEF PlanCatchUp, Lockstep
    <3>2. Tip = cur'
      BY <1>1, <3>1, IndexerAssumption DEF Lockstep
    <3> QED BY <1>3, <2>1, <3>1, <3>2 DEF LockInv, dbVars, Tip
  <2> QED BY <1>4, <2>1, <2>2
<1>12. CASE FetchBlock
  <2>1. UNCHANGED <<chain, dbVars, before>> /\ pc = "fetch"
    BY <1>12 DEF FetchBlock, chainVars
  <2>2. EndCommand \/ (pc' = "read" /\ UNCHANGED <<cmd, cur, target>>)
    BY <1>12 DEF FetchBlock
  <2> QED BY <1>3, <1>4, <2>1, <2>2 DEF LockInv, dbVars, Tip, TypeInv, CommandOK
<1>13. CASE \E n \in Names : ReadInfo(n) \/ ReadResource(n)
  <2>1. UNCHANGED <<chain, dbVars, before, pc, cmd, cur, target>>
    BY <1>13 DEF ReadInfo, ReadResource, chainVars, runVars
  <2> QED BY <1>3, <2>1 DEF LockInv, dbVars, Tip
<1>14. CASE FinishCatchUp \/ Interrupted
  <2>1. EndCommand /\ UNCHANGED <<rows, lastHeight, history, before>>
    BY <1>14 DEF FinishCatchUp, Interrupted, dbVars
  <2> QED BY <1>3, <2>1 DEF LockInv, EndCommand
<1>15. CASE BootstrapCommit
  <2>1. EndCommand /\ UNCHANGED <<history, before>> /\ lastHeight' = cur /\ cur = FinalHeight
    BY <1>15 DEF BootstrapCommit, LockInv
  <2> QED BY <1>1, <1>3, <2>1, IndexerAssumption DEF LockInv, EndCommand
<1>16. CASE ImportJsonl
  <2> PICK file \in exports : Import(file)
    BY <1>16 DEF ImportJsonl
  <2>1. /\ UNCHANGED <<chain, before, pc, cmd, cur>> /\ pc = "idle"
        /\ lastHeight' = FinalHeight
    BY DEF Import, MayBootstrap, LockInv, Final, chainVars, runVars
  <2>2. lastHeight = None /\ DOMAIN history = {}
    BY DEF Import, MayBootstrap, Lockstep, NightlyOnly, WindowInv, NightlyInv
  <2>3. \A h \in DOMAIN history' : h \in 1 .. FinalHeight /\ history'[h] = chain[h].hash
    BY <2>2 DEF Import, LockInv, Final
  <2> QED BY <1>1, <1>files, <2>1, <2>3, IndexerAssumption DEF LockInv
<1>17. CASE RollbackReorg
  <2>1. lastHeight' = cur - 1 /\ cur > FinalHeight /\ EndCommand
    BY <1>17, RolledBackHeight, RolledBackRows DEF RollbackReorg
  <2>2. \A h \in DOMAIN history' : h \in DOMAIN history /\ h < cur /\ history'[h] = history[h]
    BY <1>1, <1>17 DEF RollbackReorg, RolledBack, Restricted
  <2>3. \A h \in DOMAIN before : h < cur => h \in DOMAIN before'
    BY <1>1, <1>17 DEF RollbackReorg, RolledBack, Restricted, TypeInv, TypeOK
  <2>4. DOMAIN before' \subseteq DOMAIN before
    BY <1>17 DEF RollbackReorg, RolledBack, Restricted
  <2>5. \A h \in DOMAIN history' : h <= FinalHeight => history'[h] = chain'[h].hash
    <3>1. \A h \in DOMAIN history : h <= FinalHeight => h \in 1 .. FinalHeight
      BY <1>1
    <3> QED BY <1>2, <2>2, <3>1 DEF LockInv
  <2>6. IF lastHeight' = None THEN rows' = NoRows ELSE lastHeight' >= FinalHeight
    BY <1>1, <2>1, IndexerAssumption
  <2> QED BY <1>files, <2>1, <2>2, <2>3, <2>4, <2>5, <2>6 DEF LockInv, EndCommand
<1>18. CASE CommitBlock
  <2>1. cmd = "catch-up" /\ pc = "read" /\ lastHeight # None /\ cur = lastHeight + 1 /\ Tip = cur
    BY <1>18 DEF CommitBlock, WindowInv, NightlyInv, TypeInv, CommandOK, LockInv
  <2>2. cur > FinalHeight /\ target \in Nat
    BY <1>1, <2>1 DEF LockInv, TypeInv, TypeOK
  <2>3. /\ lastHeight' = cur /\ cmd' = cmd /\ chain' = chain
        /\ pc' = IF cur = target THEN "finish" ELSE "fetch"
        /\ cur' = IF cur = target THEN cur ELSE cur + 1
    BY <1>18, <2>1 DEF CommitBlock, chainVars
  <2>4. \A h \in DOMAIN history' : /\ h \in (DOMAIN history) \cup {cur} /\ h + KeepBlocks >= cur
                                   /\ h # cur => history'[h] = history[h]
    BY <1>18 DEF CommitBlock, Pruned, Restricted
  <2>5. DOMAIN before' = {h \in (DOMAIN before) \cup {cur} : h + KeepBlocks >= cur}
    BY <1>18 DEF CommitBlock, Pruned, Restricted
  <2>6. \A h \in DOMAIN history' : h <= FinalHeight => history'[h] = chain'[h].hash
    BY <1>1, <2>2, <2>3, <2>4 DEF LockInv
  <2>7. cur = target
    BY <2>1 DEF LockInv
  <2> QED BY <1>1, <1>files, <2>1, <2>2, <2>3, <2>4, <2>5, <2>6, <2>7, IndexerAssumption DEF LockInv
<1> QED BY <1>5, <1>6, <1>7, <1>8, <1>9, <1>10, <1>11, <1>12, <1>13, <1>14, <1>15, <1>16, <1>17,
           <1>18 DEF Next, Command

\* LockInv holds when the index keeps up with a quiet chain.
LEMMA LockInvariant == Lockstep => (Spec => [](TypeInv /\ WindowInv /\ UndoInv /\ LockInv))
<1> SUFFICES ASSUME Lockstep PROVE Spec => [](TypeInv /\ WindowInv /\ UndoInv /\ LockInv)
  OBVIOUS
<1>1. Init => LockInv
  BY DEF Init, ChainInit, LockInv, Empty
<1>2. TypeInv /\ WindowInv /\ UndoInv /\ LockInv /\ [Next]_vars => LockInv'
  BY LockSteps
<1>3. NightlyOnly
  BY DEF Lockstep
<1> QED BY <1>1, <1>2, <1>3, UndoInvariant, PTL DEF Spec

-----------------------------------------------------------------------------
(* What the commands read *)

\* getnames fills in the info of every opened name; the others keep their rows.
LEMMA NamesRead ==
  ASSUME TypeInv, BootstrapNames, NEW n \in Names
  PROVE  /\ Half(n)' <=> TipView[n] # Unregistered
         /\ TipView[n] # Unregistered => Info(work'[n]) = TipView[n]
         /\ TipView[n] = Unregistered => work'[n] = rows[n]
<1>1. cmd' = "boot" /\ (n \in todo' <=> TipView[n] # Unregistered)
  BY DEF BootstrapNames, TypeInv, CommandOK
<1>2. work'[n] = IF TipView[n] # Unregistered THEN [info |-> TipView[n], resource |-> None]
                 ELSE rows[n]
  BY DEF BootstrapNames
<1>3. [info |-> TipView[n], resource |-> None] \in Row
  BY TipFacts DEF Row, TypeInv, TypeOK
<1> QED BY <1>1, <1>2, <1>3, RowIsNotNone DEF Half, Info

\* getnameinfo replaces the row of the name by the tip's info, its resource missing.
LEMMA InfoRead ==
  ASSUME TypeInv, NEW n \in Names, ReadInfo(n)
  PROVE  /\ Info(work'[n]) = TipView[n]
         /\ \A m \in Names : Half(m)' <=> m = n \/ Half(m)
         /\ \A m \in Names : m # n => work'[m] = work[m]
<1>1. work'[n] = [info |-> TipView[n], resource |-> None] /\ TipView[n] \in Version
      /\ \A m \in Names : m # n => work'[m] = work[m]
  BY TipFacts DEF ReadInfo, TypeInv, TypeOK, Rows
<1>2. \A m \in Names : Half(m)' <=> m = n \/ Half(m)
  BY DEF ReadInfo, runVars, Half
<1> QED BY <1>1, <1>2, RowIsNotNone DEF Row, Info

\* getnameresource completes the row with the tip's resource.
LEMMA ResourceRead ==
  ASSUME TypeInv, NEW n \in Names, ReadResource(n)
  PROVE  /\ Half(n) /\ Info(work'[n]) = Info(work[n]) /\ Resource(work'[n]) = TipView[n]
         /\ \A m \in Names : Half(m)' <=> m # n /\ Half(m)
         /\ \A m \in Names : m # n => work'[m] = work[m]
<1>1. work[n] \in Row /\ Half(n) /\ TipView[n] \in Version
  BY TipFacts DEF ReadResource, Half, TypeInv, TypeOK, HalfRead, Rows
<1>2. work'[n] = [work[n] EXCEPT !.resource = TipView[n]]
      /\ \A m \in Names : m # n => work'[m] = work[m]
  BY DEF ReadResource, TypeInv, TypeOK, Rows
<1>3. \A m \in Names : Half(m)' <=> m # n /\ Half(m)
  BY DEF ReadResource, runVars, Half
<1> QED BY <1>1, <1>2, <1>3, RowIsNotNone DEF Row, Info, Resource

\* An import fills the empty index with the state of every name at the last final block.
LEMMA Imported ==
  ASSUME Lockstep, TypeInv, LockInv, ImportJsonl
  PROVE  /\ lastHeight = None /\ lastHeight' = FinalHeight
         /\ \A n \in Names : /\ Info(rows'[n]) = chain[FinalHeight].view[n]
                             /\ Resource(rows'[n]) = chain[FinalHeight].view[n]
<1> PICK file \in exports : Import(file)
  BY DEF ImportJsonl
<1>1. Len(file) = FinalHeight /\ file[FinalHeight] = chain[FinalHeight]
  BY ChainAssumption DEF LockInv, Final
<1>2. lastHeight = None /\ lastHeight' = FinalHeight
  BY <1>1 DEF Import, MayBootstrap, Lockstep, NightlyOnly
<1>3. ASSUME NEW n \in Names
      PROVE  /\ Info(rows'[n]) = chain[FinalHeight].view[n]
             /\ Resource(rows'[n]) = chain[FinalHeight].view[n]
  <2>1. Info(rows[n]) = Unregistered /\ Resource(rows[n]) = Unregistered
    BY <1>2 DEF LockInv, NoRows, Info, Resource
  <2> QED BY <1>1, <2>1, ImportedRows
<1> QED BY <1>2, <1>3

-----------------------------------------------------------------------------
(* What a rollback leaves *)

\* The row holds no state put on the chain above height h.
Upto(row, h) == HeightOf(Info(row)) <= h /\ HeightOf(Resource(row)) <= h

\* The rows are those of the last height indexed or of one below, the rows a
\* rollback restores those of heights below the replaced block.
HeightsInv ==
  /\ lastHeight # None => \A n \in Names : Upto(rows[n], lastHeight)
  /\ \A h \in DOMAIN before : \A n \in Names : Upto(before[h][n], h - 1)
  /\ pc = "read" =>
       \A n \in Names : HeightOf(Info(work[n])) <= cur /\ (Half(n) \/ Upto(work[n], cur))

\* The tip's state of a name is no higher than the tip; no row is as good as height 0.
LEMMA TipUpto ==
  ASSUME TypeInv, ChainInv
  PROVE  /\ \A n \in Names : HeightOf(TipView[n]) <= Tip
         /\ \A h \in Nat : Upto(None, h)
<1>1. Tip \in 1 .. Tip
  BY TipFacts DEF TypeInv, TypeOK
<1>2. Info(None) = Unregistered /\ Resource(None) = Unregistered /\ HeightOf(Unregistered) = 0
  BY DEF Info, Resource, Unregistered, HeightOf
<1> QED BY <1>1, <1>2 DEF ChainInv, BlockOK, TipView, Upto

\* A higher bound holds too.
LEMMA UptoHigher ==
  ASSUME NEW row \in Row \cup {None}, Whole(row), NEW h \in Nat, NEW k \in Nat, h <= k, Upto(row, h)
  PROVE  Upto(row, k)
<1>1. row = None \/ (row.info \in Version /\ row.resource \in Version)
  BY DEF Row, Whole
<1>2. \A v \in Version : HeightOf(v) \in Nat
  BY DEF Version, HeightOf
<1>3. Unregistered \in Version
  BY DEF Unregistered, Version
<1>4. Info(row) \in Version /\ Resource(row) \in Version
  BY <1>1, <1>3 DEF Info, Resource
<1> QED BY <1>2, <1>4 DEF Upto

\* HeightsInv, step by step.
LEMMA HeightsSteps ==
  ASSUME Lockstep, TypeInv, WindowInv, UndoInv, LockInv, ChainInv, WholeInv, HeightsInv, [Next]_vars
  PROVE  HeightsInv'
<1> USE DEF HeightsInv
<1>1. Tip \in Nat /\ cur \in Nat /\ (lastHeight # None => lastHeight \in Nat)
      /\ DOMAIN history \subseteq Nat \ {0}
  BY TipFacts DEF TypeInv, TypeOK
<1>2. ASSUME UNCHANGED <<rows, lastHeight, before>>, pc' # "read" PROVE HeightsInv'
  BY <1>2
<1>3. CASE ChainMoves \/ ExportJsonl \/ UNCHANGED vars
  <2>1. UNCHANGED <<rows, lastHeight, before, pc, cmd, cur, todo, work, snap>>
    BY <1>3 DEF ChainMoves, ExportJsonl, vars, dbVars, runVars, txnVars
  <2> QED BY <2>1 DEF Half
<1>4. CASE BootstrapTip \/ ReorgCheck \/ CatchUp \/ Scan \/ FromFile \/ CompareHash \/ CheckPassed
           \/ PlanCatchUp \/ FinishCatchUp \/ Interrupted
  BY <1>2, <1>4 DEF BootstrapTip, ReorgCheck, CatchUp, Scan, FromFile, StartCheck, CompareHash,
                    CheckPassed, PlanCatchUp, FinishCatchUp, Interrupted, EndCommand, dbVars
<1>5. CASE BootstrapNames
  <2>1. UNCHANGED <<rows, lastHeight, before, cur>> /\ Tip = cur /\ lastHeight = None
    BY <1>5 DEF BootstrapNames, dbVars, LockInv, WindowInv, NightlyInv, TypeInv, CommandOK
  <2>2. \A n \in Names : rows[n] = None
    BY <2>1 DEF LockInv, NoRows
  <2> QED BY <1>1, <1>5, <2>1, <2>2, NamesRead, TipUpto DEF Upto
<1>6. CASE FetchBlock
  <2>1. UNCHANGED <<rows, lastHeight, before>> /\ pc = "fetch"
    BY <1>6 DEF FetchBlock, dbVars
  <2>2. CASE ~EndCommand
    <3>1. work' = rows /\ snap' = Empty /\ UNCHANGED <<cmd, cur>>
      BY <1>6, <2>2 DEF FetchBlock
    <3>2. lastHeight # None /\ cur = lastHeight + 1 /\ cmd # "boot"
      BY <2>1 DEF WindowInv, NightlyInv, TypeInv, CommandOK
    <3>3. ASSUME NEW n \in Names PROVE Upto(rows[n], cur)
      <4>1. rows[n] \in Row \cup {None} /\ Whole(rows[n])
        BY DEF TypeInv, TypeOK, Rows, WholeInv
      <4> QED BY <1>1, <3>2, <4>1, UptoHigher
    <3> QED BY <2>1, <3>1, <3>3 DEF Upto
  <2> QED BY <1>2, <2>1, <2>2 DEF EndCommand
<1>7. CASE \E n \in Names : ReadInfo(n) \/ ReadResource(n)
  <2>1. PICK n \in Names : ReadInfo(n) \/ ReadResource(n)
    BY <1>7
  <2>2. UNCHANGED <<rows, lastHeight, before, pc, cmd, cur>> /\ pc = "read"
    BY <2>1 DEF ReadInfo, ReadResource, dbVars, runVars
  <2>3. HeightOf(TipView[n]) <= cur
    BY <2>2, TipUpto DEF LockInv, WindowInv, NightlyInv, TypeInv, CommandOK
  <2>4. CASE ReadInfo(n)
    BY <2>2, <2>3, <2>4, InfoRead
  <2>5. CASE ReadResource(n)
    BY <2>2, <2>3, <2>5, ResourceRead DEF Upto
  <2> QED BY <2>1, <2>4, <2>5
<1>8. CASE BootstrapCommit \/ CommitBlock
  <2>1. /\ pc = "read" /\ todo = {} /\ rows' = work /\ lastHeight' = cur /\ pc' # "read"
    BY <1>8 DEF BootstrapCommit, CommitBlock, EndCommand
  <2>2. \A n \in Names : Upto(work[n], cur)
    BY <2>1 DEF Half
  <2>3. ASSUME NEW h \in DOMAIN before', NEW n \in Names PROVE Upto(before'[h][n], h - 1)
    <3>1. CASE h \in DOMAIN before /\ before'[h] = before[h]
      BY <3>1
    <3>2. CASE h = cur /\ before'[h] = rows /\ CommitBlock
      <4>1. lastHeight # None /\ cur - 1 = lastHeight
        BY <1>1, <2>1, <3>2 DEF CommitBlock, WindowInv, NightlyInv, TypeInv, CommandOK
      <4> QED BY <3>2, <4>1
    <3>3. CASE BootstrapCommit
      BY <3>1, <3>3 DEF BootstrapCommit
    <3>4. CASE CommitBlock
      <4>1. h \in (DOMAIN before) \cup {cur} /\ before'[h] = IF h \in DOMAIN before THEN before[h] ELSE rows
        BY <3>4 DEF CommitBlock, Pruned, Restricted
      <4> QED BY <3>1, <3>2, <3>4, <4>1
    <3> QED BY <1>8, <3>3, <3>4
  <2> QED BY <2>1, <2>2, <2>3
<1>9. CASE ImportJsonl
  <2>1. UNCHANGED <<before, pc>> /\ pc = "idle"
    BY <1>9 DEF ImportJsonl, Import, MayBootstrap, runVars
  <2>2. \A n \in Names : HeightOf(chain[FinalHeight].view[n]) <= FinalHeight
    <3>1. FinalHeight \in 1 .. Tip
      BY <1>1, ChainAssumption DEF TypeInv, TypeOK, ChainTypeOK
    <3> QED BY <3>1 DEF ChainInv, BlockOK
  <2> QED BY <1>9, <2>1, <2>2, Imported DEF Upto
<1>10. CASE RollbackReorg
  <2>1. cur \in DOMAIN before /\ rows' = before[cur] /\ lastHeight' = cur - 1
    BY <1>10, RolledBackRows, RolledBackHeight
  <2>2. \A h \in DOMAIN before' : h \in DOMAIN before /\ before'[h] = before[h]
    BY <1>10 DEF RollbackReorg, RolledBack, Restricted
  <2>3. pc' # "read"
    BY <1>10 DEF RollbackReorg, EndCommand
  <2> QED BY <2>1, <2>2, <2>3
<1> QED BY <1>3, <1>4, <1>5, <1>6, <1>7, <1>8, <1>9, <1>10 DEF Next, Command

\* HeightsInv holds when the index keeps up with a quiet chain.
LEMMA HeightsInvariant ==
  Lockstep => (Spec => [](TypeInv /\ WindowInv /\ UndoInv /\ LockInv /\ HeightsInv))
<1> SUFFICES ASSUME Lockstep
             PROVE  Spec => [](TypeInv /\ WindowInv /\ UndoInv /\ LockInv /\ HeightsInv)
  OBVIOUS
<1>1. Init => HeightsInv
  BY DEF Init, HeightsInv, Empty
<1>2. TypeInv /\ WindowInv /\ UndoInv /\ LockInv /\ ChainInv /\ WholeInv /\ HeightsInv /\ [Next]_vars
        => HeightsInv'
  BY HeightsSteps
<1> QED BY <1>1, <1>2, LockInvariant, ChainInvariant, RowsAreWhole, PTL DEF Spec

\* After a rollback no row holds a state that the replaced block, or one above
\* it, put on the chain: what reorg-check reports is true whenever the index
\* keeps up with a quiet chain, for every chain, window and interruption.
THEOREM RollbackForgetsReplaced == Lockstep => (Spec => RolledBackToBefore)
<1> SUFFICES ASSUME Lockstep PROVE Spec => RolledBackToBefore
  OBVIOUS
<1>1. TypeInv /\ WindowInv /\ UndoInv /\ LockInv /\ HeightsInv /\ WholeInv' /\ TypeInv' /\ [Next]_vars =>
       [pc = "rollback" /\ cur \notin DOMAIN history' =>
          \A n \in Names : /\ HeightOf(Info(rows'[n])) < cur
                            /\ HeightOf(Resource(rows'[n])) < cur]_vars
  <2> SUFFICES ASSUME TypeInv, WindowInv, UndoInv, LockInv, HeightsInv, WholeInv', TypeInv',
                      [Next]_vars, pc = "rollback", cur \notin DOMAIN history', NEW n \in Names
               PROVE  HeightOf(Info(rows'[n])) < cur /\ HeightOf(Resource(rows'[n])) < cur
    OBVIOUS
  <2>1. cur \in DOMAIN history /\ cur \in Nat
    BY DEF WindowInv, NightlyInv, TypeInv, TypeOK
  <2>2. RollbackReorg
    BY <2>1 DEF Next, Command, vars, dbVars, ChainMoves, ExportJsonl, Lockstep, BootstrapTip,
              MayBootstrap, BootstrapNames, BootstrapCommit, ImportJsonl, Import, ReorgCheck, CatchUp, Scan, FromFile,
              StartCheck, CompareHash, CheckPassed, PlanCatchUp, FetchBlock, ReadInfo,
              ReadResource, CommitBlock, FinishCatchUp, Interrupted
  <2>3. Upto(rows'[n], cur - 1)
    BY <2>2, RolledBackRows DEF HeightsInv
  <2>4. HeightOf(Info(rows'[n])) \in Nat /\ HeightOf(Resource(rows'[n])) \in Nat
    <3>1. \A v \in Version : HeightOf(v) \in Nat
      BY DEF Version, HeightOf
    <3>2. rows'[n] = None \/ (rows'[n].info \in Version /\ rows'[n].resource \in Version)
      BY DEF TypeInv, TypeOK, Rows, Row, WholeInv, Whole
    <3>3. Unregistered \in Version
      BY DEF Unregistered, Version
    <3> QED BY <3>1, <3>2, <3>3 DEF Info, Resource
  <2> QED BY <2>1, <2>3, <2>4 DEF Upto
<1> QED BY <1>1, HeightsInvariant, RowsAreWhole, PTL DEF Spec, RolledBackToBefore

-----------------------------------------------------------------------------
(* A caught-up index is the chain's state *)

\* No reorganisation reaches below the kept window.
WindowCovers == FinalHeight + KeepBlocks >= MaxHeight

\* The block at height h is the one that was indexed, or a final one.
Known(h) ==
  /\ h \in 1 .. Tip
  /\ h <= FinalHeight \/ (h \in DOMAIN history /\ chain[h].hash = history[h])

\* The rows hold the state of every name as of the block at height h.
Exact(r, h) ==
  \A n \in Names : Info(r[n]) = chain[h].view[n] /\ Resource(r[n]) = chain[h].view[n]

\* What is stored: the hashes are of blocks mined already, each block above the
\* final ones has its hash, and the rows, those a rollback restores included, are
\* exact as of a block that is still there.
StoredInv ==
  /\ \A h \in DOMAIN history : history[h][2] <= mined
  /\ lastHeight # None =>
       /\ FinalHeight + 1 .. lastHeight \subseteq DOMAIN history
       /\ Known(lastHeight) => Exact(rows, lastHeight)
  /\ \A h \in DOMAIN before : Known(h - 1) => Exact(before[h], h - 1)

\* What the running command holds: the hashes compared so far match, and what the
\* transaction has read, or had no need to read, is the state at the tip.
RunInv ==
  /\ pc = "check" => \A h \in (DOMAIN history) \ pending : h <= Tip /\ chain[h].hash = history[h]
  /\ cmd = "catch-up" /\ pc \in {"plan", "fetch", "read"} => HistoryMatches
  /\ cmd = "catch-up" /\ pc = "read" => hash = chain[cur].hash
  /\ pc = "read" => \A n \in Names :
       /\ Half(n) => Info(work[n]) = TipView[n]
       /\ n \notin todo => Info(work[n]) = TipView[n] /\ Resource(work[n]) = TipView[n]

\* A state without a row is that of an unregistered name.
LEMMA NoRowIsExact ==
  ASSUME NEW row, row = None
  PROVE  Info(row) = Unregistered /\ Resource(row) = Unregistered
BY DEF Info, Resource

\* As the chain moves, indexed blocks may go, and never come back.
LEMMA KnownMoves ==
  ASSUME TypeInv, StoredInv, ChainMoves, NEW h, Known(h)'
  PROVE  Known(h) /\ chain'[h] = chain[h]
<1>1. Tip \in Nat /\ mined \in Nat /\ Tip >= FinalHeight /\ FinalHeight \in Nat
      /\ \A k \in DOMAIN history : history[k] \in Version
  BY TipFacts, ChainAssumption DEF TypeInv, TypeOK, ChainTypeOK
<1>2. history' = history
  BY DEF ChainMoves, dbVars
<1>3. CASE \E S \in SUBSET Names : Connect(S)
  <2>1. PICK S \in SUBSET Names : Connect(S)
    BY <1>3
  <2>2. /\ Tip' = Tip + 1 /\ chain'[Tip + 1].hash = <<Tip + 1, mined + 1>>
        /\ \A k \in 1 .. Tip : chain'[k] = chain[k]
    BY <2>1, ConnectFacts DEF TypeInv, TypeOK
  <2>3. h # Tip + 1
    <3> SUFFICES ASSUME h = Tip + 1 PROVE FALSE
      OBVIOUS
    <3>1. h \in DOMAIN history /\ chain'[h].hash = history[h]
      BY <1>1, <1>2 DEF Known
    <3>2. history[h][2] = mined + 1 /\ history[h][2] <= mined
      BY <2>2, <3>1 DEF StoredInv
    <3> QED BY <1>1, <3>2
  <2> QED BY <1>1, <1>2, <2>2, <2>3 DEF Known
<1>4. CASE Disconnect
  <2>1. /\ Tip' = Tip - 1 /\ Tip' \in Nat
        /\ \A k \in 1 .. Tip' : chain'[k] = chain[k]
    BY <1>4, DisconnectFacts DEF TypeInv, TypeOK
  <2> QED BY <1>1, <1>2, <2>1 DEF Known
<1> QED BY <1>3, <1>4 DEF ChainMoves

\* A step that changes nothing stored keeps what is stored exact.
LEMMA StoredKept ==
  ASSUME TypeInv, StoredInv, [Next]_vars, UNCHANGED <<rows, lastHeight, history, before>>
  PROVE  StoredInv'
<1>1. CASE ChainMoves
  <2>1. mined' >= mined /\ mined \in Nat /\ mined' \in Nat
    BY <1>1, ConnectFacts, DisconnectFacts DEF ChainMoves, TypeInv, TypeOK, ChainTypeOK
  <2>2. \A h \in DOMAIN history : history[h][2] \in Nat
    BY DEF TypeInv, TypeOK, Version
  <2>3. ASSUME NEW h \in DOMAIN history PROVE history[h][2] <= mined'
    BY <2>1, <2>2 DEF StoredInv
  <2>4. \A h : Known(h)' => Known(h) /\ chain'[h] = chain[h]
    BY <1>1, KnownMoves
  <2> QED BY <2>3, <2>4 DEF StoredInv, Exact
<1>2. CASE ~ChainMoves
  BY <1>2, ChainStays DEF StoredInv, Known, Exact, Tip
<1> QED BY <1>1, <1>2

\* What a commit or a rollback stores is exact.
LEMMA StoredCommits ==
  ASSUME Lockstep, WindowCovers, TypeInv, WindowInv, UndoInv, LockInv, ChainInv, StoredInv, RunInv,
         BootstrapCommit \/ ImportJsonl \/ CommitBlock \/ RollbackReorg
  PROVE  StoredInv'
<1>1. /\ Tip \in 1 .. Tip /\ Tip \in Nat /\ cur \in Nat /\ FinalHeight \in Nat \ {0}
      /\ Tip >= FinalHeight /\ KeepBlocks \in Nat /\ MaxHeight \in Nat
      /\ (lastHeight # None => lastHeight \in Nat)
      /\ DOMAIN history \subseteq Nat \ {0} /\ DOMAIN before \subseteq Nat \ {0}
  BY TipFacts, ChainAssumption, IndexerAssumption DEF TypeInv, TypeOK, ChainTypeOK
<1>2. UNCHANGED <<chain, mined>>
  BY DEF BootstrapCommit, ImportJsonl, Import, CommitBlock, RollbackReorg, chainVars
<1>3. \A h \in 1 .. Tip : chain[h].hash[2] <= mined
  BY DEF ChainInv, BlockOK
<1>4. CASE BootstrapCommit
  <2>1. /\ pc = "read" /\ cmd = "boot" /\ todo = {} /\ rows' = work /\ lastHeight' = cur
        /\ UNCHANGED <<history, before>>
    BY <1>4 DEF BootstrapCommit
  <2>2. cur = FinalHeight /\ cur = Tip
    BY <2>1 DEF LockInv
  <2>3. Exact(work, Tip)
    BY <2>1 DEF RunInv, Exact, TipView
  <2> QED BY <1>1, <1>2, <2>1, <2>2, <2>3 DEF StoredInv, Exact, Known, Tip
<1>5. CASE ImportJsonl
  <2> PICK file \in exports : Import(file)
    BY <1>5 DEF ImportJsonl
  <2>1. before' = before /\ lastHeight = None /\ lastHeight' = FinalHeight
    BY <1>5, Imported DEF Import
  <2>2. DOMAIN history = {} /\ DOMAIN before' = {}
    BY <2>1 DEF WindowInv, NightlyInv, UndoInv
  <2>3. \A h \in DOMAIN history' : h \in 1 .. Tip /\ history'[h] = chain[h].hash
    BY <1>1, <2>2 DEF Import, LockInv, Final
  <2>4. Exact(rows', FinalHeight)
    BY <1>5, Imported DEF Exact
  <2>5. FinalHeight + 1 .. lastHeight' = {}
    BY <1>1, <2>1
  <2> QED BY <1>2, <1>3, <2>1, <2>2, <2>3, <2>4, <2>5 DEF StoredInv, Exact
<1>6. CASE CommitBlock
  <2>1. /\ pc = "read" /\ cmd = "catch-up" /\ todo = {} /\ rows' = work /\ lastHeight' = cur
        /\ lastHeight # None /\ cur = lastHeight + 1 /\ Tip = cur
    BY <1>6 DEF CommitBlock, WindowInv, NightlyInv, TypeInv, CommandOK, LockInv
  <2>2. cur > FinalHeight /\ cur <= MaxHeight
    BY <1>1, <2>1 DEF LockInv, ChainInv
  <2>3. \A h \in DOMAIN history' : /\ h = cur \/ h \in DOMAIN history
                                   /\ history'[h] = IF h = cur THEN hash ELSE history[h]
    BY <1>6 DEF CommitBlock, Pruned, Restricted
  <2>4. DOMAIN history' = {h \in (DOMAIN history) \cup {cur} : h + KeepBlocks >= cur}
    BY <1>6 DEF CommitBlock, Pruned, Restricted
  <2>5. hash = chain[cur].hash
    BY <2>1 DEF RunInv
  <2>6. \A h \in DOMAIN history' : history'[h][2] <= mined
    BY <1>1, <1>3, <2>1, <2>3, <2>5 DEF StoredInv
  <2>7. ASSUME NEW h \in FinalHeight + 1 .. cur PROVE h \in DOMAIN history'
    <3>1. h \in Nat /\ h + KeepBlocks >= cur
      BY <1>1, <2>2 DEF WindowCovers
    <3>2. h = cur \/ h \in FinalHeight + 1 .. lastHeight
      BY <1>1, <2>1
    <3> QED BY <2>1, <2>4, <3>1, <3>2 DEF StoredInv
  <2>8. Exact(work, Tip)
    BY <2>1 DEF RunInv, Exact, TipView
  <2>9. ASSUME NEW h \in DOMAIN before', Known(h - 1)' PROVE Exact(before'[h], h - 1)
    <3>1. h \in (DOMAIN before) \cup {cur}
          /\ before'[h] = IF h \in DOMAIN before THEN before[h] ELSE rows
      BY <1>6 DEF CommitBlock, Pruned, Restricted
    <3>2. h - 1 # cur
      <4>1. h \in DOMAIN history \/ h = cur
        BY <3>1 DEF UndoInv
      <4>2. h <= cur /\ h \in Nat
        <5>1. \A k \in DOMAIN history : k <= lastHeight
          BY DEF WindowInv, HistoryIsContiguous
        <5> QED BY <1>1, <2>1, <4>1, <5>1
      <4> QED BY <1>1, <4>2
    <3>3. Known(h - 1)
      BY <1>2, <2>3, <2>9, <3>2 DEF Known, Tip
    <3>4. CASE h \in DOMAIN before
      BY <3>1, <3>3, <3>4 DEF StoredInv
    <3>5. CASE h \notin DOMAIN before
      <4>1. h = cur /\ h - 1 = lastHeight
        BY <1>1, <2>1, <3>1, <3>5
      <4> QED BY <2>1, <3>1, <3>3, <3>5, <4>1 DEF StoredInv
    <3> QED BY <3>4, <3>5
  <2> QED BY <1>2, <2>1, <2>6, <2>7, <2>8, <2>9 DEF StoredInv, Exact
<1>7. CASE RollbackReorg
  <2>1. cur \in DOMAIN before /\ rows' = before[cur] /\ cur > FinalHeight /\ lastHeight' = cur - 1
    BY <1>7, RolledBackRows, RolledBackHeight
  <2>2. DOMAIN history' = {h \in DOMAIN history : h < cur}
        /\ \A h \in DOMAIN history' : history'[h] = history[h]
    BY <1>1, <1>7 DEF RollbackReorg, RolledBack, Restricted
  <2>3. \A h \in DOMAIN before' : h \in DOMAIN before /\ before'[h] = before[h]
    BY <1>7 DEF RollbackReorg, RolledBack, Restricted
  <2>4. \A h : Known(h)' => Known(h)
    BY <1>2, <2>2 DEF Known, Tip
  <2>5. FinalHeight + 1 .. cur - 1 \subseteq DOMAIN history'
    <3>1. cur \in DOMAIN history /\ lastHeight # None /\ cur <= lastHeight
      BY <1>7 DEF RollbackReorg, WindowInv, NightlyInv, HistoryIsContiguous
    <3>2. FinalHeight + 1 .. cur - 1 \subseteq FinalHeight + 1 .. lastHeight
      BY <1>1, <3>1
    <3>3. \A h \in FinalHeight + 1 .. cur - 1 : h < cur
      BY <1>1
    <3> QED BY <2>2, <3>1, <3>2, <3>3 DEF StoredInv
  <2> QED BY <1>2, <2>1, <2>2, <2>3, <2>4, <2>5 DEF StoredInv, Exact
<1> QED BY <1>4, <1>5, <1>6, <1>7

\* When every recorded hash matches, the rows are exact as of the last height.
LEMMA MatchingRowsAreExact ==
  ASSUME TypeInv, LockInv, StoredInv, HistoryMatches, lastHeight # None, lastHeight <= Tip
  PROVE  Exact(rows, lastHeight)
<1>1. Tip \in Nat /\ lastHeight \in Nat /\ lastHeight >= FinalHeight /\ FinalHeight \in Nat \ {0}
  BY TipFacts, ChainAssumption DEF TypeInv, TypeOK, LockInv
<1>2. lastHeight <= FinalHeight \/ lastHeight \in DOMAIN history
  BY <1>1 DEF StoredInv
<1> QED BY <1>1, <1>2 DEF Known, StoredInv, HistoryMatches

\* RunInv, step by step.
LEMMA RunSteps ==
  ASSUME Lockstep, TypeInv, WindowInv, LockInv, ChainInv, StoredInv, RunInv, [Next]_vars
  PROVE  RunInv'
<1>1. /\ Tip \in Nat /\ cur \in Nat /\ (lastHeight # None => lastHeight \in Nat)
      /\ FinalHeight \in Nat \ {0} /\ Tip >= FinalHeight
  BY TipFacts, ChainAssumption DEF TypeInv, TypeOK, ChainTypeOK
<1>2. ASSUME pc' \in {"idle", "finish", "rollback", "names"} PROVE RunInv'
  BY <1>2 DEF RunInv
<1>3. CASE ChainMoves
  <2>1. pc' = "idle"
    BY <1>3 DEF ChainMoves, Lockstep, runVars
  <2> QED BY <1>2, <2>1
<1>4. CASE ExportJsonl \/ UNCHANGED vars
  BY <1>4 DEF ExportJsonl, Export, vars, chainVars, dbVars, runVars, txnVars, RunInv, HistoryMatches, Half, TipView, Tip
<1>5. CASE BootstrapTip \/ BootstrapCommit \/ ImportJsonl \/ RollbackReorg \/ FinishCatchUp
           \/ Interrupted
  BY <1>2, <1>5 DEF BootstrapTip, BootstrapCommit, ImportJsonl, Import, MayBootstrap,
                    RollbackReorg, FinishCatchUp, Interrupted, EndCommand, runVars
<1>6. CASE BootstrapNames
  <2>1. pc' = "read" /\ cmd' = "boot" /\ chain' = chain
    BY <1>6 DEF BootstrapNames, chainVars, TypeInv, CommandOK
  <2>2. \A n \in Names : rows[n] = None
    BY <1>6 DEF BootstrapNames, WindowInv, NightlyInv, LockInv, NoRows, TypeInv, CommandOK
  <2>3. \A n \in Names : n \in todo' <=> TipView[n] # Unregistered
    BY <1>6 DEF BootstrapNames
  <2> QED BY <1>6, <2>1, <2>2, <2>3, NamesRead, NoRowIsExact DEF RunInv, TipView, Tip
<1>7. CASE ReorgCheck \/ CatchUp \/ Scan \/ FromFile
  <2>1. pc' = "check" /\ pending' = DOMAIN history /\ history' = history
    BY <1>7 DEF ReorgCheck, CatchUp, Scan, FromFile, StartCheck, dbVars
  <2> QED BY <2>1 DEF RunInv
<1>8. CASE CompareHash
  <2>1. pc = "check" /\ UNCHANGED <<chain, history>>
    BY <1>8 DEF CompareHash, chainVars, dbVars
  <2>2. PICK h \in pending :
          \/ /\ h <= Tip /\ chain[h].hash = history[h] /\ pending' = pending \ {h} /\ pc' = pc
          \/ pc' = "rollback"
          \/ EndCommand
    BY <1>8 DEF CompareHash
  <2> QED BY <1>2, <2>1, <2>2 DEF RunInv, Tip, EndCommand
<1>9. CASE CheckPassed
  <2>1. /\ pc = "check" /\ pending = {} /\ UNCHANGED <<chain, history>>
        /\ pc' \in {"idle", "plan"} \/ (pc' = "fetch" /\ cmd' # "catch-up")
    BY <1>9 DEF CheckPassed, EndCommand, chainVars, dbVars
  <2> QED BY <2>1 DEF RunInv, HistoryMatches, Tip
<1>10. CASE PlanCatchUp
  <2>1. UNCHANGED <<chain, history>> /\ pc = "plan" /\ cmd = "catch-up" /\ pc' \in {"idle", "fetch"}
    BY <1>10 DEF PlanCatchUp, EndCommand, chainVars, dbVars, TypeInv, CommandOK
  <2> QED BY <2>1 DEF RunInv, HistoryMatches, Tip
<1>11. CASE FetchBlock
  <2>1. /\ UNCHANGED <<chain, rows, history>> /\ pc = "fetch" /\ cmd = "catch-up" /\ Tip = cur
        /\ lastHeight # None /\ cur = lastHeight + 1
    BY <1>11 DEF FetchBlock, chainVars, dbVars, WindowInv, NightlyInv, LockInv, TypeInv, CommandOK
  <2>2. CASE ~EndCommand
    <3>1. /\ todo' = chain[cur].changed /\ hash' = chain[cur].hash /\ work' = rows /\ snap' = Empty
          /\ UNCHANGED <<cmd, cur>>
      BY <1>11, <2>1, <2>2 DEF FetchBlock, FetchedNames
    <3>2. Exact(rows, lastHeight)
      BY <1>1, <2>1, MatchingRowsAreExact DEF RunInv
    <3>3. cur > 1 /\ cur \in 1 .. Tip /\ cur - 1 = lastHeight
      BY <1>1, <2>1 DEF LockInv
    <3>4. ASSUME NEW n \in Names, n \notin todo'
          PROVE  Info(rows[n]) = TipView[n] /\ Resource(rows[n]) = TipView[n]
      <4>1. chain[cur].view[n] = chain[cur - 1].view[n]
        BY <3>1, <3>3, <3>4 DEF ChainInv, BlockOK
      <4> QED BY <2>1, <3>2, <3>3, <4>1 DEF Exact, TipView
    <3>5. \A n \in Names : ~Half(n)'
      BY <2>1, <3>1 DEF Half, Empty
    <3>6. TipView' = TipView /\ HistoryMatches'
      BY <2>1 DEF RunInv, HistoryMatches, TipView, Tip
    <3>7. pc' = "read"
      BY <1>11, <2>2 DEF FetchBlock
    <3> QED BY <2>1, <3>1, <3>4, <3>5, <3>6, <3>7 DEF RunInv
  <2> QED BY <1>2, <2>2 DEF EndCommand
<1>12. CASE \E n \in Names : ReadInfo(n) \/ ReadResource(n)
  <2>1. PICK n \in Names : ReadInfo(n) \/ ReadResource(n)
    BY <1>12
  <2>2. UNCHANGED <<chain, history, pc, cmd, cur, hash>> /\ pc = "read"
    BY <2>1 DEF ReadInfo, ReadResource, chainVars, dbVars, runVars
  <2>3. TipView' = TipView /\ (HistoryMatches => HistoryMatches')
    BY <2>2 DEF HistoryMatches, TipView, Tip
  <2>4. CASE ReadInfo(n)
    <3>1. n \in todo /\ todo' = todo
      BY <2>4 DEF ReadInfo
    <3> QED BY <2>2, <2>3, <2>4, <3>1, InfoRead DEF RunInv
  <2>5. CASE ReadResource(n)
    <3>1. todo' = todo \ {n}
      BY <2>5 DEF ReadResource
    <3> QED BY <2>2, <2>3, <2>5, <3>1, ResourceRead DEF RunInv
  <2> QED BY <2>1, <2>4, <2>5
<1>13. CASE CommitBlock
  <2>1. pc = "read" /\ cmd = "catch-up"
    BY <1>13 DEF CommitBlock, WindowInv, NightlyInv, TypeInv, CommandOK
  <2>2. pc' = "finish"
    BY <1>13, <2>1 DEF CommitBlock, LockInv
  <2> QED BY <1>2, <2>2
<1> QED BY <1>3, <1>4, <1>5, <1>6, <1>7, <1>8, <1>9, <1>10, <1>11, <1>12, <1>13 DEF Next, Command

\* StoredInv and RunInv hold when the index keeps up with a quiet chain whose
\* reorganisations stay within the window.
LEMMA ExactInvariant ==
  Lockstep /\ WindowCovers => (Spec => [](TypeInv /\ LockInv /\ StoredInv /\ RunInv))
<1> SUFFICES ASSUME Lockstep, WindowCovers
             PROVE  Spec => [](TypeInv /\ LockInv /\ StoredInv /\ RunInv)
  OBVIOUS
<1>1. Init => StoredInv /\ RunInv
  BY DEF Init, StoredInv, RunInv, Empty
<1>2. TypeInv /\ WindowInv /\ UndoInv /\ LockInv /\ ChainInv /\ StoredInv /\ RunInv /\ [Next]_vars
        => StoredInv' /\ RunInv'
  <2> SUFFICES ASSUME TypeInv, WindowInv, UndoInv, LockInv, ChainInv, StoredInv, RunInv, [Next]_vars
               PROVE  StoredInv' /\ RunInv'
    OBVIOUS
  <2>1. \/ BootstrapCommit \/ ImportJsonl \/ CommitBlock \/ RollbackReorg
        \/ UNCHANGED <<rows, lastHeight, history, before>>
    BY DEF Next, Command, vars, dbVars, ChainMoves, ExportJsonl, BootstrapTip, BootstrapNames,
           ReorgCheck, CatchUp, Scan, FromFile, StartCheck, CompareHash, CheckPassed, PlanCatchUp, FetchBlock,
           ReadInfo, ReadResource, FinishCatchUp, Interrupted
  <2> QED BY <2>1, StoredKept, StoredCommits, RunSteps
<1> QED BY <1>1, <1>2, LockInvariant, ChainInvariant, PTL DEF Spec

\* Once every recorded hash matches and the tip is indexed, the index is the
\* chain's current state, whatever was mined, disconnected, rolled back and
\* interrupted before: for every chain and window, provided the index keeps up
\* with a quiet chain and no reorganisation reaches below the window.
THEOREM CaughtUpRowsAreExact == Lockstep /\ WindowCovers => (Spec => []CaughtUpIsExact)
<1> SUFFICES ASSUME Lockstep, WindowCovers PROVE Spec => []CaughtUpIsExact
  OBVIOUS
<1>1. TypeInv /\ LockInv /\ StoredInv => CaughtUpIsExact
  <2> SUFFICES ASSUME TypeInv, LockInv, StoredInv, lastHeight = Tip, HistoryMatches, NEW n \in Names
               PROVE  Info(rows[n]) = TipView[n] /\ Resource(rows[n]) = TipView[n]
    BY DEF CaughtUpIsExact
  <2>1. Tip \in Nat /\ lastHeight # None
    BY TipFacts, IndexerAssumption DEF TypeInv, TypeOK
  <2>2. Exact(rows, Tip)
    BY <2>1, MatchingRowsAreExact
  <2> QED BY <2>2 DEF Exact, TipView
<1> QED BY <1>1, ExactInvariant, PTL

-----------------------------------------------------------------------------
(* The index is a replica of the chain *)

\* When a rollback starts, the mismatch is the lowest: the blocks recorded below it
\* are on the chain.
RewindInv ==
  pc = "rollback" =>
    /\ cur <= Tip
    /\ \A h \in DOMAIN history : h < cur => h <= Tip /\ chain[h].hash = history[h]

\* RewindInv holds while the chain stands still during a command.
LEMMA RewindInvariant == Lockstep /\ WindowCovers => (Spec => []RewindInv)
<1> SUFFICES ASSUME Lockstep, WindowCovers PROVE Spec => []RewindInv
  OBVIOUS
<1>1. Init => RewindInv
  BY DEF Init, RewindInv
<1>2. TypeInv /\ RunInv /\ RewindInv /\ [Next]_vars => RewindInv'
  <2> SUFFICES ASSUME TypeInv, RunInv, RewindInv, [Next]_vars, pc' = "rollback"
               PROVE  RewindInv'
    BY DEF RewindInv
  <2>1. CASE ExportJsonl \/ UNCHANGED vars
    BY <2>1 DEF RewindInv, ExportJsonl, Export, vars, chainVars, dbVars, runVars, Tip
  <2>2. CASE CompareHash
    <3>1. UNCHANGED <<chain, history>> /\ pc = "check"
      BY <2>2 DEF CompareHash, chainVars, dbVars
    <3>2. PICK h \in pending : IsMin(h, pending) /\ h <= Tip /\ cur' = h
      BY <2>2, <3>1 DEF CompareHash, EndCommand
    <3>3. \A k \in DOMAIN history : k < h => k \notin pending
      BY <3>2 DEF IsMin, TypeInv, TypeOK
    <3>4. \A k \in DOMAIN history : k \notin pending => k <= Tip /\ chain[k].hash = history[k]
      BY <3>1 DEF RunInv
    <3> QED BY <3>1, <3>2, <3>3, <3>4 DEF RewindInv, Tip
  <2>3. CASE Next /\ ~CompareHash /\ ~ExportJsonl
    <3>1. FALSE
      BY <2>3 DEF Next, Command, ChainMoves, BootstrapTip, BootstrapNames, BootstrapCommit,
                  ImportJsonl, Import, MayBootstrap, ReorgCheck, CatchUp, Scan, FromFile, StartCheck,
                  CheckPassed, RollbackReorg, PlanCatchUp, FetchBlock, ReadInfo, ReadResource,
                  CommitBlock, FinishCatchUp, Interrupted, EndCommand, runVars, Lockstep,
                  TypeInv, CommandOK
    <3> QED BY <3>1
  <2> QED BY <2>1, <2>2, <2>3
<1> QED BY <1>1, <1>2, ExactInvariant, PTL DEF Spec

\* Rows that are exact as of a block are the replica of that block.
LEMMA ExactIsReplica ==
  ASSUME NEW r, NEW v \in [Names -> Version],
         \A n \in Names : Info(r[n]) = v[n] /\ Resource(r[n]) = v[n]
  PROVE  [n \in Names |-> Info(r[n])] = v /\ [n \in Names |-> Resource(r[n])] = v
OBVIOUS

\* What a commit stores is the replica of its block, when that is on the chain.
LEMMA ReplicaMoved ==
  ASSUME TypeInv, StoredInv', UNCHANGED chain, NEW h \in 1 .. Tip, lastHeight' = h, Known(h)'
  PROVE  Replica!Moved(h)
<1>1. chain[h].view \in [Names -> Version]
  BY TipFacts DEF TypeInv, TypeOK, Block
<1>2. h # None
  BY IndexerAssumption, TipFacts DEF TypeInv, TypeOK
<1>3. \A n \in Names : Info(rows'[n]) = chain[h].view[n] /\ Resource(rows'[n]) = chain[h].view[n]
  BY <1>2 DEF StoredInv, Exact
<1> QED BY <1>1, <1>3, ExactIsReplica DEF Replica!Moved

\* A bootstrap, a block indexed or a rollback is a step of the replica.
LEMMA ReplicaCommits ==
  ASSUME Lockstep, TypeInv, WindowInv, LockInv, StoredInv, RunInv, RewindInv, StoredInv',
         BootstrapCommit \/ ImportJsonl \/ CommitBlock \/ RollbackReorg
  PROVE  Replica!Step /\ UNCHANGED chainVars
<1>1. /\ Tip \in Nat \ {0} /\ cur \in Nat /\ FinalHeight \in Nat \ {0} /\ Tip >= FinalHeight
      /\ (lastHeight # None => lastHeight \in Nat)
      /\ DOMAIN history \subseteq Nat \ {0}
  BY TipFacts, ChainAssumption DEF TypeInv, TypeOK, ChainTypeOK
<1>2. UNCHANGED chainVars /\ UNCHANGED chain /\ Tip' = Tip
  BY DEF BootstrapCommit, ImportJsonl, Import, CommitBlock, RollbackReorg, chainVars, Tip
<1>3. CASE BootstrapCommit \/ ImportJsonl
  <2>1. lastHeight = None /\ lastHeight' = FinalHeight
    <3>1. CASE BootstrapCommit
      BY <3>1 DEF BootstrapCommit, LockInv, WindowInv, NightlyInv
    <3>2. CASE ImportJsonl
      BY <3>2, Imported
    <3> QED BY <1>3, <3>1, <3>2
  <2>2. FinalHeight \in 1 .. Tip /\ Known(FinalHeight)'
    BY <1>1, <1>2 DEF Known
  <2>3. Replica!Moved(FinalHeight)
    BY <1>2, <2>1, <2>2, ReplicaMoved
  <2> QED BY <1>2, <2>1, <2>2, <2>3 DEF Replica!Step, Replica!Start, Replica!Tip, Tip
<1>4. CASE CommitBlock
  <2>1. /\ pc = "read" /\ cmd = "catch-up" /\ lastHeight' = cur
        /\ lastHeight # None /\ cur = lastHeight + 1 /\ Tip = cur
    BY <1>4 DEF CommitBlock, WindowInv, NightlyInv, TypeInv, CommandOK, LockInv
  <2>2. cur \in DOMAIN history' /\ history'[cur] = chain[cur].hash
    <3>1. cur + KeepBlocks >= cur
      BY <1>1, IndexerAssumption
    <3>2. hash = chain[cur].hash
      BY <2>1 DEF RunInv
    <3> QED BY <1>4, <3>1, <3>2 DEF CommitBlock, Pruned, Restricted
  <2>3. Replica!Moved(Tip)
    <3>1. Known(Tip)'
      BY <1>1, <1>2, <2>1, <2>2 DEF Known
    <3> QED BY <1>1, <1>2, <2>1, <3>1, ReplicaMoved
  <2>4. Replica!Shows(lastHeight)
    <3>1. Exact(rows, lastHeight)
      BY <1>1, <2>1, MatchingRowsAreExact DEF RunInv
    <3>2. chain[lastHeight].view \in [Names -> Version]
      BY <1>1, <2>1, TipFacts DEF TypeInv, TypeOK, Block, LockInv
    <3> QED BY <3>1, <3>2, ExactIsReplica DEF Exact, Replica!Shows
  <2> QED BY <1>2, <2>1, <2>3, <2>4 DEF Replica!Step, Replica!Follow, Replica!Tip, Tip
<1>5. CASE RollbackReorg
  <2>1. PICK h : h = cur - 1
    OBVIOUS
  <2>2. lastHeight' = h /\ pc = "rollback" /\ cur > FinalHeight
    BY <1>5, <2>1, RolledBackHeight DEF RollbackReorg, LockInv
  <2>3. cur \in DOMAIN history /\ lastHeight # None /\ cur <= lastHeight /\ cur <= Tip
    BY <2>2 DEF WindowInv, NightlyInv, HistoryIsContiguous, RewindInv
  <2>4. h \in 1 .. Tip /\ h < cur /\ h < lastHeight
    BY <1>1, <2>1, <2>2, <2>3
  <2>5. Known(h)'
    <3>1. CASE h <= FinalHeight
      BY <1>2, <2>4, <3>1 DEF Known
    <3>2. CASE h > FinalHeight
      <4>1. h \in FinalHeight + 1 .. lastHeight
        BY <1>1, <2>3, <2>4, <3>2
      <4>2. h \in DOMAIN history
        BY <2>3, <4>1 DEF StoredInv
      <4>3. chain[h].hash = history[h]
        BY <2>2, <2>4, <4>2 DEF RewindInv
      <4>4. h \in 0 .. cur - 1
        BY <1>1, <2>1, <2>4
      <4>5. h \in DOMAIN history' /\ history'[h] = history[h]
        BY <1>5, <4>2, <4>4 DEF RollbackReorg, RolledBack, Restricted
      <4> QED BY <1>2, <2>4, <4>3, <4>5 DEF Known
    <3> QED BY <1>1, <2>4, <3>1, <3>2
  <2>6. Replica!Moved(h)
    BY <1>2, <2>2, <2>4, <2>5, ReplicaMoved
  <2>7. Replica!Rewind
    BY <2>4, <2>6 DEF Replica!Rewind, Replica!Tip, Tip
  <2> QED BY <1>2, <2>3, <2>7 DEF Replica!Step
<1> QED BY <1>3, <1>4, <1>5

\* The index implements the replica of ChainReplica, for every chain and window, when
\* it keeps up with a quiet chain and no reorganisation reaches below the window:
\* each commit steps it to the tip or back to a block of the chain, and no other
\* step of any command changes what it shows.
THEOREM IndexerRefines == Lockstep /\ WindowCovers => (Spec => IndexIsReplica)
<1> SUFFICES ASSUME Lockstep, WindowCovers PROVE Spec => IndexIsReplica
  OBVIOUS
<1> DEFINE infos == [n \in Names |-> Info(rows[n])]
           resources == [n \in Names |-> Resource(rows[n])]
<1>1. Init => Replica!ReplicaInit
  <2> SUFFICES ASSUME Init PROVE Replica!ReplicaInit
    OBVIOUS
  <2>1. Replica!ChainInit
    BY DEF Init, ChainInit, Genesis, Unregistered, Replica!ChainInit, Replica!Genesis,
           Replica!Unregistered
  <2>2. lastHeight = None /\ \A n \in Names : Info(rows[n]) = Unregistered /\ Resource(rows[n]) = Unregistered
    BY NoRowIsExact DEF Init, NoRows
  <2> QED BY <2>1, <2>2 DEF Replica!ReplicaInit, Replica!Unregistered, Unregistered
<1>2. TypeInv /\ WindowInv /\ LockInv /\ StoredInv /\ RunInv /\ RewindInv /\ StoredInv' /\ [Next]_vars
        => [Replica!ReplicaNext]_<<Replica!chainVars, Replica!replicaVars>>
  <2> SUFFICES ASSUME TypeInv, WindowInv, LockInv, StoredInv, RunInv, RewindInv, StoredInv',
                      [Next]_vars
               PROVE  [Replica!ReplicaNext]_<<Replica!chainVars, Replica!replicaVars>>
    OBVIOUS
  <2>1. ASSUME UNCHANGED <<rows, lastHeight>> PROVE UNCHANGED Replica!replicaVars
    BY <2>1 DEF Replica!replicaVars
  <2>2. CASE ChainMoves
    <3>1. UNCHANGED Replica!replicaVars
      BY <2>1, <2>2 DEF ChainMoves, dbVars
    <3>2. CASE Disconnect
      <4>1. Replica!Disconnect
        BY <3>2 DEF Disconnect, Replica!Disconnect, Tip, Replica!Tip
      <4> QED BY <3>1, <4>1 DEF Replica!ReplicaNext
    <3>3. ASSUME NEW S \in SUBSET Names, Connect(S)
          PROVE  Replica!ReplicaNext
      <4>1. Replica!Connect(S)
        BY <3>3 DEF Connect, Replica!Connect, Tip, Replica!Tip, TipView, Replica!TipView
      <4> QED BY <3>1, <4>1 DEF Replica!ReplicaNext
    <3> QED BY <2>2, <3>2, <3>3 DEF ChainMoves
  <2>export. CASE ExportJsonl
    <3>1. UNCHANGED Replica!replicaVars
      BY <2>1, <2>export DEF ExportJsonl, dbVars
    <3>2. Replica!Export
      BY <2>export DEF ExportJsonl, Export, Replica!Export
    <3> QED BY <3>1, <3>2 DEF Replica!ReplicaNext
  <2>3. CASE BootstrapCommit \/ ImportJsonl \/ CommitBlock \/ RollbackReorg
    BY <2>3, ReplicaCommits DEF Replica!ReplicaNext, chainVars, Replica!chainVars
  <2>4. CASE ~(ChainMoves \/ ExportJsonl \/ BootstrapCommit \/ ImportJsonl \/ CommitBlock
                 \/ RollbackReorg)
    <3>1. UNCHANGED <<rows, lastHeight, chainVars>>
      BY <2>4 DEF Next, Command, vars, dbVars, BootstrapTip, BootstrapNames, ReorgCheck,
             CatchUp, Scan, FromFile, StartCheck, CompareHash, CheckPassed, PlanCatchUp, FetchBlock,
             ReadInfo, ReadResource, FinishCatchUp, Interrupted
    <3> QED BY <2>1, <3>1 DEF chainVars, Replica!chainVars
  <2> QED BY <2>2, <2>3, <2>4, <2>export
<1>3. Spec => [](TypeInv /\ WindowInv /\ LockInv /\ StoredInv /\ RunInv /\ RewindInv)
  BY ExactInvariant, LockInvariant, RewindInvariant, PTL
<1> QED BY <1>1, <1>2, <1>3, PTL DEF Spec, IndexIsReplica, Replica!ReplicaSpec
=============================================================================
