-------------------------- MODULE SigmaRefinement --------------------------
(***************************************************************************)
(* The sigma state implements SigmaLedger: connecting a block extends the  *)
(* ledger by an entry that spends only what was minted and not yet spent,  *)
(* disconnecting the tip rolls the last entry back, and every other step   *)
(* leaves the ledger alone.                                                *)
(***************************************************************************)
EXTENDS SigmaStateProofs

\* What a block contributes to the ledger has the type of a ledger entry.
LEMMA LedgerEntryType ==
    ASSUME vtx \in Worlds, NEW b \in Blocks
    PROVE  LedgerEntry(b) \in Ledger!Entries
  <1>1. {<<Value[o], Denom[o]>> : o \in BlockMints(b)} \in SUBSET (Coins \X Denoms)
    BY BlockContents, TxAssumption DEF TxAssumption
  <1>2. {<<i.serial, i.denom>> : i \in BlockInputs(b)} \in SUBSET (Coins \X Denoms)
    BY BlockContents, InputType
  <1> QED BY <1>1, <1>2 DEF LedgerEntry, Ledger!Entries

\* The path to a block is the path to its parent followed by the block.
LEMMA PathStep ==
    ASSUME NEW b \in Blocks \ {Genesis}
    PROVE  /\ Height(Parent[b]) \in Nat
           /\ Height(b) = Height(Parent[b]) + 1
           /\ Path[b][Height(b)] = b
           /\ \A n \in 1..Height(Parent[b]) : Path[b][n] = Path[Parent[b]][n]
  <1>1. /\ Parent[b] \in Blocks /\ Path[Parent[b]] \in Seq(Blocks)
        /\ Path[b] = Append(Path[Parent[b]], b)
    BY TreeAssumption DEF TreeAssumption
  <1> QED BY <1>1 DEF Height

\* The ledger of the chain that ends in b.
LedgerOf(b) == [n \in 1..Height(b) |-> LedgerEntry(Path[b][n])]

\* The ledger of a block's path is a sequence of entries, one per height.
LEMMA LedgerOfType ==
    ASSUME vtx \in Worlds, NEW b \in Blocks
    PROVE  /\ LedgerOf(b) \in Seq(Ledger!Entries)
           /\ Len(LedgerOf(b)) = Height(b)
           /\ Height(b) \in Nat
  <1>1. \A n \in 1..Height(b) : Path[b][n] \in Blocks
    BY TreeAssumption DEF TreeAssumption, Height
  <1>2. \A n \in 1..Height(b) : LedgerEntry(Path[b][n]) \in Ledger!Entries
    BY <1>1, LedgerEntryType
  <1>3. Height(b) \in Nat
    BY BelowBlocks
  <1> QED BY <1>2, <1>3 DEF LedgerOf

\* The ledger of a block is the ledger of pprev with one more entry.
LEMMA LedgerStep ==
    ASSUME vtx \in Worlds, NEW b \in Blocks \ {Genesis}
    PROVE  /\ LedgerOf(b) = Append(LedgerOf(Parent[b]), LedgerEntry(b))
           /\ LedgerOf(Parent[b]) = SubSeq(LedgerOf(b), 1, Len(LedgerOf(b)) - 1)
           /\ LedgerOf(b) # << >>
           /\ LedgerOf(b)[Len(LedgerOf(Parent[b])) + 1] = LedgerEntry(b)
  <1> DEFINE h == Height(Parent[b])
             E == Ledger!Entries
             L == LedgerOf(Parent[b])
             e == LedgerEntry(b)
  <1>1. Parent[b] \in Blocks
    BY BelowStep
  <1>2. h \in Nat /\ Height(b) = h + 1
    BY PathStep
  <1>3. L \in Seq(E) /\ Len(L) = h /\ e \in E
    BY <1>1, LedgerOfType, LedgerEntryType
  <1>4. LedgerOf(b) = [n \in 1..(h + 1) |-> LedgerEntry(Path[b][n])]
    BY <1>2 DEF LedgerOf
  <1>5. /\ \A n \in 1..h : LedgerEntry(Path[b][n]) = L[n]
        /\ LedgerEntry(Path[b][h + 1]) = e
    BY PathStep, <1>2 DEF LedgerOf
  <1>6. LedgerOf(b) \in Seq(E) /\ Len(LedgerOf(b)) = h + 1
    BY <1>2, LedgerOfType
  <1>7. \A n \in 1..(h + 1) : LedgerOf(b)[n] = IF n <= h THEN L[n] ELSE e
    BY <1>2, <1>4, <1>5
  <1> HIDE DEF h, E, L, e
  <1>8. LedgerOf(b) = Append(L, e)
    BY <1>2, <1>3, <1>6, <1>7
  <1>9. L = SubSeq(LedgerOf(b), 1, h)
    BY <1>2, <1>3, <1>8
  <1>10. LedgerOf(b) # << >> /\ LedgerOf(b)[h + 1] = e
    BY <1>2, <1>6, <1>7
  <1>11. Len(LedgerOf(b)) - 1 = h /\ Len(L) + 1 = h + 1
    BY <1>2, <1>3, <1>6
  <1>12. /\ L = SubSeq(LedgerOf(b), 1, Len(LedgerOf(b)) - 1)
         /\ LedgerOf(b)[Len(L) + 1] = e
    BY <1>9, <1>10, <1>11
  <1> QED BY <1>8, <1>10, <1>12 DEF L, e

\* The two fields of an entry.
LEMMA LedgerEntryFields ==
    ASSUME NEW b
    PROVE  /\ \A o \in BlockMints(b) : <<Value[o], Denom[o]>> \in LedgerEntry(b).minted
           /\ \A p \in LedgerEntry(b).spent :
                 \E i \in BlockInputs(b) : p = <<i.serial, i.denom>>
  <1>1. /\ LedgerEntry(b).minted = {<<Value[o], Denom[o]>> : o \in BlockMints(b)}
        /\ LedgerEntry(b).spent = {<<i.serial, i.denom>> : i \in BlockInputs(b)}
    BY DEF LedgerEntry
  <1> QED BY <1>1

\* The mints and the serials of the ledger are those of the active chain.
LEMMA LedgerContents ==
    ASSUME vtx \in Worlds, tip \in Blocks
    PROVE  /\ \A c \in ActiveBlocks : \A o \in BlockMints(c) :
                 <<Value[o], Denom[o]>> \in Ledger!Minted(LedgerOf(tip))
           /\ Ledger!SpentSerials(LedgerOf(tip)) \subseteq ActiveSpent
  <1>1. Len(LedgerOf(tip)) = Height(tip) /\ Height(tip) = Len(Path[tip])
    BY LedgerOfType DEF Height
  <1>2. \A n \in 1..Height(tip) : LedgerOf(tip)[n] = LedgerEntry(Path[tip][n])
    BY DEF LedgerOf
  <1>3. ASSUME NEW c \in ActiveBlocks, NEW o \in BlockMints(c)
        PROVE  <<Value[o], Denom[o]>> \in Ledger!Minted(LedgerOf(tip))
    <2>1. PICK n \in 1..Height(tip) : Path[tip][n] = c
      BY <1>1 DEF ActiveBlocks, Below
    <2>2. <<Value[o], Denom[o]>> \in LedgerOf(tip)[n].minted
      BY <1>2, <2>1, LedgerEntryFields
    <2> QED BY <1>1, <2>2 DEF Ledger!Minted
  <1>4. ASSUME NEW s \in Ledger!SpentSerials(LedgerOf(tip)) PROVE s \in ActiveSpent
    <2>1. PICK n \in 1..Height(tip) : \E p \in LedgerOf(tip)[n].spent : s = p[1]
      BY <1>1 DEF Ledger!SpentSerials
    <2>2. PICK i \in BlockInputs(Path[tip][n]) : s = i.serial
      BY <1>2, <2>1, LedgerEntryFields
    <2>3. s \in BlockSerials(Path[tip][n])
      BY <2>2 DEF BlockInputs, BlockSerials, SerialsOf
    <2>4. Path[tip][n] \in ActiveBlocks
      BY <1>1 DEF ActiveBlocks, Below
    <2> QED BY <2>3, <2>4 DEF ActiveSpent
  <1> QED BY <1>3, <1>4

\* After a step the ledger is that of the new tip's path.
LEMMA LedgerStays ==
    ASSUME vtx' = vtx
    PROVE  activeLedger' = [n \in 1..Height(tip') |-> LedgerEntry(Path[tip'][n])]
  BY ContentsStay DEF activeLedger, LedgerEntry, Height

\* Connecting a block is the abstract Extend.
LEMMA ConnectExtends ==
    ASSUME SpendInv, SpendInv', NEW b \in Blocks, ConnectTip(b)
    PROVE  Ledger!Extend
  <1>1. b \in Blocks \ {Genesis} /\ Parent[b] = tip /\ tip' = b /\ vtx' = vtx
    BY DEF ConnectTip
  <1>2. vtx \in Worlds /\ tip \in Blocks
    BY DEF SpendInv, TypeOK
  <1>3. activeLedger = LedgerOf(tip) /\ activeLedger' = LedgerOf(b)
    BY <1>1, LedgerStays DEF activeLedger, LedgerOf
  <1>4. /\ LedgerOf(b) = Append(LedgerOf(tip), LedgerEntry(b))
        /\ LedgerOf(b)[Len(LedgerOf(tip)) + 1] = LedgerEntry(b)
    BY <1>1, <1>2, LedgerStep
  <1>5. Len(LedgerOf(b)) = Len(LedgerOf(tip)) + 1
    BY <1>1, <1>2, LedgerOfType, PathStep
  <1>6. LedgerEntry(b) \in Ledger!Entries
    BY <1>2, LedgerEntryType
  <1>7. b \in ActiveBlocks'
    <2>1. b \in Below(b)
      BY <1>1, BelowStep
    <2>2. ActiveBlocks' = Below(b)
      BY <1>1 DEF ActiveBlocks, Below
    <2> QED BY <2>1, <2>2
  <1>8. LedgerEntry(b).spent \subseteq Ledger!Minted(LedgerOf(tip))
    <2>1. ASSUME NEW i \in BlockInputs(b)
          PROVE  <<i.serial, i.denom>> \in Ledger!Minted(LedgerOf(tip))
      <3>1. PICK c \in ActiveBlocks : \E o \in BlockMints(c) :
               Value[o] = i.serial /\ Denom[o] = i.denom
        BY <1>1, <1>7, ContentsStay DEF SpendInv, SpentWasMintedBefore, ActiveBlocks, Below
      <3> QED BY <3>1, <1>2, LedgerContents
    <2> QED BY <2>1 DEF LedgerEntry
  <1>9. {p[1] : p \in LedgerEntry(b).spent} \cap Ledger!SpentSerials(LedgerOf(tip)) = {}
    <2>1. \A p \in LedgerEntry(b).spent : p[1] \in BlockSerials(b)
      BY DEF LedgerEntry, BlockInputs, BlockSerials, SerialsOf
    <2>2. BlockSerials(b) \cap ActiveSpent = {}
      BY DEF ConnectTip, ConnectBlockSigma, NoUsedSerial, SpendInv, ActiveSerialsAreUsed
    <2> QED BY <1>2, <2>1, <2>2, LedgerContents
  <1> QED BY <1>3, <1>4, <1>5, <1>6, <1>8, <1>9 DEF Ledger!Extend

\* Disconnecting the tip is the abstract Rollback.
LEMMA DisconnectRollsBack ==
    ASSUME SpendInv, NEW R, NEW S, DisconnectTip(R, S)
    PROVE  Ledger!Rollback
  <1>1. tip \in Blocks \ {Genesis} /\ tip' = Parent[tip] /\ vtx' = vtx /\ vtx \in Worlds
    BY DEF DisconnectTip, SpendInv, TypeOK
  <1>2. activeLedger = LedgerOf(tip) /\ activeLedger' = LedgerOf(Parent[tip])
    BY <1>1, LedgerStays DEF activeLedger, LedgerOf
  <1> QED BY <1>1, <1>2, LedgerStep DEF Ledger!Rollback

\* Every step of the node is a step of the ledger or leaves it alone.
LEMMA StepSimulation ==
    ASSUME SpendInv, SpendInv', [Next]_vars
    PROVE  [Ledger!Next]_activeLedger
  <1>1. ASSUME NEW b \in Blocks, ConnectTip(b) PROVE Ledger!Next
    BY <1>1, ConnectExtends DEF Ledger!Next
  <1>2. ASSUME NEW R \in SUBSET BlockTxs(tip), NEW S \in SUBSET BlockInputs(tip),
               DisconnectTip(R, S)
        PROVE  Ledger!Next
    BY <1>2, DisconnectRollsBack DEF Ledger!Next
  <1>3. ASSUME vtx' = vtx, tip' = tip PROVE activeLedger' = activeLedger
    BY <1>3, LedgerStays DEF activeLedger
  <1>4. ASSUME \/ \E b \in Blocks : \E done \in SUBSET BlockSerials(b) :
                     ConnectBlockSigmaFails(b, done)
               \/ \E b \in Blocks : \E S \in SUBSET BlockInputs(b) : RejectBlock(b, S)
               \/ DisconnectTipAborts
               \/ \E t \in Txs : AcceptToMemoryPool(t)
               \/ \E t \in Txs : \E S \in SUBSET SpendsOf[t] : RejectTransaction(t, S)
               \/ \E S \in SUBSET mempool : RemoveFromMempool(S)
               \/ \E k \in DOMAIN coinGroups : GetCoinSetForSpend(k)
               \/ UNCHANGED vars
        PROVE  vtx' = vtx /\ tip' = tip
    BY <1>4 DEF ConnectBlockSigmaFails, RejectBlock, DisconnectTipAborts, AcceptToMemoryPool,
                RejectTransaction, RemoveFromMempool, GetCoinSetForSpend, vars
  <1> QED BY <1>1, <1>2, <1>3, <1>4 DEF Next

\* The sigma state implements the abstract ledger for every block tree and
\* every content of its blocks: through connections, refusals with their side
\* effects, reorganisations and pool traffic, the chain is a ledger in which a
\* serial is spent by at most one block and only after its mint.
THEOREM SigmaStateImplementsLedger == Spec => ImplementsLedger
  <1>1. Init => Ledger!Init
    <2>1. Height(Genesis) = 0
      BY TreeAssumption DEF TreeAssumption, Height
    <2> QED BY <2>1 DEF Init, Ledger!Init, activeLedger
  <1>2. SpendInv /\ SpendInv' /\ [Next]_vars => [Ledger!Next]_activeLedger
    BY StepSimulation
  <1> QED BY <1>1, <1>2, SpendInvariant, PTL DEF Spec, ImplementsLedger, Ledger!Spec
=============================================================================
