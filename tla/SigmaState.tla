----------------------------- MODULE SigmaState -----------------------------
(***************************************************************************)
(* The sigma coin state (CSigmaState, sigma.cpp) together with the code    *)
(* that drives it: the connection and disconnection of the tip and the     *)
(* acceptance of spends into the memory pool (main.cpp).                   *)
(*                                                                         *)
(* A block is a node of the tree, its transactions are the value of        *)
(* vtx.  chainActive is the path from the genesis block to `tip`.  A mint  *)
(* is an output that carries a commitment (its Value) and a denomination.  *)
(* A serial number is identified with the commitment it opens, so a spend  *)
(* input names the Value of the coin it spends.                            *)
(***************************************************************************)
EXTENDS BlockTree, FiniteSets, FiniteSetsExt, Functions

CONSTANTS
    Txs,                \* transactions
    Worlds,             \* the possible contents of the blocks
    Outs,               \* sigma mint outputs
    Value, Denom,       \* commitment and denomination of a mint output
    Coins, Denoms,      \* commitments; denominations in enum order
    DenomValue,         \* the amount a denomination stands for
    MintsOf,            \* the mint outputs of a transaction
    Inputs, SpendsOf,   \* spend inputs, and the ones of a transaction
    CoinsPerId,         \* ZC_SPEND_V3_COINSPERID
    MaxSigmaInputPerBlock, MaxValueSigmaSpendPerBlock

\* The transactions and what they mint and spend.
ASSUME TxAssumption ==
    /\ Value \in [Outs -> Coins]
    /\ Denom \in [Outs -> Denoms]
    /\ Denoms \subseteq Nat
    /\ \A D \in SUBSET Denoms : D # {} => \E d \in D : \A e \in D : d <= e
    /\ DenomValue \in [Denoms -> Nat]
    /\ MintsOf \in [Txs -> SUBSET Outs]
    /\ \A t, u \in Txs : t # u => MintsOf[t] \cap MintsOf[u] = {}
    /\ Inputs \subseteq [serial : Coins, denom : Denoms, id : Nat \ {0},
                         acc : Blocks, anon : SUBSET Outs]
    /\ SpendsOf \in [Txs -> SUBSET Inputs]
    /\ Worlds \subseteq [Blocks -> Seq(Txs)]

ASSUME BoundAssumption ==
    /\ IsFiniteSet(Outs) /\ IsFiniteSet(Inputs) /\ IsFiniteSet(Denoms)
    /\ CoinsPerId \in Nat \ {0}
    /\ MaxSigmaInputPerBlock \in Nat
    /\ MaxValueSigmaSpendPerBlock \in Nat

VARIABLES
    vtx,                    \* CBlock::vtx of every block; never changes
    tip,                    \* chainActive.Tip()
    sigmaMintedPubCoins,    \* CBlockIndex, per block: <<denomination, id>> -> coins
    sigmaSpentSerials,      \* CBlockIndex, per block
    coinGroups,             \* CSigmaState: <<denomination, id>> -> group info
    mintedPubCoins,         \* CSigmaState: commitment -> CMintedCoinInfo
    latestCoinIds,          \* CSigmaState: denomination -> id, 0 if none
    usedCoinSerials,        \* CSigmaState
    mempoolCoinSerials,     \* CSigmaState: serial -> transaction
    mempool,                \* CTxMemPool::mapTx
    aborted                 \* an assert of the code has failed

indexVars == <<sigmaMintedPubCoins, sigmaSpentSerials>>
groupVars == <<coinGroups, mintedPubCoins, latestCoinIds>>
poolVars  == <<mempoolCoinSerials, mempool>>
vars == <<vtx, tip, indexVars, groupVars, usedCoinSerials, poolVars, aborted>>

-----------------------------------------------------------------------------
\* What a transaction or a block mints and spends.
BlockTxs(b) == {vtx[b][n] : n \in 1..Len(vtx[b])}
SerialsOf(t) == {i.serial : i \in SpendsOf[t]}
BlockMints(b) == UNION {MintsOf[t] : t \in BlockTxs(b)}
BlockInputs(b) == UNION {SpendsOf[t] : t \in BlockTxs(b)}
BlockSerials(b) == UNION {SerialsOf(t) : t \in BlockTxs(b)}
MintsIn(b, d) == {o \in BlockMints(b) : Denom[o] = d}

EmptyMap == [x \in {} |-> {}]
IsMap(f, D, R) == /\ f = [x \in DOMAIN f |-> f[x]]
                  /\ DOMAIN f \subseteq D
                  /\ \A x \in DOMAIN f : f[x] \in R
Keys == Denoms \X (Nat \ {0})
KeyOf(i) == <<i.denom, i.id>>
IsIndex(M) == /\ M = [b \in Blocks |-> M[b]]
              /\ \A b \in Blocks : /\ IsMap(M[b], Keys, SUBSET Outs)
                                  /\ IsFiniteSet(DOMAIN M[b])
GroupInfo == [firstBlock : Blocks, lastBlock : Blocks, nCoins : Nat]
MintedCoinInfo == [denomination : Denoms, id : Nat \ {0}, nHeight : Nat]

-----------------------------------------------------------------------------
(* The stateful checks of a transaction.  M and G are the block index and  *)
(* the coin groups they are made against: DisconnectTip makes them after   *)
(* it has rolled both back.                                                *)

\* The coins a block's index holds for a group.
Entry(M, b, k) == IF k \in DOMAIN M[b] THEN M[b][k] ELSE {}

\* The blocks whose coins make up the anonymity set of an input: from the
\* accumulator block, or from the group's first block when the accumulator
\* block is not between the group's last and first block, down to the first.
Walk(G, i) ==
    LET g == G[KeyOf(i)]
        start == IF i.acc \in Between(g.firstBlock, g.lastBlock)
                 THEN i.acc ELSE g.firstBlock
    IN  Between(g.firstBlock, start)

AnonymitySet(M, G, i) == UNION {Entry(M, b, KeyOf(i)) : b \in Walk(G, i)}

\* CoinSpend::Verify, external: a proof verifies against exactly the set of
\* coins it was made for, and only if one of them opens to its serial.
Verify(i, anonymity_set) == /\ anonymity_set = i.anon
                            /\ \E o \in anonymity_set : Value[o] = i.serial

SpendAmount(t) == MapThenSumSet(LAMBDA i : DenomValue[i.denom], SpendsOf[t])

\* Mutant of CheckSigmaTransaction: the proofs are not verified.
CheckWithoutVerify(M, G, t) ==
    /\ Cardinality(SpendsOf[t]) <= MaxSigmaInputPerBlock
    /\ SpendAmount(t) <= MaxValueSigmaSpendPerBlock
    /\ \A i \in SpendsOf[t] : KeyOf(i) \in DOMAIN G

\* The checks of a transaction's spends that do not depend on where the
\* transaction was seen.
CheckSigmaTransaction(M, G, t) ==
    /\ Cardinality(SpendsOf[t]) <= MaxSigmaInputPerBlock
    /\ SpendAmount(t) <= MaxValueSigmaSpendPerBlock
    /\ \A i \in SpendsOf[t] : /\ KeyOf(i) \in DOMAIN G
                              /\ Verify(i, AnonymitySet(M, G, i))
    /\ \A i, j \in SpendsOf[t] : i.serial = j.serial => i = j

\* The ordinary inputs of a transaction without sigma spends are unspent on
\* the chain up to b.
InputsAvailable(t, b) ==
    SpendsOf[t] = {} => \A c \in Below(b) : t \notin BlockTxs(c)

\* The index entries read while the inputs S are checked, each a block and a
\* group.  An input of a group that does not exist is rejected before it
\* reads any.
Visits(G, S) == UNION {Walk(G, i) \X {KeyOf(i)} : i \in {j \in S : KeyOf(j) \in DOMAIN G}}

\* The walks read sigmaMintedPubCoins with operator[], so every visited block
\* has an entry for the group afterwards, an empty one if it had none.
Touched(M, visits) ==
    [b \in Blocks |-> [k \in DOMAIN M[b] \cup {v[2] : v \in {w \in visits : w[1] = b}}
                            |-> Entry(M, b, k)]]

-----------------------------------------------------------------------------
(* CSigmaState::AddMint for all the mints of a block, which ConnectBlock-  *)
(* Sigma adds one after the other.  The mints of one denomination end up   *)
(* in one group; SigmaIndex checks this form against the code's loop.      *)

\* Mutants of MintGroupId: ids start at 0; a full group takes one more block.
MintGroupIdFromZero(d, b) ==
    LET id == latestCoinIds[d]
    IN  IF \/ <<d, id>> \notin DOMAIN coinGroups
           \/ coinGroups[<<d, id>>].nCoins < CoinsPerId
        THEN id ELSE id + 1
MintGroupIdOverfull(d, b) ==
    LET id == IF latestCoinIds[d] < 1 THEN 1 ELSE latestCoinIds[d]
    IN  IF \/ <<d, id>> \notin DOMAIN coinGroups
           \/ coinGroups[<<d, id>>].nCoins <= CoinsPerId
        THEN id ELSE id + 1

\* The group that the mints of denomination d of block b are added to.
MintGroupId(d, b) ==
    LET id == IF latestCoinIds[d] < 1 THEN 1 ELSE latestCoinIds[d]
        hasSpace == \/ <<d, id>> \notin DOMAIN coinGroups
                    \/ coinGroups[<<d, id>>].nCoins < CoinsPerId
                    \/ coinGroups[<<d, id>>].lastBlock = b
    IN  IF hasSpace THEN id ELSE id + 1

MintedDenoms(b) == {Denom[o] : o \in BlockMints(b)}
MintKeys(b) == {<<d, MintGroupId(d, b)>> : d \in MintedDenoms(b)}

\* Mutant of MintsOfKey: mints of every denomination.
AllMintsOfBlock(b, k) == BlockMints(b)

\* The mints of a block that its index lists under a group.
MintsOfKey(b, k) == MintsIn(b, k[1])

GroupAfterMints(b, k) ==
    LET isNew == k \notin DOMAIN coinGroups
        n == Cardinality(MintsIn(b, k[1]))
    IN  [firstBlock |-> IF isNew THEN b ELSE coinGroups[k].firstBlock,
         lastBlock  |-> b,
         nCoins     |-> IF isNew THEN n ELSE coinGroups[k].nCoins + n]

\* The denomination under which a commitment enters mintedPubCoins: mints are
\* sorted by commitment and denomination, and the first insertion stays.
FirstDenom(b, v) ==
    LET ds == {Denom[o] : o \in {p \in BlockMints(b) : Value[p] = v}}
    IN  CHOOSE d \in ds : \A e \in ds : d <= e

AddMints(b) ==
    /\ coinGroups' = [k \in DOMAIN coinGroups \cup MintKeys(b) |->
                        IF k \in MintKeys(b) THEN GroupAfterMints(b, k) ELSE coinGroups[k]]
    /\ latestCoinIds' = [d \in Denoms |->
                        IF d \in MintedDenoms(b) THEN MintGroupId(d, b) ELSE latestCoinIds[d]]
    /\ mintedPubCoins' =
          [v \in DOMAIN mintedPubCoins \cup {Value[o] : o \in BlockMints(b)} |->
             IF v \in DOMAIN mintedPubCoins THEN mintedPubCoins[v]
             ELSE [denomination |-> FirstDenom(b, v),
                   id |-> MintGroupId(FirstDenom(b, v), b),
                   nHeight |-> Height(b)]]

-----------------------------------------------------------------------------
(* Connecting a block.                                                     *)

CheckSigmaBlock(b) ==
    /\ MapThenSumSet(LAMBDA t : Cardinality(SpendsOf[t]), BlockTxs(b)) <= MaxSigmaInputPerBlock
    /\ MapThenSumSet(SpendAmount, BlockTxs(b)) <= MaxValueSigmaSpendPerBlock

\* The serials of the transactions that precede the n-th one in its block.
SerialsBefore(b, n) == UNION {SerialsOf(vtx[b][m]) : m \in 1..(n - 1)}

\* CheckSigmaSpendSerial while the block's transactions are collected.  A
\* transaction that mints has put its own hash into zcTransactions when its
\* spends are reached, and is not checked.
CheckSigmaSpendSerials(b, n) ==
    \/ MintsOf[vtx[b][n]] # {}
    \/ SerialsOf(vtx[b][n]) \cap SerialsBefore(b, n) = {}

\* The part of CheckBlock and ConnectBlock up to ConnectBlockSigma.
CheckTransactions(b) ==
    /\ \A n \in 1..Len(vtx[b]) :
          /\ CheckSigmaTransaction(sigmaMintedPubCoins, coinGroups, vtx[b][n])
          /\ CheckSigmaSpendSerials(b, n)
          /\ InputsAvailable(vtx[b][n], tip)
          /\ \A m \in 1..(n - 1) : vtx[b][m] # vtx[b][n]
    /\ CheckSigmaBlock(b)

\* The block index after the checks of all the inputs of b.
IndexAfterChecks(b) ==
    Touched(sigmaMintedPubCoins, Visits(coinGroups, BlockInputs(b)))

\* Mutant of NoUsedSerial: one unused serial lets the block pass.
SomeUnusedSerial(b) == BlockSerials(b) = {} \/ ~(BlockSerials(b) \subseteq usedCoinSerials)

\* CheckSigmaSpendSerial for the block's serials when it is connected.
NoUsedSerial(b) == BlockSerials(b) \cap usedCoinSerials = {}

\* ConnectBlockSigma on a block that spends no used serial.
ConnectBlockSigma(b) ==
    /\ NoUsedSerial(b)
    /\ AddMints(b)
    /\ usedCoinSerials' = usedCoinSerials \cup BlockSerials(b)
    /\ sigmaSpentSerials' = [sigmaSpentSerials EXCEPT ![b] = BlockSerials(b)]
    /\ sigmaMintedPubCoins' =
          [IndexAfterChecks(b) EXCEPT ![b] = [k \in MintKeys(b) |-> MintsOfKey(b, k)]]

\* The end of ConnectBlock, and removeForBlock: transactions of the pool that
\* spend a serial of the block or are in it go, and so do the block's serials.
RemoveForBlock(b) ==
    LET serials == DOMAIN mempoolCoinSerials \cap BlockSerials(b)
    IN  /\ mempoolCoinSerials' =
              Restrict(mempoolCoinSerials, DOMAIN mempoolCoinSerials \ BlockSerials(b))
        /\ mempool' = mempool \ ({mempoolCoinSerials[s] : s \in serials} \cup BlockTxs(b))

ConnectTip(b) ==
    /\ ~aborted
    /\ b # Genesis
    /\ Parent[b] = tip
    /\ CheckTransactions(b)
    /\ ConnectBlockSigma(b)
    /\ RemoveForBlock(b)
    /\ tip' = b
    /\ UNCHANGED <<vtx, aborted>>

\* ConnectBlockSigma meets a used serial.  The loop over the block's serials
\* has by then entered some of the unused ones, in the order of a hash table.
ConnectBlockSigmaFails(b, done) ==
    /\ ~aborted
    /\ b # Genesis
    /\ Parent[b] = tip
    /\ CheckTransactions(b)
    /\ ~NoUsedSerial(b)
    /\ done \subseteq BlockSerials(b) \ usedCoinSerials
    /\ usedCoinSerials' = usedCoinSerials \cup done
    /\ sigmaSpentSerials' = [sigmaSpentSerials EXCEPT ![b] = done]
    /\ sigmaMintedPubCoins' = [IndexAfterChecks(b) EXCEPT ![b] = EmptyMap]
    /\ UNCHANGED <<vtx, tip, groupVars, poolVars, aborted>>

\* CheckBlock or ConnectBlock rejects a block before ConnectBlockSigma, for
\* any reason, after it has checked the inputs S.
RejectBlock(b, S) ==
    /\ ~aborted
    /\ S \subseteq BlockInputs(b)
    /\ sigmaMintedPubCoins' = Touched(sigmaMintedPubCoins, Visits(coinGroups, S))
    /\ UNCHANGED <<vtx, tip, sigmaSpentSerials, groupVars, usedCoinSerials, poolVars, aborted>>

-----------------------------------------------------------------------------
(* Disconnecting the tip.                                                  *)

\* RemoveBlock finds the groups of these entries without coins afterwards.
EmptiedKeys(b) ==
    {k \in DOMAIN sigmaMintedPubCoins[b] :
        IF k \in DOMAIN coinGroups
        THEN coinGroups[k].nCoins = Cardinality(sigmaMintedPubCoins[b][k])
        ELSE sigmaMintedPubCoins[b][k] = {}}

\* The blocks below b with an entry for k: the loop that rolls lastBlock back
\* stops at the highest of them.
WithEntry(k, b) == {c \in Below(Parent[b]) : k \in DOMAIN sigmaMintedPubCoins[c]}

\* The asserts of RemoveBlock on the group of an entry.
GroupAsserts(b, k) ==
    /\ k \in DOMAIN coinGroups
    /\ coinGroups[k].nCoins >= Cardinality(sigmaMintedPubCoins[b][k])
    /\ coinGroups[k].lastBlock = b
    /\ \E c \in WithEntry(k, b) : /\ WithEntry(k, b) \subseteq Below(c)
                                  /\ coinGroups[k].firstBlock \in Below(c)

\* The assert of RemoveBlock on mintedPubCoins: every coin of the block has an
\* entry of its own there, of the denomination and group it was minted in.
MintAsserts(b) ==
    /\ \A k \in DOMAIN sigmaMintedPubCoins[b] : \A o \in sigmaMintedPubCoins[b][k] :
          /\ Value[o] \in DOMAIN mintedPubCoins
          /\ mintedPubCoins[Value[o]].denomination = k[1]
          /\ mintedPubCoins[Value[o]].id = k[2]
    /\ \A k, l \in DOMAIN sigmaMintedPubCoins[b] :
       \A o \in sigmaMintedPubCoins[b][k], p \in sigmaMintedPubCoins[b][l] :
          Value[o] = Value[p] => <<k, o>> = <<l, p>>

RemoveBlockAsserts(b) ==
    /\ \A k \in DOMAIN sigmaMintedPubCoins[b] \ EmptiedKeys(b) : GroupAsserts(b, k)
    /\ MintAsserts(b)

\* Mutant of GroupsWithout: lastBlock is not rolled back.
GroupsKeepLastBlock(b) ==
    [k \in DOMAIN coinGroups \ EmptiedKeys(b) |->
        IF k \notin DOMAIN sigmaMintedPubCoins[b] THEN coinGroups[k]
        ELSE [coinGroups[k] EXCEPT !.nCoins = @ - Cardinality(sigmaMintedPubCoins[b][k])]]

GroupsWithout(b) ==
    [k \in DOMAIN coinGroups \ EmptiedKeys(b) |->
        IF k \notin DOMAIN sigmaMintedPubCoins[b] THEN coinGroups[k]
        ELSE [coinGroups[k] EXCEPT !.nCoins = @ - Cardinality(sigmaMintedPubCoins[b][k]),
                                   !.lastBlock = Highest(WithEntry(k, b))]]

IndexWithout(b) == [sigmaMintedPubCoins EXCEPT ![b] = EmptyMap]

\* Mutant of CoinsMintedBy: the coins of a removed block are not forgotten.
NoCoinsMinted(b) == {}

CoinsMintedBy(b) ==
    {Value[o] : o \in UNION {sigmaMintedPubCoins[b][k] : k \in DOMAIN sigmaMintedPubCoins[b]}}

\* Mutants of the two that follow: nothing is rolled back.
LatestIdsKept(b) == latestCoinIds
UsedSerialsKept(b) == usedCoinSerials

\* A denomination's latest id goes down once for each group that is erased.
LatestIdsWithout(b) ==
    [d \in Denoms |-> latestCoinIds[d] - Cardinality({k \in EmptiedKeys(b) : k[1] = d})]

UsedSerialsWithout(b) == usedCoinSerials \ sigmaSpentSerials[b]

RemoveBlock(b) ==
    /\ coinGroups' = GroupsWithout(b)
    /\ latestCoinIds' = LatestIdsWithout(b)
    /\ mintedPubCoins' = Restrict(mintedPubCoins, DOMAIN mintedPubCoins \ CoinsMintedBy(b))
    /\ usedCoinSerials' = UsedSerialsWithout(b)
    /\ sigmaSpentSerials' = [sigmaSpentSerials EXCEPT ![b] = {}]

\* Mutant of CanAddSpendsToMempool: conflicts within the pool are not seen.
CanAddUnusedSpends(t, used) == t \notin mempool /\ SerialsOf(t) \cap used = {}

\* What AcceptToMemoryPool asks of a spend when the serials `used` are used.
CanAddSpendsToMempool(t, used) ==
    /\ t \notin mempool
    /\ SerialsOf(t) \cap used = {}
    /\ SerialsOf(t) \cap DOMAIN mempoolCoinSerials = {}

\* DisconnectTip's offer of the block's transactions to the pool, made when
\* the sigma state has been rolled back: R are the accepted ones.  Any of
\* them may be refused for reasons outside sigma.
Resurrected(b, R) ==
    /\ R \subseteq BlockTxs(b)
    /\ \A t \in R :
          /\ CheckSigmaTransaction(IndexWithout(b), GroupsWithout(b), t)
          /\ InputsAvailable(t, Parent[b])
          /\ CanAddSpendsToMempool(t, UsedSerialsWithout(b))
          /\ \A u \in R \ {t} : SerialsOf(t) \cap SerialsOf(u) = {}

AddSpendsToMempool(R) ==
    mempoolCoinSerials' =
        [s \in DOMAIN mempoolCoinSerials \cup UNION {SerialsOf(t) : t \in R} |->
            IF s \in DOMAIN mempoolCoinSerials THEN mempoolCoinSerials[s]
            ELSE CHOOSE t \in R : s \in SerialsOf(t)]

\* S are the inputs checked on behalf of the block's transactions.
DisconnectTip(R, S) ==
    /\ ~aborted
    /\ tip # Genesis
    /\ RemoveBlockAsserts(tip)
    /\ RemoveBlock(tip)
    /\ Resurrected(tip, R)
    /\ UNION {SpendsOf[t] : t \in R} \subseteq S
    /\ S \subseteq BlockInputs(tip)
    /\ sigmaMintedPubCoins' = Touched(IndexWithout(tip), Visits(GroupsWithout(tip), S))
    /\ AddSpendsToMempool(R)
    /\ mempool' = (mempool \ BlockTxs(tip)) \cup R
    /\ tip' = Parent[tip]
    /\ UNCHANGED <<vtx, aborted>>

\* An assert of RemoveBlock fails: the process ends.
DisconnectTipAborts ==
    /\ ~aborted
    /\ tip # Genesis
    /\ ~RemoveBlockAsserts(tip)
    /\ aborted' = TRUE
    /\ UNCHANGED <<vtx, tip, indexVars, groupVars, usedCoinSerials, poolVars>>

-----------------------------------------------------------------------------
(* The memory pool and the queries of the wallet.                          *)

AcceptToMemoryPool(t) ==
    /\ ~aborted
    /\ CheckSigmaTransaction(sigmaMintedPubCoins, coinGroups, t)
    /\ InputsAvailable(t, tip)
    /\ CanAddSpendsToMempool(t, usedCoinSerials)
    /\ mempool' = mempool \cup {t}
    /\ AddSpendsToMempool({t})
    /\ sigmaMintedPubCoins' = Touched(sigmaMintedPubCoins, Visits(coinGroups, SpendsOf[t]))
    /\ UNCHANGED <<vtx, tip, sigmaSpentSerials, groupVars, usedCoinSerials, aborted>>

\* AcceptToMemoryPool refuses t, for any reason, after checking the inputs S.
RejectTransaction(t, S) ==
    /\ ~aborted
    /\ S \subseteq SpendsOf[t]
    /\ sigmaMintedPubCoins' = Touched(sigmaMintedPubCoins, Visits(coinGroups, S))
    /\ UNCHANGED <<vtx, tip, sigmaSpentSerials, groupVars, usedCoinSerials, poolVars, aborted>>

\* Expiry, eviction, removeForReorg and removal by RPC: transactions leave
\* the pool and mempoolCoinSerials keeps their serials.
RemoveFromMempool(S) ==
    /\ ~aborted
    /\ S # {}
    /\ S \subseteq mempool
    /\ mempool' = mempool \ S
    /\ UNCHANGED <<vtx, tip, indexVars, groupVars, usedCoinSerials, mempoolCoinSerials, aborted>>

\* The wallet reads the coins of a group.
GetCoinSetForSpend(k) ==
    /\ ~aborted
    /\ k \in DOMAIN coinGroups
    /\ sigmaMintedPubCoins' =
          Touched(sigmaMintedPubCoins,
                  Between(coinGroups[k].firstBlock, coinGroups[k].lastBlock) \X {k})
    /\ UNCHANGED <<vtx, tip, sigmaSpentSerials, groupVars, usedCoinSerials, poolVars, aborted>>

-----------------------------------------------------------------------------
Init ==
    /\ vtx \in Worlds
    /\ tip = Genesis
    /\ sigmaMintedPubCoins = [b \in Blocks |-> EmptyMap]
    /\ sigmaSpentSerials = [b \in Blocks |-> {}]
    /\ coinGroups = EmptyMap
    /\ mintedPubCoins = EmptyMap
    /\ latestCoinIds = [d \in Denoms |-> 0]
    /\ usedCoinSerials = {}
    /\ mempoolCoinSerials = EmptyMap
    /\ mempool = {}
    /\ aborted = FALSE

Next ==
    \/ \E b \in Blocks : ConnectTip(b)
    \/ \E b \in Blocks : \E done \in SUBSET BlockSerials(b) : ConnectBlockSigmaFails(b, done)
    \/ \E b \in Blocks : \E S \in SUBSET BlockInputs(b) : RejectBlock(b, S)
    \/ \E R \in SUBSET BlockTxs(tip), S \in SUBSET BlockInputs(tip) : DisconnectTip(R, S)
    \/ DisconnectTipAborts
    \/ \E t \in Txs : AcceptToMemoryPool(t)
    \/ \E t \in Txs : \E S \in SUBSET SpendsOf[t] : RejectTransaction(t, S)
    \/ \E S \in SUBSET mempool : RemoveFromMempool(S)
    \/ \E k \in DOMAIN coinGroups : GetCoinSetForSpend(k)

Spec == Init /\ [][Next]_vars

-----------------------------------------------------------------------------
(* Correctness.                                                            *)

ActiveBlocks == Below(tip)
ActiveSpent == UNION {BlockSerials(b) : b \in ActiveBlocks}

\* The maps have the types CSigmaState and CBlockIndex declare for them.
TypeOK ==
    /\ vtx \in Worlds
    /\ tip \in Blocks
    /\ IsIndex(sigmaMintedPubCoins)
    /\ sigmaSpentSerials \in [Blocks -> SUBSET Coins]
    /\ IsMap(coinGroups, Keys, GroupInfo)
    /\ IsMap(mintedPubCoins, Coins, MintedCoinInfo)
    /\ latestCoinIds \in [Denoms -> Int]
    /\ usedCoinSerials \in SUBSET Coins
    /\ IsMap(mempoolCoinSerials, Coins, Txs)
    /\ mempool \in SUBSET Txs
    /\ aborted \in BOOLEAN

\* No serial is spent in two blocks of the active chain, whatever blocks were
\* connected, refused, disconnected and connected again before
\* (CheckSigmaSpendSerial, ConnectBlockSigma, RemoveBlock).
NoSerialInTwoBlocks ==
    \A b, c \in ActiveBlocks : b # c => BlockSerials(b) \cap BlockSerials(c) = {}

\* Every coin spent on the active chain was minted with the denomination it is
\* spent with, in an earlier block of the same chain: a reorganisation takes a
\* spend away together with its mint (CheckSigmaSpendTransaction).
SpentWasMintedBefore ==
    \A b \in ActiveBlocks : \A i \in BlockInputs(b) :
        \E c \in Below(Parent[b]) : \E o \in BlockMints(c) :
            Value[o] = i.serial /\ Denom[o] = i.denom

\* Every spend in the pool has all its serials registered under its own hash,
\* and no registered serial is spent on the active chain: no two transactions
\* of the pool spend one coin, and none spends a coin the chain has spent
\* (AcceptToMemoryPool, ConnectBlock, DisconnectTip).
MempoolSpendsAreExclusive ==
    /\ \A t \in mempool : \A s \in SerialsOf(t) :
          s \in DOMAIN mempoolCoinSerials /\ mempoolCoinSerials[s] = t
    /\ DOMAIN mempoolCoinSerials \cap ActiveSpent = {}

\* The index of a block of the active chain describes the block: exactly its
\* serials, and for each group coins the block minted in its denomination.
IndexDescribesBlocks ==
    \A b \in ActiveBlocks :
        /\ sigmaSpentSerials[b] = BlockSerials(b)
        /\ \A k \in DOMAIN sigmaMintedPubCoins[b] :
              sigmaMintedPubCoins[b][k] \subseteq MintsIn(b, k[1])

\* Every group lies on the active chain and ends at a block that has an entry
\* for it, so that the walks over a group never leave the chain and that
\* disconnecting its last block always rolls the group back (AddMint,
\* RemoveBlock).
GroupsEndOnChain ==
    \A k \in DOMAIN coinGroups :
        /\ coinGroups[k].lastBlock \in ActiveBlocks
        /\ coinGroups[k].firstBlock \in Below(coinGroups[k].lastBlock)
        /\ k \in DOMAIN sigmaMintedPubCoins[coinGroups[k].lastBlock]

\* The coins of a group on the active chain, and the ids a block mints d in.
ActiveCoins(k) == UNION {Entry(sigmaMintedPubCoins, b, k) : b \in ActiveBlocks}
GroupIdsOf(b, d) == {k[2] : k \in {l \in DOMAIN sigmaMintedPubCoins[b] :
                                    l[1] = d /\ sigmaMintedPubCoins[b][l] # {}}}

\* coinGroups describes the active chain: a group exists iff a block of the
\* chain minted into it, it counts the chain's coins, it starts at the first
\* block with coins and reaches at least the last one, and the groups of a
\* denomination are numbered 1 to latestCoinIds (AddMint, RemoveBlock).
CoinGroupsMatchChain ==
    /\ \A k \in DOMAIN coinGroups :
          /\ coinGroups[k].nCoins = Cardinality(ActiveCoins(k))
          /\ LET minting == {b \in ActiveBlocks : Entry(sigmaMintedPubCoins, b, k) # {}}
             IN  /\ coinGroups[k].firstBlock \in minting
                 /\ minting \subseteq Between(coinGroups[k].firstBlock, coinGroups[k].lastBlock)
          /\ coinGroups[k].lastBlock \in ActiveBlocks
    /\ \A d \in Denoms : {k[2] : k \in {l \in DOMAIN coinGroups : l[1] = d}} = 1..latestCoinIds[d]
    /\ \A b \in ActiveBlocks : DOMAIN sigmaMintedPubCoins[b] \subseteq DOMAIN coinGroups

\* The group a block's mints belong to is a function of the chain below it,
\* not of the blocks that were connected and disconnected on the way: all of
\* a block's mints of one denomination share a group, and it is the group of
\* the previous mint if that held fewer than CoinsPerId coins, else the next.
\* Nodes that reach one tip by different routes agree on every group.
GroupAssignmentIsCanonical ==
    \A b \in ActiveBlocks : \A d \in MintedDenoms(b) :
        LET prev == {c \in Below(Parent[b]) : MintsIn(c, d) # {}}
            held(id) == UNION {Entry(sigmaMintedPubCoins, c, <<d, id>>) : c \in prev}
        IN  /\ UNION {Entry(sigmaMintedPubCoins, b, <<d, id>>) : id \in GroupIdsOf(b, d)}
                  = MintsIn(b, d)
            /\ IF prev = {} THEN GroupIdsOf(b, d) = {1}
               ELSE \A id \in GroupIdsOf(Highest(prev), d) :
                       GroupIdsOf(b, d) =
                          {IF Cardinality(held(id)) < CoinsPerId THEN id ELSE id + 1}

\* No path of the tree mints a commitment twice; no path spends a serial twice.
OneMintPerCoin ==
    \A b \in Blocks : \A c, d \in Below(b) : \A o \in BlockMints(c), p \in BlockMints(d) :
        Value[o] = Value[p] => <<c, o>> = <<d, p>>
OneSpendPerSerial ==
    \A b \in Blocks : \A c, d \in Below(b) :
        c # d => BlockSerials(c) \cap BlockSerials(d) = {}

\* When no commitment is minted twice, mintedPubCoins is exactly the coins of
\* the active chain with their groups and heights, and no assert of
\* RemoveBlock fails.
MintedCoinsMatchChain ==
    OneMintPerCoin =>
        /\ ~aborted
        /\ DOMAIN mintedPubCoins = {Value[o] : o \in UNION {BlockMints(b) : b \in ActiveBlocks}}
        /\ \A b \in ActiveBlocks : \A o \in BlockMints(b) :
              LET info == mintedPubCoins[Value[o]]
              IN  /\ info.nHeight = Height(b)
                  /\ o \in Entry(sigmaMintedPubCoins, b, <<info.denomination, info.id>>)

\* Every serial spent on the active chain is in usedCoinSerials; when no block
\* of the tree spends a serial that its own branch has spent, nothing else is.
UsedSerialsMatchChain ==
    /\ ActiveSpent \subseteq usedCoinSerials
    /\ OneSpendPerSerial => usedCoinSerials = ActiveSpent

\* usedCoinSerials, the "set of all used coin serials", holds no serial that
\* the active chain has not spent: a block is applied to the chain state as a
\* whole or not at all (ConnectBlockSigma does not keep this).
OnlySpentSerialsAreUsed == usedCoinSerials \subseteq ActiveSpent

\* mempoolCoinSerials maps the serials of spends that are currently in the
\* memory pool (removals by CTxMemPool do not keep this).
RegisteredSpendsAreInPool ==
    \A s \in DOMAIN mempoolCoinSerials : mempoolCoinSerials[s] \in mempool

\* No assert of RemoveBlock fails, in particular the one that looks up each of
\* the block's coins in mintedPubCoins (not kept when CheckSigmaMintTransaction
\* lets a commitment be minted again).
NoAssertFails == ~aborted

\* The active chain as a ledger of what its blocks mint and spend, and the
\* claim that the sigma state implements the abstract ledger: connecting a
\* block extends it, disconnecting the tip rolls it back, and every other
\* step, refusals with their side effects included, leaves it alone.
LedgerEntry(b) == [minted |-> {<<Value[o], Denom[o]>> : o \in BlockMints(b)},
                   spent  |-> {<<i.serial, i.denom>> : i \in BlockInputs(b)}]
activeLedger == [n \in 1..Height(tip) |-> LedgerEntry(Path[tip][n])]
Ledger == INSTANCE SigmaLedger WITH ledger <- activeLedger
ImplementsLedger == Ledger!Spec
=============================================================================
