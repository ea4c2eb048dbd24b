-------------------------- MODULE SigmaStateProofs --------------------------
(***************************************************************************)
(* Proofs about SigmaState for every block tree, every content of the      *)
(* blocks and every bound: type correctness, the uniqueness of serials     *)
(* over the blocks of the active chain, the precedence of mints over       *)
(* spends, the exclusiveness of the pool's spends and the refinement of    *)
(* SigmaLedger.                                                            *)
(***************************************************************************)
EXTENDS SigmaState, BlockTreeProofs, FiniteSetTheorems, TLAPS

-----------------------------------------------------------------------------
(* The contents of blocks.                                                 *)

\* What a block mints and spends is of the declared types.
LEMMA BlockContents ==
    ASSUME vtx \in Worlds, NEW b \in Blocks
    PROVE  /\ BlockTxs(b) \subseteq Txs
           /\ BlockMints(b) \subseteq Outs
           /\ BlockInputs(b) \subseteq Inputs
           /\ BlockSerials(b) \subseteq Coins
           /\ MintedDenoms(b) \subseteq Denoms
  <1>1. BlockTxs(b) \subseteq Txs
    BY TxAssumption DEF TxAssumption, BlockTxs
  <1>2. BlockMints(b) \subseteq Outs
    BY <1>1, TxAssumption DEF TxAssumption, BlockMints
  <1>3. BlockInputs(b) \subseteq Inputs
    BY <1>1, TxAssumption DEF TxAssumption, BlockInputs
  <1>4. BlockSerials(b) \subseteq Coins
    BY <1>1, TxAssumption DEF TxAssumption, BlockSerials, SerialsOf
  <1>5. MintedDenoms(b) \subseteq Denoms
    BY <1>2, TxAssumption DEF TxAssumption, MintedDenoms
  <1> QED BY <1>1, <1>2, <1>3, <1>4, <1>5

\* The serials of a transaction are commitments.
LEMMA SerialsOfType == \A t \in Txs : SerialsOf(t) \subseteq Coins
  BY TxAssumption DEF TxAssumption, SerialsOf

\* A spend input names a group, a serial and a denomination.
LEMMA InputType == \A i \in Inputs : KeyOf(i) \in Keys /\ i.serial \in Coins /\ i.denom \in Denoms
  BY TxAssumption DEF TxAssumption, KeyOf, Keys

\* The mints of a block in one denomination are finitely many outputs.
LEMMA MintsInType ==
    ASSUME vtx \in Worlds, NEW b \in Blocks, NEW d
    PROVE  MintsIn(b, d) \subseteq Outs /\ Cardinality(MintsIn(b, d)) \in Nat
  <1>1. MintsIn(b, d) \subseteq Outs
    BY BlockContents DEF MintsIn
  <1>2. IsFiniteSet(Outs)
    BY BoundAssumption DEF BoundAssumption
  <1>3. IsFiniteSet(MintsIn(b, d))
    BY <1>1, <1>2, FS_Subset
  <1> QED BY <1>1, <1>3, FS_CardinalityType

\* A set of mint outputs has a number of elements.
LEMMA OutsCardinality == \A S \in SUBSET Outs : Cardinality(S) \in Nat
  <1>1. IsFiniteSet(Outs)
    BY BoundAssumption DEF BoundAssumption
  <1> QED BY <1>1, FS_Subset, FS_CardinalityType

-----------------------------------------------------------------------------
(* The walks over a group, and the entries they leave.                     *)

\* The walk of CheckSigmaSpendTransaction over a group visits blocks.
LEMMA WalkBelow ==
    ASSUME NEW G, NEW i \in Inputs, IsMap(G, Keys, GroupInfo), KeyOf(i) \in DOMAIN G
    PROVE  /\ G[KeyOf(i)].firstBlock \in Blocks
           /\ G[KeyOf(i)].lastBlock \in Blocks
           /\ Walk(G, i) \subseteq Blocks
  <1>1. G[KeyOf(i)] \in GroupInfo
    BY DEF IsMap
  <1>2. /\ G[KeyOf(i)].firstBlock \in Blocks
        /\ G[KeyOf(i)].lastBlock \in Blocks
    BY <1>1 DEF GroupInfo
  <1>3. i.acc \in Blocks
    BY TxAssumption DEF TxAssumption
  <1> QED BY <1>2, <1>3, BetweenBlocks DEF Walk

\* The keys that inputs name are finitely many.
InputKeys == {KeyOf(i) : i \in Inputs}

\* Finitely many groups are named by inputs.
LEMMA InputKeysFinite == InputKeys \subseteq Keys /\ IsFiniteSet(InputKeys)
  <1>1. IsFiniteSet(Inputs)
    BY BoundAssumption DEF BoundAssumption
  <1> DEFINE f == [i \in Inputs |-> KeyOf(i)]
  <1>3. f \in Surjection(Inputs, InputKeys)
    BY DEF InputKeys, Surjection
  <1>2. IsFiniteSet(InputKeys)
    BY <1>1, <1>3, FS_Surjection
  <1> QED BY <1>2, InputType DEF InputKeys

\* Checking inputs visits blocks, for groups that inputs name.
LEMMA VisitsType ==
    ASSUME NEW G, NEW S \in SUBSET Inputs, IsMap(G, Keys, GroupInfo)
    PROVE  Visits(G, S) \subseteq Blocks \X InputKeys
  BY WalkBelow DEF Visits, InputKeys

\* Reading the index with operator[] keeps its type and every entry.
LEMMA TouchedType ==
    ASSUME NEW M, NEW L \in SUBSET Keys, IsFiniteSet(L),
           NEW visits \in SUBSET (Blocks \X L), IsIndex(M)
    PROVE  /\ IsIndex(Touched(M, visits))
           /\ \A b \in Blocks : \A k \in DOMAIN Touched(M, visits)[b] :
                 /\ Touched(M, visits)[b][k] = Entry(M, b, k)
                 /\ k \in Keys
           /\ \A b \in Blocks : DOMAIN M[b] \subseteq DOMAIN Touched(M, visits)[b]
  <1> DEFINE K(b) == DOMAIN M[b] \cup {v[2] : v \in {w \in visits : w[1] = b}}
  <1>1. \A b \in Blocks : Touched(M, visits)[b] = [k \in K(b) |-> Entry(M, b, k)]
    BY DEF Touched
  <1>2. \A b \in Blocks : K(b) \subseteq Keys
    <2>1. \A b \in Blocks : DOMAIN M[b] \subseteq Keys
      BY DEF IsIndex, IsMap
    <2>2. \A v \in visits : v[2] \in Keys
      OBVIOUS
    <2> QED BY <2>1, <2>2
  <1>3. \A b \in Blocks : \A k : Entry(M, b, k) \in SUBSET Outs
    BY DEF Entry, IsIndex, IsMap
  <1>4. \A b \in Blocks : IsMap(Touched(M, visits)[b], Keys, SUBSET Outs)
    <2> SUFFICES ASSUME NEW b \in Blocks
                 PROVE  IsMap(Touched(M, visits)[b], Keys, SUBSET Outs)
      OBVIOUS
    <2> DEFINE f == Touched(M, visits)[b]
    <2>1. f = [k \in K(b) |-> Entry(M, b, k)]
      BY <1>1
    <2>2. DOMAIN f = K(b)
      BY <2>1
    <2>3. f = [k \in DOMAIN f |-> f[k]]
      BY <2>1
    <2>4. \A k \in DOMAIN f : f[k] \in SUBSET Outs
      BY <2>1, <1>3
    <2> QED BY <2>2, <2>3, <2>4, <1>2 DEF IsMap
  <1>5. Touched(M, visits) = [b \in Blocks |-> Touched(M, visits)[b]]
    BY DEF Touched
  <1>6. ASSUME NEW b \in Blocks PROVE IsFiniteSet(DOMAIN Touched(M, visits)[b])
    <2> DEFINE V == {v[2] : v \in {w \in visits : w[1] = b}}
    <2>1. V \subseteq L
      OBVIOUS
    <2>2. IsFiniteSet(V)
      BY <2>1, FS_Subset
    <2>3. IsFiniteSet(DOMAIN M[b])
      BY DEF IsIndex
    <2>4. IsFiniteSet(DOMAIN M[b] \cup V)
      BY <2>2, <2>3, FS_Union
    <2> QED BY <2>4, <1>1
  <1> QED BY <1>1, <1>2, <1>4, <1>5, <1>6 DEF IsIndex


-----------------------------------------------------------------------------
(* Type correctness.                                                       *)

\* AddMint's choice of a group gives a positive id.
LEMMA MintGroupIdType ==
    ASSUME TypeOK, NEW d \in Denoms, NEW b
    PROVE  MintGroupId(d, b) \in Nat \ {0}
  <1>1. latestCoinIds[d] \in Int
    BY DEF TypeOK
  <1> DEFINE id == IF latestCoinIds[d] < 1 THEN 1 ELSE latestCoinIds[d]
  <1>2. id \in Nat \ {0}
    BY <1>1
  <1>3. MintGroupId(d, b) = id \/ MintGroupId(d, b) = id + 1
    BY DEF MintGroupId
  <1> QED BY <1>2, <1>3

\* A block mints into finitely many groups.
LEMMA MintKeysType ==
    ASSUME TypeOK, NEW b \in Blocks
    PROVE  MintKeys(b) \subseteq Keys
  <1>1. MintedDenoms(b) \subseteq Denoms
    BY BlockContents DEF TypeOK
  <1> QED BY <1>1, MintGroupIdType DEF MintKeys, Keys

\* The denomination recorded for a minted commitment is one it is minted in.
LEMMA FirstDenomType ==
    ASSUME TypeOK, NEW b \in Blocks, NEW o \in BlockMints(b)
    PROVE  FirstDenom(b, Value[o]) \in Denoms
  <1> DEFINE ds == {Denom[p] : p \in {q \in BlockMints(b) : Value[q] = Value[o]}}
  <1>1. ds \subseteq Denoms /\ ds # {}
    BY BlockContents, TxAssumption DEF TypeOK, TxAssumption
  <1>2. \E d \in ds : \A e \in ds : d <= e
    BY <1>1, TxAssumption DEF TxAssumption
  <1>3. FirstDenom(b, Value[o]) \in ds
    BY <1>2 DEF FirstDenom
  <1> QED BY <1>1, <1>3

\* A group that received mints is a group info.
LEMMA GroupAfterMintsType ==
    ASSUME TypeOK, NEW b \in Blocks, NEW k
    PROVE  GroupAfterMints(b, k) \in GroupInfo
  <1>1. Cardinality(MintsIn(b, k[1])) \in Nat
    BY MintsInType DEF TypeOK
  <1>2. k \in DOMAIN coinGroups => coinGroups[k] \in GroupInfo
    BY DEF TypeOK, IsMap
  <1> QED BY <1>1, <1>2 DEF GroupAfterMints, GroupInfo

\* Adding a block's mints keeps the types of the three maps.
LEMMA AddMintsType ==
    ASSUME TypeOK, NEW b \in Blocks, AddMints(b)
    PROVE  /\ IsMap(coinGroups', Keys, GroupInfo)
           /\ IsMap(mintedPubCoins', Coins, MintedCoinInfo)
           /\ latestCoinIds' \in [Denoms -> Int]
  <1>1. IsMap(coinGroups', Keys, GroupInfo)
    <2>1. coinGroups' = [k \in DOMAIN coinGroups \cup MintKeys(b) |->
                           IF k \in MintKeys(b) THEN GroupAfterMints(b, k) ELSE coinGroups[k]]
      BY DEF AddMints
    <2>2. DOMAIN coinGroups \cup MintKeys(b) \subseteq Keys
      BY MintKeysType DEF TypeOK, IsMap
    <2>3. \A k \in DOMAIN coinGroups' : coinGroups'[k] \in GroupInfo
      BY <2>1, GroupAfterMintsType DEF TypeOK, IsMap
    <2> QED BY <2>1, <2>2, <2>3 DEF IsMap
  <1>2. IsMap(mintedPubCoins', Coins, MintedCoinInfo)
    <2> DEFINE vs == {Value[o] : o \in BlockMints(b)}
               info(v) == [denomination |-> FirstDenom(b, v),
                           id |-> MintGroupId(FirstDenom(b, v), b),
                           nHeight |-> Height(b)]
    <2>1. mintedPubCoins' = [v \in DOMAIN mintedPubCoins \cup vs |->
                               IF v \in DOMAIN mintedPubCoins THEN mintedPubCoins[v] ELSE info(v)]
      BY DEF AddMints
    <2>2. vs \subseteq Coins
      BY BlockContents, TxAssumption DEF TypeOK, TxAssumption
    <2>3. \A v \in vs : FirstDenom(b, v) \in Denoms
      BY FirstDenomType
    <2>4. Height(b) \in Nat
      BY BelowBlocks
    <2>5. \A v \in vs : info(v) \in MintedCoinInfo
      BY <2>3, <2>4, MintGroupIdType DEF MintedCoinInfo
    <2>6. \A v \in DOMAIN mintedPubCoins : mintedPubCoins[v] \in MintedCoinInfo
      BY DEF TypeOK, IsMap
    <2>7. \A v \in DOMAIN mintedPubCoins' : mintedPubCoins'[v] \in MintedCoinInfo
      <3> HIDE DEF info, vs
      <3> QED BY <2>1, <2>5, <2>6
    <2>8. DOMAIN mintedPubCoins' \subseteq Coins
      BY <2>1, <2>2 DEF TypeOK, IsMap
    <2> QED BY <2>1, <2>7, <2>8 DEF IsMap
  <1>3. latestCoinIds' \in [Denoms -> Int]
    BY MintGroupIdType DEF AddMints, TypeOK
  <1> QED BY <1>1, <1>2, <1>3

\* The empty map is a map of every type.
LEMMA EmptyMapType ==
    ASSUME NEW D, NEW R
    PROVE  IsMap(EmptyMap, D, R) /\ DOMAIN EmptyMap = {} /\ IsFiniteSet(DOMAIN EmptyMap)
  BY FS_EmptySet DEF IsMap, EmptyMap

\* RemoveBlock, when its asserts hold, leaves well-typed groups, and a group it
\* rolls back ends at an earlier block with an entry for it.
LEMMA WithoutType ==
    ASSUME TypeOK, tip # Genesis, RemoveBlockAsserts(tip)
    PROVE  /\ IsMap(GroupsWithout(tip), Keys, GroupInfo)
           /\ IsIndex(IndexWithout(tip))
           /\ \A k \in DOMAIN GroupsWithout(tip) : k \in DOMAIN sigmaMintedPubCoins[tip] =>
                 /\ GroupsWithout(tip)[k].lastBlock \in WithEntry(k, tip)
                 /\ coinGroups[k].lastBlock = tip
  <1> DEFINE M == sigmaMintedPubCoins[tip]
  <1>1. IsMap(M, Keys, SUBSET Outs) /\ tip \in Blocks /\ Parent[tip] \in Blocks
    BY TreeAssumption DEF TypeOK, IsIndex, TreeAssumption
  <1>2. ASSUME NEW k \in DOMAIN coinGroups \ EmptiedKeys(tip), k \in DOMAIN M
        PROVE  /\ coinGroups[k].nCoins - Cardinality(M[k]) \in Nat
               /\ Highest(WithEntry(k, tip)) \in WithEntry(k, tip)
               /\ Highest(WithEntry(k, tip)) \in Blocks
               /\ coinGroups[k].lastBlock = tip
    <2>1. GroupAsserts(tip, k)
      BY <1>2 DEF RemoveBlockAsserts
    <2>2. coinGroups[k].nCoins \in Nat /\ Cardinality(M[k]) \in Nat
      BY <1>1, <1>2, OutsCardinality DEF TypeOK, IsMap, GroupInfo
    <2>3. coinGroups[k].nCoins - Cardinality(M[k]) \in Nat
      BY <2>1, <2>2 DEF GroupAsserts
    <2>4. Highest(WithEntry(k, tip)) \in WithEntry(k, tip)
      BY <2>1 DEF GroupAsserts, Highest
    <2>5. Highest(WithEntry(k, tip)) \in Blocks
      BY <2>4, <1>1, BelowBlocks DEF WithEntry
    <2> QED BY <2>1, <2>3, <2>4, <2>5 DEF GroupAsserts
  <1>3. \A k \in DOMAIN coinGroups : coinGroups[k] \in GroupInfo /\ k \in Keys
    BY DEF TypeOK, IsMap
  <1>4. \A k \in DOMAIN GroupsWithout(tip) :
           /\ k \in DOMAIN coinGroups \ EmptiedKeys(tip)
           /\ k \notin DOMAIN M => GroupsWithout(tip)[k] = coinGroups[k]
           /\ k \in DOMAIN M => GroupsWithout(tip)[k] =
                  [coinGroups[k] EXCEPT !.nCoins = @ - Cardinality(M[k]),
                                        !.lastBlock = Highest(WithEntry(k, tip))]
    BY DEF GroupsWithout
  <1>5. ASSUME NEW k \in DOMAIN GroupsWithout(tip)
        PROVE  /\ GroupsWithout(tip)[k] \in GroupInfo
               /\ k \in DOMAIN M => /\ GroupsWithout(tip)[k].lastBlock \in WithEntry(k, tip)
                                   /\ coinGroups[k].lastBlock = tip
    <2>1. k \in DOMAIN coinGroups \ EmptiedKeys(tip) /\ coinGroups[k] \in GroupInfo
      BY <1>3, <1>4
    <2>2. CASE k \notin DOMAIN M
      BY <2>1, <2>2, <1>4
    <2>3. CASE k \in DOMAIN M
      <3> DEFINE n == coinGroups[k].nCoins - Cardinality(M[k])
                 l == Highest(WithEntry(k, tip))
      <3>1. n \in Nat /\ l \in WithEntry(k, tip) /\ l \in Blocks /\ coinGroups[k].lastBlock = tip
        BY <1>2, <2>1, <2>3
      <3>2. GroupsWithout(tip)[k] = [coinGroups[k] EXCEPT !.nCoins = n, !.lastBlock = l]
        BY <1>4, <2>3
      <3> HIDE DEF n, l, M
      <3> QED BY <2>1, <3>1, <3>2 DEF GroupInfo
    <2> QED BY <2>2, <2>3
  <1>6. GroupsWithout(tip) = [k \in DOMAIN GroupsWithout(tip) |-> GroupsWithout(tip)[k]]
    BY DEF GroupsWithout
  <1>7. IsMap(GroupsWithout(tip), Keys, GroupInfo)
    BY <1>3, <1>4, <1>5, <1>6 DEF IsMap
  <1>8. IsIndex(IndexWithout(tip))
    <2>1. IsMap(EmptyMap, Keys, SUBSET Outs) /\ IsFiniteSet(DOMAIN EmptyMap)
      BY EmptyMapType
    <2> QED BY <2>1 DEF TypeOK, IsIndex, IndexWithout
  <1>9. \A k \in DOMAIN GroupsWithout(tip) : k \in DOMAIN M =>
           /\ GroupsWithout(tip)[k].lastBlock \in WithEntry(k, tip)
           /\ coinGroups[k].lastBlock = tip
    BY <1>5
  <1> QED BY <1>7, <1>8, <1>9

\* Erasing keys from a map leaves the other keys and their values.
LEMMA RestrictMap ==
    ASSUME NEW f, NEW D, NEW R, NEW S, IsMap(f, D, R)
    PROVE  /\ IsMap(Restrict(f, DOMAIN f \ S), D, R)
           /\ DOMAIN Restrict(f, DOMAIN f \ S) = DOMAIN f \ S
           /\ \A x \in DOMAIN f \ S : Restrict(f, DOMAIN f \ S)[x] = f[x]
  <1>1. Restrict(f, DOMAIN f \ S) = [x \in DOMAIN f \ S |-> f[x]]
    BY DEF Restrict
  <1> QED BY <1>1 DEF IsMap

\* Registering the serials of pool transactions keeps the map's type.
LEMMA AddSpendsType ==
    ASSUME TypeOK, NEW R \in SUBSET Txs, AddSpendsToMempool(R)
    PROVE  /\ IsMap(mempoolCoinSerials', Coins, Txs)
           /\ DOMAIN mempoolCoinSerials' =
                 DOMAIN mempoolCoinSerials \cup UNION {SerialsOf(t) : t \in R}
           /\ \A s \in DOMAIN mempoolCoinSerials : mempoolCoinSerials'[s] = mempoolCoinSerials[s]
           /\ \A s \in DOMAIN mempoolCoinSerials' \ DOMAIN mempoolCoinSerials :
                 mempoolCoinSerials'[s] \in R /\ s \in SerialsOf(mempoolCoinSerials'[s])
  <1> DEFINE D == DOMAIN mempoolCoinSerials \cup UNION {SerialsOf(t) : t \in R}
             owner(s) == CHOOSE t \in R : s \in SerialsOf(t)
  <1>1. mempoolCoinSerials' = [s \in D |-> IF s \in DOMAIN mempoolCoinSerials
                                           THEN mempoolCoinSerials[s] ELSE owner(s)]
    BY DEF AddSpendsToMempool
  <1>2. \A s \in UNION {SerialsOf(t) : t \in R} : owner(s) \in R /\ s \in SerialsOf(owner(s))
    OBVIOUS
  <1>3. D \subseteq Coins
    BY SerialsOfType DEF TypeOK, IsMap
  <1>4. \A s \in DOMAIN mempoolCoinSerials : mempoolCoinSerials[s] \in Txs
    BY DEF TypeOK, IsMap
  <1> HIDE DEF owner
  <1>5. \A s \in D : mempoolCoinSerials'[s] \in Txs
    BY <1>1, <1>2, <1>4
  <1>6. IsMap(mempoolCoinSerials', Coins, Txs)
    BY <1>1, <1>3, <1>5 DEF IsMap
  <1> QED BY <1>1, <1>2, <1>6

\* A step of the walks over groups keeps the index well typed.
LEMMA TouchType ==
    ASSUME TypeOK, NEW S \in SUBSET Inputs
    PROVE  IsIndex(Touched(sigmaMintedPubCoins, Visits(coinGroups, S)))
  BY VisitsType, InputKeysFinite, TouchedType DEF TypeOK

\* The index after ConnectBlockSigma has its type.
LEMMA ConnectedIndexType ==
    ASSUME TypeOK, NEW b \in Blocks
    PROVE  /\ IsIndex(IndexAfterChecks(b))
           /\ IsIndex([IndexAfterChecks(b) EXCEPT ![b] = EmptyMap])
           /\ IsIndex([IndexAfterChecks(b) EXCEPT ![b] = [k \in MintKeys(b) |-> MintsOfKey(b, k)]])
  <1>1. IsIndex(IndexAfterChecks(b))
    BY TouchType, BlockContents DEF IndexAfterChecks, TypeOK
  <1>2. IsMap(EmptyMap, Keys, SUBSET Outs) /\ IsFiniteSet(DOMAIN EmptyMap)
    BY EmptyMapType
  <1> DEFINE m == [k \in MintKeys(b) |-> MintsOfKey(b, k)]
  <1>3. IsMap(m, Keys, SUBSET Outs)
    BY MintKeysType, MintsInType DEF IsMap, TypeOK, MintsOfKey
  <1>4. IsFiniteSet(DOMAIN m)
    <2>1. MintedDenoms(b) \subseteq Denoms
      BY BlockContents DEF TypeOK
    <2>2. IsFiniteSet(MintedDenoms(b))
      BY <2>1, BoundAssumption, FS_Subset DEF BoundAssumption
    <2> DEFINE f == [d \in MintedDenoms(b) |-> <<d, MintGroupId(d, b)>>]
    <2>4. f \in Surjection(MintedDenoms(b), MintKeys(b))
      BY DEF MintKeys, Surjection
    <2>3. IsFiniteSet(MintKeys(b))
      BY <2>2, <2>4, FS_Surjection
    <2> QED BY <2>3
  <1>5. ASSUME NEW x, IsMap(x, Keys, SUBSET Outs), IsFiniteSet(DOMAIN x)
        PROVE  IsIndex([IndexAfterChecks(b) EXCEPT ![b] = x])
    BY <1>1, <1>5 DEF IsIndex
  <1> HIDE DEF m
  <1>6. IsIndex([IndexAfterChecks(b) EXCEPT ![b] = m])
    BY <1>3, <1>4, <1>5
  <1> QED BY <1>1, <1>2, <1>5, <1>6 DEF m

\* Every step keeps the types.
LEMMA TypeStep == TypeOK /\ [Next]_vars => TypeOK'
  <1> SUFFICES ASSUME TypeOK, [Next]_vars PROVE TypeOK'
    OBVIOUS
  <1>1. ASSUME NEW b \in Blocks, ConnectTip(b) PROVE TypeOK'
    <2>1. IsIndex(sigmaMintedPubCoins')
      BY <1>1, ConnectedIndexType DEF ConnectTip, ConnectBlockSigma
    <2>2. /\ IsMap(coinGroups', Keys, GroupInfo)
          /\ IsMap(mintedPubCoins', Coins, MintedCoinInfo)
          /\ latestCoinIds' \in [Denoms -> Int]
      BY <1>1, AddMintsType DEF ConnectTip, ConnectBlockSigma
    <2>3. /\ sigmaSpentSerials' \in [Blocks -> SUBSET Coins]
          /\ usedCoinSerials' \in SUBSET Coins
      BY <1>1, BlockContents DEF ConnectTip, ConnectBlockSigma, TypeOK
    <2>4. IsMap(mempoolCoinSerials', Coins, Txs) /\ mempool' \in SUBSET Txs
      BY <1>1, RestrictMap DEF ConnectTip, RemoveForBlock, TypeOK
    <2>5. vtx' \in Worlds /\ tip' \in Blocks /\ aborted' \in BOOLEAN
      BY <1>1 DEF ConnectTip, TypeOK
    <2> QED BY <2>1, <2>2, <2>3, <2>4, <2>5 DEF TypeOK
  <1>2. ASSUME NEW b \in Blocks, NEW done \in SUBSET BlockSerials(b), ConnectBlockSigmaFails(b, done)
        PROVE  TypeOK'
    <2>1. IsIndex(sigmaMintedPubCoins')
      BY <1>2, ConnectedIndexType DEF ConnectBlockSigmaFails
    <2>2. sigmaSpentSerials' \in [Blocks -> SUBSET Coins] /\ usedCoinSerials' \in SUBSET Coins
      BY <1>2, BlockContents DEF ConnectBlockSigmaFails, TypeOK
    <2> QED BY <1>2, <2>1, <2>2 DEF ConnectBlockSigmaFails, TypeOK, groupVars, poolVars
  <1>3. ASSUME NEW b \in Blocks, NEW S \in SUBSET BlockInputs(b), RejectBlock(b, S) PROVE TypeOK'
    <2>1. IsIndex(sigmaMintedPubCoins')
      BY <1>3, TouchType, BlockContents DEF RejectBlock, TypeOK
    <2> QED BY <1>3, <2>1 DEF RejectBlock, TypeOK, groupVars, poolVars
  <1>4. ASSUME NEW R \in SUBSET BlockTxs(tip), NEW S \in SUBSET BlockInputs(tip), DisconnectTip(R, S)
        PROVE  TypeOK'
    <2>1. /\ IsMap(GroupsWithout(tip), Keys, GroupInfo)
          /\ IsIndex(IndexWithout(tip))
      BY <1>4, WithoutType DEF DisconnectTip
    <2>2. BlockTxs(tip) \subseteq Txs /\ BlockInputs(tip) \subseteq Inputs
      BY BlockContents DEF TypeOK
    <2>3. IsIndex(sigmaMintedPubCoins')
      BY <1>4, <2>1, <2>2, VisitsType, InputKeysFinite, TouchedType DEF DisconnectTip
    <2>4. IsMap(mempoolCoinSerials', Coins, Txs) /\ mempool' \in SUBSET Txs
      BY <1>4, <2>2, AddSpendsType DEF DisconnectTip, TypeOK
    <2>5. IsMap(mintedPubCoins', Coins, MintedCoinInfo)
      BY <1>4, RestrictMap DEF DisconnectTip, RemoveBlock, TypeOK
    <2>6. IsMap(coinGroups', Keys, GroupInfo)
      BY <1>4, <2>1 DEF DisconnectTip, RemoveBlock
    <2>7. latestCoinIds' \in [Denoms -> Int]
      <3>1. \A d \in Denoms : Cardinality({k \in EmptiedKeys(tip) : k[1] = d}) \in Nat
        <4>1. IsFiniteSet(EmptiedKeys(tip))
          BY FS_Subset DEF EmptiedKeys, TypeOK, IsIndex
        <4> QED BY <4>1, FS_Subset, FS_CardinalityType
      <3>2. latestCoinIds' = LatestIdsWithout(tip)
        BY <1>4 DEF DisconnectTip, RemoveBlock
      <3>3. latestCoinIds \in [Denoms -> Int]
        BY DEF TypeOK
      <3> QED BY <3>1, <3>2, <3>3 DEF LatestIdsWithout
    <2>8. sigmaSpentSerials' \in [Blocks -> SUBSET Coins] /\ usedCoinSerials' \in SUBSET Coins
      BY <1>4 DEF DisconnectTip, RemoveBlock, LatestIdsWithout, UsedSerialsWithout, TypeOK
    <2>9. vtx' \in Worlds /\ tip' \in Blocks /\ aborted' \in BOOLEAN
      BY <1>4, TreeAssumption DEF DisconnectTip, TypeOK, TreeAssumption
    <2> QED BY <2>3, <2>4, <2>5, <2>6, <2>7, <2>8, <2>9 DEF TypeOK
  <1>5. ASSUME DisconnectTipAborts PROVE TypeOK'
    BY <1>5 DEF DisconnectTipAborts, TypeOK, indexVars, groupVars, poolVars
  <1>6. ASSUME NEW t \in Txs, AcceptToMemoryPool(t) PROVE TypeOK'
    <2>1. IsIndex(sigmaMintedPubCoins')
      BY <1>6, TouchType, TxAssumption DEF AcceptToMemoryPool, TxAssumption
    <2>2. IsMap(mempoolCoinSerials', Coins, Txs) /\ mempool' \in SUBSET Txs
      BY <1>6, AddSpendsType DEF AcceptToMemoryPool, TypeOK
    <2> QED BY <1>6, <2>1, <2>2 DEF AcceptToMemoryPool, TypeOK, groupVars
  <1>7. ASSUME NEW t \in Txs, NEW S \in SUBSET SpendsOf[t], RejectTransaction(t, S) PROVE TypeOK'
    <2>1. IsIndex(sigmaMintedPubCoins')
      BY <1>7, TouchType, TxAssumption DEF RejectTransaction, TxAssumption
    <2> QED BY <1>7, <2>1 DEF RejectTransaction, TypeOK, groupVars, poolVars
  <1>8. ASSUME NEW S \in SUBSET mempool, RemoveFromMempool(S) PROVE TypeOK'
    BY <1>8 DEF RemoveFromMempool, TypeOK, indexVars, groupVars
  <1>9. ASSUME NEW k \in DOMAIN coinGroups, GetCoinSetForSpend(k) PROVE TypeOK'
    <2>1. k \in Keys /\ coinGroups[k].firstBlock \in Blocks /\ coinGroups[k].lastBlock \in Blocks
      BY <1>9 DEF TypeOK, IsMap, GroupInfo
    <2>2. Between(coinGroups[k].firstBlock, coinGroups[k].lastBlock) \X {k} \subseteq Blocks \X {k}
      BY <2>1, BetweenBlocks
    <2> DEFINE visits == Between(coinGroups[k].firstBlock, coinGroups[k].lastBlock) \X {k}
    <2>4. {k} \in SUBSET Keys /\ IsFiniteSet({k}) /\ visits \in SUBSET (Blocks \X {k})
      BY <2>1, <2>2, FS_Singleton
    <2>5. IsIndex(sigmaMintedPubCoins)
      BY DEF TypeOK
    <2>6. sigmaMintedPubCoins' = Touched(sigmaMintedPubCoins, visits)
      BY <1>9 DEF GetCoinSetForSpend
    <2> HIDE DEF visits
    <2>3. IsIndex(sigmaMintedPubCoins')
      BY <2>4, <2>5, <2>6, TouchedType
    <2> QED BY <1>9, <2>3 DEF GetCoinSetForSpend, TypeOK, groupVars, poolVars
  <1>10. CASE UNCHANGED vars
    BY <1>10 DEF TypeOK, vars, indexVars, groupVars, poolVars
  <1> QED
    BY <1>1, <1>2, <1>3, <1>4, <1>5, <1>6, <1>7, <1>8, <1>9, <1>10 DEF Next

\* The initial state is well typed.
LEMMA TypeInit == Init => TypeOK
  <1> SUFFICES ASSUME Init PROVE TypeOK
    OBVIOUS
  <1>1. IsIndex(sigmaMintedPubCoins)
    BY EmptyMapType DEF Init, IsIndex
  <1>2. /\ IsMap(coinGroups, Keys, GroupInfo)
        /\ IsMap(mintedPubCoins, Coins, MintedCoinInfo)
        /\ IsMap(mempoolCoinSerials, Coins, Txs)
    BY EmptyMapType DEF Init
  <1>3. vtx \in Worlds /\ tip \in Blocks
    BY TreeAssumption DEF Init, TreeAssumption
  <1>4. /\ sigmaSpentSerials \in [Blocks -> SUBSET Coins]
        /\ latestCoinIds \in [Denoms -> Int]
        /\ usedCoinSerials \in SUBSET Coins
        /\ mempool \in SUBSET Txs
    BY DEF Init
  <1>5. aborted \in BOOLEAN
    BY DEF Init
  <1> QED BY <1>1, <1>2, <1>3, <1>4, <1>5 DEF TypeOK

\* The sigma state, the block index and the pool are well typed in every
\* reachable state, for every block tree and every content of its blocks.
THEOREM TypeCorrect == Spec => []TypeOK
  BY TypeInit, TypeStep, PTL DEF Spec

-----------------------------------------------------------------------------
(* The inductive invariant of spends.  The uniqueness of serials rests on  *)
(* usedCoinSerials holding every serial of the chain, which RemoveBlock    *)
(* can keep only if the index of a block holds the block's serials; the    *)
(* precedence of mints rests on the walks staying on the chain.            *)

ActiveSerialsAreUsed == ActiveSpent \subseteq usedCoinSerials

SpendInv ==
    /\ TypeOK
    /\ IndexDescribesBlocks
    /\ GroupsEndOnChain
    /\ ActiveSerialsAreUsed
    /\ NoSerialInTwoBlocks
    /\ SpentWasMintedBefore
    /\ MempoolSpendsAreExclusive

\* The content of a block never changes.
LEMMA ContentsStay ==
    ASSUME vtx' = vtx
    PROVE  /\ \A b : BlockTxs(b)' = BlockTxs(b)
           /\ \A b : BlockMints(b)' = BlockMints(b)
           /\ \A b : BlockInputs(b)' = BlockInputs(b)
           /\ \A b : BlockSerials(b)' = BlockSerials(b)
           /\ \A b, d : MintsIn(b, d)' = MintsIn(b, d)
  BY DEF BlockTxs, BlockMints, BlockInputs, BlockSerials, MintsIn

\* What the index has to say after a step, in terms of the block contents,
\* which the step leaves alone.
LEMMA IndexDescribesAfter ==
    ASSUME vtx' = vtx,
           \A b \in ActiveBlocks' :
               /\ sigmaSpentSerials'[b] = BlockSerials(b)
               /\ \A k \in DOMAIN sigmaMintedPubCoins'[b] :
                     sigmaMintedPubCoins'[b][k] \subseteq MintsIn(b, k[1])
    PROVE  IndexDescribesBlocks'
  <1>1. \A b : BlockSerials(b)' = BlockSerials(b)
    BY ContentsStay
  <1>2. \A b, d : MintsIn(b, d)' = MintsIn(b, d)
    BY ContentsStay
  <1> QED BY <1>1, <1>2 DEF IndexDescribesBlocks

\* The same for the serials of the chain,
LEMMA SerialsApartAfter ==
    ASSUME vtx' = vtx,
           \A b, c \in ActiveBlocks' : b # c => BlockSerials(b) \cap BlockSerials(c) = {}
    PROVE  NoSerialInTwoBlocks'
  <1>1. \A b : BlockSerials(b)' = BlockSerials(b)
    BY ContentsStay
  <1> QED BY <1>1 DEF NoSerialInTwoBlocks

\* and for the mints its spends refer to.
LEMMA SpentMintedAfter ==
    ASSUME vtx' = vtx,
           \A b \in ActiveBlocks' : \A i \in BlockInputs(b) :
               \E c \in Below(Parent[b]) : \E o \in BlockMints(c) :
                   Value[o] = i.serial /\ Denom[o] = i.denom
    PROVE  SpentWasMintedBefore'
  <1>1. \A b : BlockInputs(b)' = BlockInputs(b)
    BY ContentsStay
  <1>2. \A b : BlockMints(b)' = BlockMints(b)
    BY ContentsStay
  <1> QED BY <1>1, <1>2, BelowStays DEF SpentWasMintedBefore

\* Registering serials that the chain does not spend, on a chain that spends
\* no more than before, keeps the serials of the pool off the chain.
LEMMA PoolStaysOffChain ==
    ASSUME MempoolSpendsAreExclusive, ActiveSpent' \subseteq ActiveSpent, NEW R,
           DOMAIN mempoolCoinSerials' =
               DOMAIN mempoolCoinSerials \cup UNION {SerialsOf(t) : t \in R},
           \A t \in R : SerialsOf(t) \cap ActiveSpent' = {}
    PROVE  DOMAIN mempoolCoinSerials' \cap ActiveSpent' = {}
  <1>1. DOMAIN mempoolCoinSerials \cap ActiveSpent = {}
    BY DEF MempoolSpendsAreExclusive
  <1> SUFFICES ASSUME NEW s \in DOMAIN mempoolCoinSerials', s \in ActiveSpent' PROVE FALSE
    OBVIOUS
  <1>2. CASE s \in DOMAIN mempoolCoinSerials
    BY <1>1, <1>2
  <1>3. CASE \E t \in R : s \in SerialsOf(t)
    BY <1>3
  <1> QED BY <1>2, <1>3

\* A walk over a group of the active chain visits blocks of the active chain.
LEMMA WalkActive ==
    ASSUME TypeOK, GroupsEndOnChain, NEW i \in Inputs, KeyOf(i) \in DOMAIN coinGroups
    PROVE  Walk(coinGroups, i) \subseteq ActiveBlocks
  <1> DEFINE g == coinGroups[KeyOf(i)]
  <1>1. tip \in Blocks /\ g.firstBlock \in Blocks /\ g.lastBlock \in Blocks
    BY WalkBelow DEF TypeOK
  <1>2. g.lastBlock \in Below(tip) /\ g.firstBlock \in Below(g.lastBlock)
    BY DEF GroupsEndOnChain, ActiveBlocks
  <1>3. Below(g.lastBlock) \subseteq Below(tip)
    BY <1>1, <1>2, BelowTransitive
  <1>4. ASSUME NEW c \in Below(g.lastBlock) PROVE Between(g.firstBlock, c) \subseteq Below(tip)
    <2>1. c \in Below(tip) /\ c \in Blocks
      BY <1>1, <1>3, BelowBlocks
    <2> QED BY <2>1, <1>1, BelowTransitive DEF Between
  <1>5. Between(g.firstBlock, g.lastBlock) \subseteq Below(g.lastBlock)
    BY <1>1, BetweenBlocks
  <1> QED BY <1>2, <1>4, <1>5 DEF Walk, ActiveBlocks

\* An input that passes the checks spends a coin that the active chain minted
\* with the input's denomination.
LEMMA CheckedInputWasMinted ==
    ASSUME TypeOK, GroupsEndOnChain, IndexDescribesBlocks,
           NEW t \in Txs, CheckSigmaTransaction(sigmaMintedPubCoins, coinGroups, t),
           NEW i \in SpendsOf[t]
    PROVE  \E c \in ActiveBlocks : \E o \in BlockMints(c) :
               Value[o] = i.serial /\ Denom[o] = i.denom
  <1>1. i \in Inputs
    BY TxAssumption DEF TxAssumption
  <1>2. KeyOf(i) \in DOMAIN coinGroups
    BY DEF CheckSigmaTransaction
  <1>3. PICK o \in AnonymitySet(sigmaMintedPubCoins, coinGroups, i) : Value[o] = i.serial
    BY DEF CheckSigmaTransaction, Verify
  <1>4. PICK c \in Walk(coinGroups, i) : o \in Entry(sigmaMintedPubCoins, c, KeyOf(i))
    BY <1>3 DEF AnonymitySet
  <1>5. c \in ActiveBlocks
    BY <1>1, <1>2, <1>4, WalkActive
  <1>6. KeyOf(i)[1] = i.denom
    BY DEF KeyOf
  <1>7. o \in MintsIn(c, i.denom)
    BY <1>4, <1>5, <1>6 DEF Entry, IndexDescribesBlocks
  <1> QED BY <1>3, <1>5, <1>7 DEF MintsIn

\* A step that only leaves empty entries in the index disturbs neither what
\* the index says of the active chain nor the groups.
IndexOnlyTouched ==
    /\ \A b \in ActiveBlocks :
          /\ DOMAIN sigmaMintedPubCoins[b] \subseteq DOMAIN sigmaMintedPubCoins'[b]
          /\ \A k \in DOMAIN sigmaMintedPubCoins'[b] :
                sigmaMintedPubCoins'[b][k] = Entry(sigmaMintedPubCoins, b, k)
    /\ \A b \in ActiveBlocks : sigmaSpentSerials'[b] = sigmaSpentSerials[b]
    /\ coinGroups' = coinGroups
    /\ vtx' = vtx /\ tip' = tip

\* Such a step keeps both index invariants.
LEMMA TouchKeeps ==
    ASSUME TypeOK, IndexDescribesBlocks, GroupsEndOnChain, IndexOnlyTouched
    PROVE  IndexDescribesBlocks' /\ GroupsEndOnChain'
  <1>1. ActiveBlocks' = ActiveBlocks
    BY DEF IndexOnlyTouched, ActiveBlocks, Below
  <1>2. ASSUME NEW b \in ActiveBlocks
        PROVE  /\ sigmaSpentSerials'[b] = BlockSerials(b)
               /\ \A k \in DOMAIN sigmaMintedPubCoins'[b] :
                     sigmaMintedPubCoins'[b][k] \subseteq MintsIn(b, k[1])
    BY DEF IndexOnlyTouched, IndexDescribesBlocks, Entry
  <1>3. IndexDescribesBlocks'
    <2>1. vtx' = vtx
      BY DEF IndexOnlyTouched
    <2> QED BY <1>1, <1>2, <2>1, IndexDescribesAfter
  <1>4. GroupsEndOnChain'
    BY <1>1, BelowStays DEF GroupsEndOnChain, IndexOnlyTouched
  <1> QED BY <1>3, <1>4

\* A step after which the chain, its serials and the spends of the pool are
\* what they were, or fewer spends are in the pool.
LEMMA ChainKept ==
    ASSUME ActiveSerialsAreUsed, NoSerialInTwoBlocks, SpentWasMintedBefore,
           vtx' = vtx, tip' = tip, usedCoinSerials \subseteq usedCoinSerials'
    PROVE  /\ ActiveSpent' = ActiveSpent
           /\ ActiveSerialsAreUsed'
           /\ NoSerialInTwoBlocks'
           /\ SpentWasMintedBefore'
  <1>1. ActiveBlocks' = ActiveBlocks
    BY DEF ActiveBlocks, Below
  <1>2. ActiveSpent' = ActiveSpent
    BY <1>1, ContentsStay DEF ActiveSpent
  <1>3. ActiveSerialsAreUsed'
    BY <1>2 DEF ActiveSerialsAreUsed
  <1>4. NoSerialInTwoBlocks'
    <2>1. \A b, c \in ActiveBlocks : b # c => BlockSerials(b) \cap BlockSerials(c) = {}
      BY DEF NoSerialInTwoBlocks
    <2> QED BY <1>1, <2>1, SerialsApartAfter
  <1>5. SpentWasMintedBefore'
    <2>1. \A b \in ActiveBlocks : \A i \in BlockInputs(b) :
             \E c \in Below(Parent[b]) : \E o \in BlockMints(c) :
                 Value[o] = i.serial /\ Denom[o] = i.denom
      BY DEF SpentWasMintedBefore
    <2> QED BY <1>1, <2>1, SpentMintedAfter
  <1> QED BY <1>2, <1>3, <1>4, <1>5

\* Transactions that leave the pool cannot make its spends conflict.
LEMMA PoolKept ==
    ASSUME MempoolSpendsAreExclusive, ActiveSpent' = ActiveSpent,
           mempool' \subseteq mempool, mempoolCoinSerials' = mempoolCoinSerials
    PROVE  MempoolSpendsAreExclusive'
  BY DEF MempoolSpendsAreExclusive, SerialsOf

\* Registering the serials of accepted transactions R: each is registered
\* under its own transaction and nothing registered before changes.
LEMMA AddSpendsRegisters ==
    ASSUME NEW R, AddSpendsToMempool(R),
           \A t \in R : SerialsOf(t) \cap DOMAIN mempoolCoinSerials = {},
           \A t, u \in R : t # u => SerialsOf(t) \cap SerialsOf(u) = {}
    PROVE  /\ DOMAIN mempoolCoinSerials' =
                 DOMAIN mempoolCoinSerials \cup UNION {SerialsOf(t) : t \in R}
           /\ \A s \in DOMAIN mempoolCoinSerials :
                 mempoolCoinSerials'[s] = mempoolCoinSerials[s]
           /\ \A t \in R : \A s \in SerialsOf(t) : mempoolCoinSerials'[s] = t
  <1> DEFINE D == DOMAIN mempoolCoinSerials \cup UNION {SerialsOf(t) : t \in R}
             f(s) == IF s \in DOMAIN mempoolCoinSerials THEN mempoolCoinSerials[s]
                     ELSE CHOOSE t \in R : s \in SerialsOf(t)
  <1>1. mempoolCoinSerials' = [s \in D |-> f(s)]
    BY DEF AddSpendsToMempool
  <1>2. ASSUME NEW t \in R, NEW s \in SerialsOf(t)
        PROVE  s \in D /\ f(s) = t
    <2>1. s \in D /\ s \notin DOMAIN mempoolCoinSerials
      OBVIOUS
    <2>2. f(s) = CHOOSE u \in R : s \in SerialsOf(u)
      BY <2>1
    <2>3. \A u \in R : s \in SerialsOf(u) => u = t
      OBVIOUS
    <2> QED BY <2>1, <2>2, <2>3
  <1>3. \A s \in DOMAIN mempoolCoinSerials : s \in D /\ f(s) = mempoolCoinSerials[s]
    OBVIOUS
  <1> HIDE DEF D, f
  <1>4. DOMAIN mempoolCoinSerials' = D /\ \A s \in D : mempoolCoinSerials'[s] = f(s)
    BY <1>1
  <1> QED BY <1>2, <1>3, <1>4 DEF D

-----------------------------------------------------------------------------
(* The steps.                                                              *)

\* The index after some visits, as IndexOnlyTouched needs it.
LEMMA TouchedIndex ==
    ASSUME TypeOK, NEW L \in SUBSET Keys, IsFiniteSet(L),
           NEW visits \in SUBSET (Blocks \X L),
           NEW b \in ActiveBlocks
    PROVE  /\ DOMAIN sigmaMintedPubCoins[b] \subseteq
                 DOMAIN Touched(sigmaMintedPubCoins, visits)[b]
           /\ \A k \in DOMAIN Touched(sigmaMintedPubCoins, visits)[b] :
                 Touched(sigmaMintedPubCoins, visits)[b][k] = Entry(sigmaMintedPubCoins, b, k)
  BY TouchedType, BelowBlocks DEF TypeOK, ActiveBlocks

\* Checking inputs, which touches the index, keeps both index invariants.
LEMMA TouchStep ==
    ASSUME SpendInv, NEW S \in SUBSET Inputs,
           sigmaMintedPubCoins' = Touched(sigmaMintedPubCoins, Visits(coinGroups, S)),
           UNCHANGED <<vtx, tip, sigmaSpentSerials, coinGroups>>
    PROVE  IndexDescribesBlocks' /\ GroupsEndOnChain'
  <1>0. TypeOK
    BY DEF SpendInv
  <1>1. Visits(coinGroups, S) \in SUBSET (Blocks \X InputKeys)
    BY <1>0, VisitsType DEF TypeOK
  <1>2. InputKeys \in SUBSET Keys /\ IsFiniteSet(InputKeys)
    BY InputKeysFinite
  <1>3. ASSUME NEW b \in ActiveBlocks
        PROVE  /\ DOMAIN sigmaMintedPubCoins[b] \subseteq DOMAIN sigmaMintedPubCoins'[b]
               /\ \A k \in DOMAIN sigmaMintedPubCoins'[b] :
                     sigmaMintedPubCoins'[b][k] = Entry(sigmaMintedPubCoins, b, k)
    <2> DEFINE V == Visits(coinGroups, S)
    <2>1. V \in SUBSET (Blocks \X InputKeys) /\ sigmaMintedPubCoins' = Touched(sigmaMintedPubCoins, V)
      BY <1>1
    <2> HIDE DEF V
    <2> QED BY <2>1, <1>0, <1>2, TouchedIndex
  <1>4. IndexOnlyTouched
    BY <1>3 DEF IndexOnlyTouched
  <1> QED BY <1>4, TouchKeeps DEF SpendInv

\* The index after the checks of a block's inputs.
LEMMA ChecksOnlyTouch ==
    ASSUME TypeOK, NEW b \in Blocks
    PROVE  /\ IsIndex(IndexAfterChecks(b))
           /\ \A c \in ActiveBlocks :
                 /\ DOMAIN sigmaMintedPubCoins[c] \subseteq DOMAIN IndexAfterChecks(b)[c]
                 /\ \A k \in DOMAIN IndexAfterChecks(b)[c] :
                       IndexAfterChecks(b)[c][k] = Entry(sigmaMintedPubCoins, c, k)
  <1> DEFINE V == Visits(coinGroups, BlockInputs(b))
  <1>1. V \in SUBSET (Blocks \X InputKeys)
    BY VisitsType, BlockContents DEF TypeOK
  <1>2. IndexAfterChecks(b) = Touched(sigmaMintedPubCoins, V)
    BY DEF IndexAfterChecks
  <1>3. InputKeys \in SUBSET Keys /\ IsFiniteSet(InputKeys)
    BY InputKeysFinite
  <1>4. IsIndex(sigmaMintedPubCoins)
    BY DEF TypeOK
  <1> HIDE DEF V
  <1>5. IsIndex(Touched(sigmaMintedPubCoins, V))
    BY <1>1, <1>3, <1>4, TouchedType
  <1>6. ASSUME NEW c \in ActiveBlocks
        PROVE  /\ DOMAIN sigmaMintedPubCoins[c] \subseteq DOMAIN Touched(sigmaMintedPubCoins, V)[c]
               /\ \A k \in DOMAIN Touched(sigmaMintedPubCoins, V)[c] :
                     Touched(sigmaMintedPubCoins, V)[c][k] = Entry(sigmaMintedPubCoins, c, k)
    BY <1>1, <1>3, TouchedIndex
  <1> QED BY <1>2, <1>5, <1>6

\* A group that received mints of b ends at b and starts where it started.
LEMMA GroupAfterMintsEnds ==
    ASSUME NEW b, NEW k
    PROVE  /\ GroupAfterMints(b, k).lastBlock = b
           /\ \/ GroupAfterMints(b, k).firstBlock = b
              \/ /\ k \in DOMAIN coinGroups
                 /\ GroupAfterMints(b, k).firstBlock = coinGroups[k].firstBlock
  BY DEF GroupAfterMints

\* Connecting a block keeps the invariant.
LEMMA ConnectTipSpend ==
    ASSUME SpendInv, NEW b \in Blocks, ConnectTip(b)
    PROVE  /\ IndexDescribesBlocks' /\ GroupsEndOnChain' /\ ActiveSerialsAreUsed'
           /\ NoSerialInTwoBlocks' /\ SpentWasMintedBefore' /\ MempoolSpendsAreExclusive'
  <1> USE DEF SpendInv
  <1>1. b \in Blocks \ {Genesis} /\ Parent[b] = tip /\ tip' = b /\ vtx' = vtx /\ tip \in Blocks
    BY DEF ConnectTip, TypeOK
  <1>2. Below(b) = ActiveBlocks \cup {b} /\ b \notin ActiveBlocks
    BY <1>1, BelowStep DEF ActiveBlocks
  <1>3. ActiveBlocks' = ActiveBlocks \cup {b}
    BY <1>1, <1>2 DEF ActiveBlocks, Below
  <1>4. ActiveSpent' = ActiveSpent \cup BlockSerials(b)
    BY <1>1, <1>3, ContentsStay DEF ActiveSpent
  <1>5. BlockSerials(b) \cap usedCoinSerials = {}
    BY DEF ConnectTip, ConnectBlockSigma, NoUsedSerial
  <1>6. usedCoinSerials' = usedCoinSerials \cup BlockSerials(b)
    BY DEF ConnectTip, ConnectBlockSigma
  <1>7. ActiveSerialsAreUsed'
    BY <1>4, <1>6 DEF ActiveSerialsAreUsed
  <1>8. NoSerialInTwoBlocks'
    <2>1. \A c \in ActiveBlocks : BlockSerials(c) \cap BlockSerials(b) = {}
      BY <1>5 DEF ActiveSerialsAreUsed, ActiveSpent
    <2>2. \A c, d \in ActiveBlocks : c # d => BlockSerials(c) \cap BlockSerials(d) = {}
      BY DEF NoSerialInTwoBlocks
    <2>3. \A c, d \in ActiveBlocks \cup {b} : c # d => BlockSerials(c) \cap BlockSerials(d) = {}
      BY <2>1, <2>2
    <2> QED BY <2>3, <1>1, <1>3, SerialsApartAfter
  <1>9. SpentWasMintedBefore'
    <2>1. ASSUME NEW i \in BlockInputs(b)
          PROVE  \E c \in Below(Parent[b]) : \E o \in BlockMints(c) :
                     Value[o] = i.serial /\ Denom[o] = i.denom
      <3>1. PICK n \in 1..Len(vtx[b]) : i \in SpendsOf[vtx[b][n]]
        BY DEF BlockInputs, BlockTxs
      <3>2. vtx[b][n] \in Txs
        BY BlockContents DEF TypeOK, BlockTxs
      <3>3. CheckSigmaTransaction(sigmaMintedPubCoins, coinGroups, vtx[b][n])
        BY DEF ConnectTip, CheckTransactions
      <3> QED BY <3>1, <3>2, <3>3, <1>1, CheckedInputWasMinted DEF ActiveBlocks
    <2> SUFFICES ASSUME NEW d \in ActiveBlocks \cup {b}, NEW i \in BlockInputs(d)
                 PROVE  \E c \in Below(Parent[d]) : \E o \in BlockMints(c) :
                            Value[o] = i.serial /\ Denom[o] = i.denom
      BY <1>1, <1>3, SpentMintedAfter
    <2>2. CASE d = b
      BY <2>1, <2>2
    <2>3. CASE d \in ActiveBlocks
      BY <2>3 DEF SpentWasMintedBefore
    <2> QED BY <2>2, <2>3
  <1>10. MempoolSpendsAreExclusive'
    <2>1. /\ DOMAIN mempoolCoinSerials' = DOMAIN mempoolCoinSerials \ BlockSerials(b)
          /\ \A s \in DOMAIN mempoolCoinSerials' : mempoolCoinSerials'[s] = mempoolCoinSerials[s]
      BY DEF ConnectTip, RemoveForBlock, Restrict
    <2>2. ASSUME NEW t \in mempool', NEW s \in SerialsOf(t)
          PROVE  s \in DOMAIN mempoolCoinSerials' /\ mempoolCoinSerials'[s] = t
      <3>1. /\ t \in mempool
            /\ t \notin {mempoolCoinSerials[x] : x \in DOMAIN mempoolCoinSerials \cap BlockSerials(b)}
        BY DEF ConnectTip, RemoveForBlock
      <3>2. s \in DOMAIN mempoolCoinSerials /\ mempoolCoinSerials[s] = t
        BY <3>1 DEF MempoolSpendsAreExclusive
      <3> QED BY <2>1, <3>1, <3>2
    <2>3. DOMAIN mempoolCoinSerials' \cap ActiveSpent' = {}
      BY <2>1, <1>4 DEF MempoolSpendsAreExclusive
    <2> QED BY <2>2, <2>3 DEF MempoolSpendsAreExclusive, SerialsOf
  <1>11. IndexDescribesBlocks' /\ GroupsEndOnChain'
    <2> DEFINE M == IndexAfterChecks(b)
               m == [k \in MintKeys(b) |-> MintsOfKey(b, k)]
    <2>2. \A c \in ActiveBlocks :
             /\ DOMAIN sigmaMintedPubCoins[c] \subseteq DOMAIN M[c]
             /\ \A k \in DOMAIN M[c] : M[c][k] = Entry(sigmaMintedPubCoins, c, k)
      BY ChecksOnlyTouch
    <2>3. IsIndex(M)
      BY ChecksOnlyTouch
    <2>4. sigmaMintedPubCoins' = [M EXCEPT ![b] = m]
      BY DEF ConnectTip, ConnectBlockSigma
    <2>5. m = [k \in MintKeys(b) |-> MintsIn(b, k[1])]
      BY DEF MintsOfKey
    <2>6. sigmaSpentSerials' = [sigmaSpentSerials EXCEPT ![b] = BlockSerials(b)]
      BY DEF ConnectTip, ConnectBlockSigma
    <2>7. DOMAIN coinGroups' = DOMAIN coinGroups \cup MintKeys(b)
      BY DEF ConnectTip, ConnectBlockSigma, AddMints
    <2>8. \A k \in MintKeys(b) : coinGroups'[k] = GroupAfterMints(b, k)
      BY DEF ConnectTip, ConnectBlockSigma, AddMints
    <2>9. \A k \in DOMAIN coinGroups \ MintKeys(b) : coinGroups'[k] = coinGroups[k]
      BY DEF ConnectTip, ConnectBlockSigma, AddMints
    <2> HIDE DEF M, m
    <2>10. sigmaMintedPubCoins'[b] = m /\ \A c \in ActiveBlocks : sigmaMintedPubCoins'[c] = M[c]
      BY <1>2, <2>3, <2>4, <1>1, BelowBlocks DEF IsIndex, ActiveBlocks
    <2>11. /\ sigmaSpentSerials'[b] = BlockSerials(b)
           /\ \A c \in ActiveBlocks : sigmaSpentSerials'[c] = sigmaSpentSerials[c]
      BY <1>1, <1>2, <2>6, BelowBlocks DEF TypeOK, ActiveBlocks
    <2>12. IndexDescribesBlocks'
      <3> SUFFICES ASSUME NEW c \in ActiveBlocks \cup {b}
                   PROVE  /\ sigmaSpentSerials'[c] = BlockSerials(c)
                          /\ \A k \in DOMAIN sigmaMintedPubCoins'[c] :
                                sigmaMintedPubCoins'[c][k] \subseteq MintsIn(c, k[1])
        BY <1>1, <1>3, IndexDescribesAfter
      <3>1. CASE c = b
        BY <3>1, <2>5, <2>10, <2>11
      <3>2. CASE c \in ActiveBlocks
        <4>1. /\ sigmaSpentSerials[c] = BlockSerials(c)
              /\ \A k \in DOMAIN sigmaMintedPubCoins[c] :
                    sigmaMintedPubCoins[c][k] \subseteq MintsIn(c, k[1])
          BY <3>2 DEF IndexDescribesBlocks
        <4>2. \A k : Entry(sigmaMintedPubCoins, c, k) \subseteq MintsIn(c, k[1])
          BY <4>1 DEF Entry
        <4>3. sigmaMintedPubCoins'[c] = M[c] /\ sigmaSpentSerials'[c] = sigmaSpentSerials[c]
          BY <3>2, <2>10, <2>11
        <4>4. \A k \in DOMAIN M[c] : M[c][k] = Entry(sigmaMintedPubCoins, c, k)
          BY <3>2, <2>2
        <4>5. \A k \in DOMAIN M[c] : M[c][k] \subseteq MintsIn(c, k[1])
          BY <4>2, <4>4
        <4> QED BY <4>1, <4>3, <4>5
      <3> QED BY <3>1, <3>2
    <2>13. GroupsEndOnChain'
      <3> SUFFICES ASSUME NEW k \in DOMAIN coinGroups'
                   PROVE  /\ coinGroups'[k].lastBlock \in ActiveBlocks \cup {b}
                          /\ coinGroups'[k].firstBlock \in Below(coinGroups'[k].lastBlock)
                          /\ k \in DOMAIN sigmaMintedPubCoins'[coinGroups'[k].lastBlock]
        BY <1>3, BelowStays DEF GroupsEndOnChain
      <3>1. CASE k \in MintKeys(b)
        <4>0. coinGroups'[k] = GroupAfterMints(b, k)
          BY <3>1, <2>8
        <4>1. coinGroups'[k].lastBlock = b
          BY <4>0, GroupAfterMintsEnds
        <4>2. \/ coinGroups'[k].firstBlock = b
              \/ k \in DOMAIN coinGroups /\ coinGroups'[k].firstBlock = coinGroups[k].firstBlock
          BY <4>0, GroupAfterMintsEnds
        <4>3. k \in DOMAIN coinGroups => coinGroups[k].firstBlock \in ActiveBlocks
          BY <1>1, BelowTransitive DEF GroupsEndOnChain, ActiveBlocks
        <4> QED BY <3>1, <4>1, <4>2, <4>3, <1>2, <2>5, <2>10
      <3>2. CASE k \in DOMAIN coinGroups \ MintKeys(b)
        BY <3>2, <2>2, <2>9, <2>10 DEF GroupsEndOnChain
      <3> QED BY <2>7, <3>1, <3>2
    <2> QED BY <2>12, <2>13
  <1> QED BY <1>7, <1>8, <1>9, <1>10, <1>11

\* Disconnecting the tip keeps the invariant.
LEMMA DisconnectTipSpend ==
    ASSUME SpendInv, NEW R \in SUBSET BlockTxs(tip), NEW S \in SUBSET BlockInputs(tip),
           DisconnectTip(R, S)
    PROVE  /\ IndexDescribesBlocks' /\ GroupsEndOnChain' /\ ActiveSerialsAreUsed'
           /\ NoSerialInTwoBlocks' /\ SpentWasMintedBefore' /\ MempoolSpendsAreExclusive'
  <1> USE DEF SpendInv
  <1>1. tip \in Blocks \ {Genesis} /\ tip' = Parent[tip] /\ vtx' = vtx
    BY DEF DisconnectTip, TypeOK
  <1>2. /\ ActiveBlocks' = Below(Parent[tip])
        /\ ActiveBlocks = Below(Parent[tip]) \cup {tip}
        /\ tip \notin Below(Parent[tip])
        /\ Parent[tip] \in Blocks
    <2>1. ActiveBlocks' = Below(Parent[tip])
      BY <1>1 DEF ActiveBlocks, Below
    <2> QED BY <1>1, <2>1, BelowStep DEF ActiveBlocks
  <1>3. ActiveSpent' = UNION {BlockSerials(c) : c \in Below(Parent[tip])}
    BY <1>1, <1>2, ContentsStay DEF ActiveSpent
  <1>4. usedCoinSerials' = usedCoinSerials \ BlockSerials(tip)
    BY <1>2 DEF DisconnectTip, RemoveBlock, UsedSerialsWithout, IndexDescribesBlocks
  <1>5. ActiveSpent' \subseteq usedCoinSerials'
    <2>1. \A c \in Below(Parent[tip]) : BlockSerials(c) \cap BlockSerials(tip) = {}
      BY <1>2 DEF NoSerialInTwoBlocks
    <2> QED BY <1>2, <1>3, <1>4, <2>1 DEF ActiveSerialsAreUsed, ActiveSpent
  <1>6. NoSerialInTwoBlocks'
    <2>1. \A c, d \in ActiveBlocks : c # d => BlockSerials(c) \cap BlockSerials(d) = {}
      BY DEF NoSerialInTwoBlocks
    <2>2. \A c, d \in Below(Parent[tip]) : c # d => BlockSerials(c) \cap BlockSerials(d) = {}
      BY <1>2, <2>1
    <2> QED BY <1>1, <1>2, <2>2, SerialsApartAfter
  <1>7. SpentWasMintedBefore'
    <2> SUFFICES ASSUME NEW d \in Below(Parent[tip]), NEW i \in BlockInputs(d)
                 PROVE  \E c \in Below(Parent[d]) : \E o \in BlockMints(c) :
                            Value[o] = i.serial /\ Denom[o] = i.denom
      BY <1>1, <1>2, SpentMintedAfter
    <2> QED BY <1>2 DEF SpentWasMintedBefore
  <1>8. MempoolSpendsAreExclusive'
    <2>1. /\ AddSpendsToMempool(R)
          /\ \A t \in R : SerialsOf(t) \cap DOMAIN mempoolCoinSerials = {}
          /\ \A t, u \in R : t # u => SerialsOf(t) \cap SerialsOf(u) = {}
      BY DEF DisconnectTip, Resurrected, CanAddSpendsToMempool
    <2>2. /\ DOMAIN mempoolCoinSerials' =
                 DOMAIN mempoolCoinSerials \cup UNION {SerialsOf(t) : t \in R}
          /\ \A s \in DOMAIN mempoolCoinSerials :
                 mempoolCoinSerials'[s] = mempoolCoinSerials[s]
          /\ \A t \in R : \A s \in SerialsOf(t) : mempoolCoinSerials'[s] = t
      BY <2>1, AddSpendsRegisters
    <2>3. \A t \in mempool' : t \in mempool \/ t \in R
      BY DEF DisconnectTip
    <2>4. \A t \in mempool' : \A s \in SerialsOf(t) :
             s \in DOMAIN mempoolCoinSerials' /\ mempoolCoinSerials'[s] = t
      BY <2>2, <2>3 DEF MempoolSpendsAreExclusive
    <2>5. \A t \in R : SerialsOf(t) \cap usedCoinSerials' = {}
      BY DEF DisconnectTip, Resurrected, CanAddSpendsToMempool, RemoveBlock, UsedSerialsWithout
    <2>6. ActiveSpent' \subseteq ActiveSpent
      BY <1>2, <1>3 DEF ActiveSpent
    <2>7. DOMAIN mempoolCoinSerials' \cap ActiveSpent' = {}
      <3>1. \A t \in R : SerialsOf(t) \cap ActiveSpent' = {}
        BY <2>5, <1>5
      <3> QED BY <2>2, <2>6, <3>1, PoolStaysOffChain
    <2> QED BY <2>4, <2>7 DEF MempoolSpendsAreExclusive, SerialsOf
  <1>9. IndexDescribesBlocks' /\ GroupsEndOnChain'
    <2> DEFINE M == Touched(IndexWithout(tip), Visits(GroupsWithout(tip), S))
    <2>1. /\ IsMap(GroupsWithout(tip), Keys, GroupInfo)
          /\ IsIndex(IndexWithout(tip))
      BY <1>1, WithoutType DEF DisconnectTip
    <2>2. Visits(GroupsWithout(tip), S) \in SUBSET (Blocks \X InputKeys)
      BY <2>1, VisitsType, BlockContents DEF TypeOK
    <2>3. \A c \in Below(Parent[tip]) :
             c \in Blocks /\ IndexWithout(tip)[c] = sigmaMintedPubCoins[c]
      BY <1>2, BelowBlocks DEF IndexWithout, TypeOK, IsIndex
    <2>4. \A c \in Below(Parent[tip]) :
             /\ DOMAIN sigmaMintedPubCoins[c] \subseteq DOMAIN M[c]
             /\ \A k \in DOMAIN M[c] : M[c][k] = Entry(sigmaMintedPubCoins, c, k)
      <3> DEFINE W == IndexWithout(tip)
                 V == Visits(GroupsWithout(tip), S)
      <3>1. /\ \A c \in Blocks : \A k \in DOMAIN Touched(W, V)[c] :
                  Touched(W, V)[c][k] = Entry(W, c, k)
            /\ \A c \in Blocks : DOMAIN W[c] \subseteq DOMAIN Touched(W, V)[c]
        <4> HIDE DEF W, V
        <4>1. IsIndex(W) /\ V \in SUBSET (Blocks \X InputKeys)
          BY <2>1, <2>2 DEF W, V
        <4>2. InputKeys \in SUBSET Keys /\ IsFiniteSet(InputKeys)
          BY InputKeysFinite
        <4> QED BY <4>1, <4>2, TouchedType
      <3>2. \A c \in Below(Parent[tip]) : \A k : Entry(W, c, k) = Entry(sigmaMintedPubCoins, c, k)
        BY <2>3 DEF Entry
      <3> HIDE DEF W, V
      <3>3. M = Touched(W, V)
        BY DEF W, V
      <3>4. \A c \in Below(Parent[tip]) : c \in Blocks /\ W[c] = sigmaMintedPubCoins[c]
        BY <2>3 DEF W
      <3> HIDE DEF M
      <3> QED BY <3>1, <3>2, <3>3, <3>4
    <2>5. sigmaMintedPubCoins' = M
      BY DEF DisconnectTip
    <2>6. \A c \in Below(Parent[tip]) : sigmaSpentSerials'[c] = sigmaSpentSerials[c]
      BY <1>2, BelowBlocks DEF DisconnectTip, RemoveBlock, TypeOK
    <2>7. coinGroups' = GroupsWithout(tip)
      BY DEF DisconnectTip, RemoveBlock
    <2> HIDE DEF M
    <2>8. IndexDescribesBlocks'
      <3> SUFFICES ASSUME NEW c \in Below(Parent[tip])
                   PROVE  /\ sigmaSpentSerials'[c] = BlockSerials(c)
                          /\ \A k \in DOMAIN M[c] : M[c][k] \subseteq MintsIn(c, k[1])
        BY <1>1, <1>2, <2>5, IndexDescribesAfter
      <3>1. /\ sigmaSpentSerials[c] = BlockSerials(c)
            /\ \A k \in DOMAIN sigmaMintedPubCoins[c] :
                  sigmaMintedPubCoins[c][k] \subseteq MintsIn(c, k[1])
        BY <1>2 DEF IndexDescribesBlocks
      <3>2. \A k : Entry(sigmaMintedPubCoins, c, k) \subseteq MintsIn(c, k[1])
        BY <3>1 DEF Entry
      <3> QED BY <2>4, <2>6, <3>1, <3>2
    <2>9. GroupsEndOnChain'
      <3> SUFFICES ASSUME NEW k \in DOMAIN GroupsWithout(tip)
                   PROVE  LET g == GroupsWithout(tip)[k]
                          IN  /\ g.lastBlock \in Below(Parent[tip])
                              /\ g.firstBlock \in Below(g.lastBlock)
                              /\ k \in DOMAIN M[g.lastBlock]
        BY <1>2, <2>5, <2>7, BelowStays DEF GroupsEndOnChain
      <3>1. k \in DOMAIN coinGroups /\ k \notin EmptiedKeys(tip)
        BY DEF GroupsWithout
      <3>2. CASE k \notin DOMAIN sigmaMintedPubCoins[tip]
        <4>1. GroupsWithout(tip)[k] = coinGroups[k]
          BY <3>1, <3>2 DEF GroupsWithout
        <4>2. coinGroups[k].lastBlock # tip
          BY <3>1, <3>2 DEF GroupsEndOnChain
        <4> QED BY <3>1, <4>1, <4>2, <1>2, <2>4 DEF GroupsEndOnChain
      <3>3. CASE k \in DOMAIN sigmaMintedPubCoins[tip]
        <4> DEFINE h == Highest(WithEntry(k, tip))
        <4>1. PICK c \in WithEntry(k, tip) : /\ WithEntry(k, tip) \subseteq Below(c)
                                             /\ coinGroups[k].firstBlock \in Below(c)
          BY <3>1, <3>3 DEF DisconnectTip, RemoveBlockAsserts, GroupAsserts
        <4>2. h \in WithEntry(k, tip) /\ WithEntry(k, tip) \subseteq Below(h)
          BY <4>1 DEF Highest
        <4>3. h \in Blocks /\ c \in Below(h)
          BY <1>2, <4>1, <4>2, BelowBlocks DEF WithEntry
        <4>4. coinGroups[k].firstBlock \in Below(h)
          BY <4>1, <4>3, BelowTransitive
        <4>5. coinGroups[k] \in GroupInfo
          BY <3>1 DEF TypeOK, IsMap
        <4>6. /\ GroupsWithout(tip)[k].lastBlock = h
              /\ GroupsWithout(tip)[k].firstBlock = coinGroups[k].firstBlock
          BY <3>1, <3>3, <4>5 DEF GroupsWithout, GroupInfo
        <4>7. h \in Below(Parent[tip]) /\ k \in DOMAIN sigmaMintedPubCoins[h]
          BY <4>2 DEF WithEntry
        <4> HIDE DEF h
        <4> QED BY <4>4, <4>6, <4>7, <2>4
      <3> QED BY <3>2, <3>3
    <2> QED BY <2>8, <2>9
  <1> QED BY <1>5, <1>6, <1>7, <1>8, <1>9 DEF ActiveSerialsAreUsed

\* A block refused by ConnectBlockSigma half way keeps the invariant: the
\* serials it leaves behind are only additional used ones.
LEMMA ConnectBlockSigmaFailsSpend ==
    ASSUME SpendInv, NEW b \in Blocks, NEW done, ConnectBlockSigmaFails(b, done)
    PROVE  IndexDescribesBlocks' /\ GroupsEndOnChain'
  <1> USE DEF SpendInv
  <1>1. b \in Blocks \ {Genesis} /\ Parent[b] = tip
    BY DEF ConnectBlockSigmaFails
  <1>2. b \notin ActiveBlocks /\ ActiveBlocks \subseteq Blocks
    BY <1>1, BelowStep, BelowBlocks DEF ActiveBlocks, TypeOK
  <1>4. \A c \in ActiveBlocks :
           /\ DOMAIN sigmaMintedPubCoins[c] \subseteq DOMAIN IndexAfterChecks(b)[c]
           /\ \A k \in DOMAIN IndexAfterChecks(b)[c] :
                 IndexAfterChecks(b)[c][k] = Entry(sigmaMintedPubCoins, c, k)
    BY ChecksOnlyTouch
  <1>5. IsIndex(IndexAfterChecks(b))
    BY ChecksOnlyTouch
  <1>6. \A c \in ActiveBlocks : sigmaMintedPubCoins'[c] = IndexAfterChecks(b)[c]
    BY <1>2, <1>5 DEF ConnectBlockSigmaFails, IsIndex
  <1>7. \A c \in ActiveBlocks : sigmaSpentSerials'[c] = sigmaSpentSerials[c]
    BY <1>2 DEF ConnectBlockSigmaFails, TypeOK
  <1>8. IndexOnlyTouched
    BY <1>4, <1>6, <1>7 DEF IndexOnlyTouched, ConnectBlockSigmaFails, groupVars
  <1> QED BY <1>8, TouchKeeps

\* Accepting a transaction into the pool keeps the invariant.
LEMMA AcceptToMemoryPoolSpend ==
    ASSUME SpendInv, NEW t \in Txs, AcceptToMemoryPool(t), ActiveSpent' = ActiveSpent
    PROVE  MempoolSpendsAreExclusive'
  <1> USE DEF SpendInv
  <1>1. /\ AddSpendsToMempool({t})
        /\ SerialsOf(t) \cap usedCoinSerials = {}
        /\ \A u \in {t} : SerialsOf(u) \cap DOMAIN mempoolCoinSerials = {}
        /\ \A u, v \in {t} : u # v => SerialsOf(u) \cap SerialsOf(v) = {}
    BY DEF AcceptToMemoryPool, CanAddSpendsToMempool
  <1>2. /\ DOMAIN mempoolCoinSerials' =
               DOMAIN mempoolCoinSerials \cup UNION {SerialsOf(u) : u \in {t}}
        /\ \A s \in DOMAIN mempoolCoinSerials : mempoolCoinSerials'[s] = mempoolCoinSerials[s]
        /\ \A u \in {t} : \A s \in SerialsOf(u) : mempoolCoinSerials'[s] = u
    BY <1>1, AddSpendsRegisters
  <1>3. \A u \in mempool' : u \in mempool \/ u = t
    BY DEF AcceptToMemoryPool
  <1>4. \A u \in mempool' : \A s \in SerialsOf(u) :
           s \in DOMAIN mempoolCoinSerials' /\ mempoolCoinSerials'[s] = u
    BY <1>2, <1>3 DEF MempoolSpendsAreExclusive
  <1>5. DOMAIN mempoolCoinSerials' \cap ActiveSpent' = {}
    <2> DEFINE R == {t}
    <2>1. \A u \in R : SerialsOf(u) \cap ActiveSpent' = {}
      BY <1>1 DEF ActiveSerialsAreUsed
    <2>2. DOMAIN mempoolCoinSerials' =
             DOMAIN mempoolCoinSerials \cup UNION {SerialsOf(u) : u \in R}
      BY <1>2
    <2>3. ActiveSpent' \subseteq ActiveSpent
      OBVIOUS
    <2> HIDE DEF R
    <2> QED BY <2>1, <2>2, <2>3, PoolStaysOffChain
  <1> QED BY <1>4, <1>5 DEF MempoolSpendsAreExclusive, SerialsOf

\* One step of the node keeps the invariant of spends.
LEMMA SpendStep == SpendInv /\ [Next]_vars => SpendInv'
  <1> SUFFICES ASSUME SpendInv, [Next]_vars PROVE SpendInv'
    OBVIOUS
  <1> USE DEF SpendInv
  <1>0. TypeOK'
    BY TypeStep
  <1>1. ASSUME NEW b \in Blocks, ConnectTip(b) PROVE SpendInv'
    BY <1>0, <1>1, ConnectTipSpend
  <1>2. ASSUME NEW b \in Blocks, NEW done \in SUBSET BlockSerials(b),
               ConnectBlockSigmaFails(b, done)
        PROVE  SpendInv'
    <2>1. IndexDescribesBlocks' /\ GroupsEndOnChain'
      BY <1>2, ConnectBlockSigmaFailsSpend
    <2>2. /\ vtx' = vtx /\ tip' = tip /\ usedCoinSerials \subseteq usedCoinSerials'
          /\ mempool' = mempool /\ mempoolCoinSerials' = mempoolCoinSerials
      BY <1>2 DEF ConnectBlockSigmaFails, poolVars
    <2> QED BY <1>0, <2>1, <2>2, ChainKept, PoolKept
  <1>3. ASSUME NEW b \in Blocks, NEW S \in SUBSET BlockInputs(b), RejectBlock(b, S)
        PROVE  SpendInv'
    <2>1. S \in SUBSET Inputs
      BY BlockContents DEF TypeOK
    <2>2. /\ vtx' = vtx /\ tip' = tip /\ usedCoinSerials' = usedCoinSerials
          /\ mempool' = mempool /\ mempoolCoinSerials' = mempoolCoinSerials
          /\ sigmaSpentSerials' = sigmaSpentSerials /\ coinGroups' = coinGroups
          /\ sigmaMintedPubCoins' = Touched(sigmaMintedPubCoins, Visits(coinGroups, S))
      BY <1>3 DEF RejectBlock, poolVars, groupVars
    <2>3. IndexDescribesBlocks' /\ GroupsEndOnChain'
      BY <2>1, <2>2, TouchStep
    <2> QED BY <1>0, <2>2, <2>3, ChainKept, PoolKept
  <1>4. ASSUME NEW R \in SUBSET BlockTxs(tip), NEW S \in SUBSET BlockInputs(tip),
               DisconnectTip(R, S)
        PROVE  SpendInv'
    BY <1>0, <1>4, DisconnectTipSpend
  <1>5. ASSUME NEW t \in Txs, AcceptToMemoryPool(t) PROVE SpendInv'
    <2>1. SpendsOf[t] \in SUBSET Inputs
      BY TxAssumption DEF TxAssumption
    <2>2. /\ vtx' = vtx /\ tip' = tip /\ usedCoinSerials' = usedCoinSerials
          /\ sigmaSpentSerials' = sigmaSpentSerials /\ coinGroups' = coinGroups
          /\ sigmaMintedPubCoins' = Touched(sigmaMintedPubCoins, Visits(coinGroups, SpendsOf[t]))
      BY <1>5 DEF AcceptToMemoryPool, groupVars
    <2>3. IndexDescribesBlocks' /\ GroupsEndOnChain'
      BY <2>1, <2>2, TouchStep
    <2>4. /\ ActiveSpent' = ActiveSpent /\ ActiveSerialsAreUsed'
          /\ NoSerialInTwoBlocks' /\ SpentWasMintedBefore'
      BY <2>2, ChainKept
    <2>5. MempoolSpendsAreExclusive'
      BY <1>5, <2>4, AcceptToMemoryPoolSpend
    <2> QED BY <1>0, <2>3, <2>4, <2>5
  <1>6. ASSUME NEW t \in Txs, NEW S \in SUBSET SpendsOf[t], RejectTransaction(t, S)
        PROVE  SpendInv'
    <2>1. S \in SUBSET Inputs
      BY TxAssumption DEF TxAssumption
    <2>2. /\ vtx' = vtx /\ tip' = tip /\ usedCoinSerials' = usedCoinSerials
          /\ mempool' = mempool /\ mempoolCoinSerials' = mempoolCoinSerials
          /\ sigmaSpentSerials' = sigmaSpentSerials /\ coinGroups' = coinGroups
          /\ sigmaMintedPubCoins' = Touched(sigmaMintedPubCoins, Visits(coinGroups, S))
      BY <1>6 DEF RejectTransaction, poolVars, groupVars
    <2>3. IndexDescribesBlocks' /\ GroupsEndOnChain'
      BY <2>1, <2>2, TouchStep
    <2> QED BY <1>0, <2>2, <2>3, ChainKept, PoolKept
  <1>7. ASSUME NEW k \in DOMAIN coinGroups, GetCoinSetForSpend(k) PROVE SpendInv'
    <2> DEFINE visits == Between(coinGroups[k].firstBlock, coinGroups[k].lastBlock) \X {k}
    <2>1. k \in Keys /\ coinGroups[k].firstBlock \in Blocks /\ coinGroups[k].lastBlock \in Blocks
      BY DEF TypeOK, IsMap, GroupInfo
    <2>2. {k} \in SUBSET Keys /\ IsFiniteSet({k}) /\ visits \in SUBSET (Blocks \X {k})
      BY <2>1, BetweenBlocks, FS_Singleton
    <2>3. /\ vtx' = vtx /\ tip' = tip /\ usedCoinSerials' = usedCoinSerials
          /\ mempool' = mempool /\ mempoolCoinSerials' = mempoolCoinSerials
          /\ sigmaSpentSerials' = sigmaSpentSerials /\ coinGroups' = coinGroups
          /\ sigmaMintedPubCoins' = Touched(sigmaMintedPubCoins, visits)
      BY <1>7 DEF GetCoinSetForSpend, poolVars, groupVars
    <2> HIDE DEF visits
    <2>4. IndexOnlyTouched
      BY <2>2, <2>3, TouchedIndex DEF IndexOnlyTouched
    <2>5. IndexDescribesBlocks' /\ GroupsEndOnChain'
      BY <2>4, TouchKeeps
    <2> QED BY <1>0, <2>3, <2>5, ChainKept, PoolKept
  <1>8. ASSUME \/ DisconnectTipAborts
               \/ \E S \in SUBSET mempool : RemoveFromMempool(S)
               \/ UNCHANGED vars
        PROVE  SpendInv'
    <2>1. /\ vtx' = vtx /\ tip' = tip /\ usedCoinSerials' = usedCoinSerials
          /\ mempool' \subseteq mempool /\ mempoolCoinSerials' = mempoolCoinSerials
          /\ sigmaSpentSerials' = sigmaSpentSerials /\ coinGroups' = coinGroups
          /\ sigmaMintedPubCoins' = sigmaMintedPubCoins
      BY <1>8 DEF DisconnectTipAborts, RemoveFromMempool, vars, indexVars, groupVars, poolVars
    <2>2. IndexOnlyTouched
      BY <2>1 DEF IndexOnlyTouched, Entry
    <2>3. IndexDescribesBlocks' /\ GroupsEndOnChain'
      BY <2>2, TouchKeeps
    <2> QED BY <1>0, <2>1, <2>3, ChainKept, PoolKept
  <1> QED
    BY <1>1, <1>2, <1>3, <1>4, <1>5, <1>6, <1>7, <1>8 DEF Next

\* The initial state satisfies the invariant.
LEMMA SpendInit == Init => SpendInv
  <1> SUFFICES ASSUME Init PROVE SpendInv
    OBVIOUS
  <1>1. TypeOK
    BY TypeInit
  <1>2. ActiveBlocks = {} /\ ActiveSpent = {}
    BY BelowGenesis DEF Init, ActiveBlocks, ActiveSpent
  <1>3. DOMAIN coinGroups = {} /\ mempool = {} /\ DOMAIN mempoolCoinSerials = {}
    BY EmptyMapType DEF Init
  <1>4. IndexDescribesBlocks /\ NoSerialInTwoBlocks /\ SpentWasMintedBefore
    BY <1>2 DEF IndexDescribesBlocks, NoSerialInTwoBlocks, SpentWasMintedBefore
  <1>5. GroupsEndOnChain /\ ActiveSerialsAreUsed /\ MempoolSpendsAreExclusive
    BY <1>2, <1>3 DEF GroupsEndOnChain, ActiveSerialsAreUsed, MempoolSpendsAreExclusive
  <1> QED BY <1>1, <1>4, <1>5 DEF SpendInv

\* The invariant holds in every reachable state.
LEMMA SpendInvariant == Spec => []SpendInv
  BY SpendInit, SpendStep, PTL DEF Spec

\* For every block tree and every content of its blocks, no serial is spent in
\* two blocks of the active chain: ConnectBlockSigma's check against
\* usedCoinSerials is enough although RemoveBlock, failed connections and
\* memory pool traffic change that set and the index in between.
THEOREM SerialsAreUnique == Spec => []NoSerialInTwoBlocks
  <1>1. SpendInv => NoSerialInTwoBlocks
    BY DEF SpendInv
  <1> QED BY <1>1, SpendInvariant, PTL

\* Every spend of the active chain spends a coin that an earlier block of the
\* same chain minted with the same denomination (CheckSigmaSpendTransaction).
THEOREM MintsPrecedeSpends == Spec => []SpentWasMintedBefore
  <1>1. SpendInv => SpentWasMintedBefore
    BY DEF SpendInv
  <1> QED BY <1>1, SpendInvariant, PTL

\* No two transactions of the pool spend one coin and none spends a coin that
\* the active chain has spent, through any reorganisation
\* (AcceptToMemoryPool, ConnectBlock's removal of conflicts, DisconnectTip).
THEOREM PoolSpendsAreExclusive == Spec => []MempoolSpendsAreExclusive
  <1>1. SpendInv => MempoolSpendsAreExclusive
    BY DEF SpendInv
  <1> QED BY <1>1, SpendInvariant, PTL

\* The index describes the blocks of the active chain, and the groups lie on
\* the active chain and end at a block with an entry for them: what
\* RemoveBlock relies on to roll the sigma state back.
THEOREM IndexSupportsRollback == Spec => [](IndexDescribesBlocks /\ GroupsEndOnChain)
  <1>1. SpendInv => IndexDescribesBlocks /\ GroupsEndOnChain
    BY DEF SpendInv
  <1> QED BY <1>1, SpendInvariant, PTL
=============================================================================
