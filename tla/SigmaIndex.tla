----------------------------- MODULE SigmaIndex -----------------------------
(***************************************************************************)
(* The two ways the sigma state is computed: mint by mint while a block    *)
(* is connected (CSigmaState::AddMint) and block by block from the block   *)
(* index when the node starts (BuildSigmaStateFromIndex).  Both are        *)
(* operators on a value st of the CSigmaState fields.                      *)
(***************************************************************************)
EXTENDS SigmaState, SequencesExt

Reset == [coinGroups |-> EmptyMap, mintedPubCoins |-> EmptyMap,
          latestCoinIds |-> [d \in Denoms |-> 0], usedCoinSerials |-> {}]

\* A group of the map, or what operator[] creates in its place.
GroupOf(st, k) ==
    IF k \in DOMAIN st.coinGroups THEN st.coinGroups[k]
    ELSE [firstBlock |-> Genesis, lastBlock |-> Genesis, nCoins |-> 0]

\* unordered_map::insert leaves an existing element alone.
Insert(f, k, v) == [x \in DOMAIN f \cup {k} |-> IF x \in DOMAIN f THEN f[x] ELSE v]

-----------------------------------------------------------------------------
(* AddMint for the mints of a block, one after the other.                  *)

\* Mutant of AddMint: a group is closed as soon as it is full, also within
\* the block that fills it.
AddMintSplitting(st, b, o) ==
    LET d     == Denom[o]
        cur   == IF st.latestCoinIds[d] < 1 THEN 1 ELSE st.latestCoinIds[d]
        g     == GroupOf(st, <<d, cur>>)
        id    == IF g.nCoins < CoinsPerId THEN cur ELSE cur + 1
        group == IF id = cur /\ g.nCoins # 0
                 THEN [g EXCEPT !.nCoins = @ + 1, !.lastBlock = b]
                 ELSE [firstBlock |-> b, lastBlock |-> b, nCoins |-> 1]
    IN  [st EXCEPT !.coinGroups = [k \in DOMAIN @ \cup {<<d, id>>} |->
                                      IF k = <<d, id>> THEN group ELSE @[k]],
                   !.latestCoinIds = [@ EXCEPT ![d] = id]]

AddMint(st, b, o) ==
    LET d     == Denom[o]
        cur   == IF st.latestCoinIds[d] < 1 THEN 1 ELSE st.latestCoinIds[d]
        g     == GroupOf(st, <<d, cur>>)
        fits  == g.nCoins < CoinsPerId \/ g.lastBlock = b
        id    == IF fits THEN cur ELSE cur + 1
        group == IF fits /\ g.nCoins # 0
                 THEN [g EXCEPT !.nCoins = @ + 1, !.lastBlock = b]
                 ELSE [firstBlock |-> b, lastBlock |-> b, nCoins |-> 1]
    IN  [st EXCEPT
            !.coinGroups = [k \in DOMAIN @ \cup {<<d, id>>} |->
                               IF k = <<d, id>> THEN group ELSE @[k]],
            !.latestCoinIds = [@ EXCEPT ![d] = id],
            !.mintedPubCoins =
                Insert(@, Value[o], [denomination |-> d, id |-> id, nHeight |-> Height(b)])]

\* The orders CSigmaTxInfo::Complete can leave the mints of b in: sorted by
\* commitment, whose order is arbitrary here, and by denomination within one.
SortedMints(b) ==
    {s \in SetToSeqs(BlockMints(b)) :
        \A m, n \in DOMAIN s :
            m < n => /\ Value[s[m]] = Value[s[n]] => Denom[s[m]] <= Denom[s[n]]
                     /\ \A j \in m..n : Value[s[m]] = Value[s[n]] => Value[s[j]] = Value[s[m]]}

AddAllMints(st, b, mints) == FoldLeft(LAMBDA acc, o : AddMint(acc, b, o), st, mints)

\* Connecting a block leaves the sigma state that AddMint, called for each of
\* its mints in the sorted order, computes: every order of the commitments
\* gives the same groups, ids and coin infos, and the mints of one block are
\* never split over two groups of a denomination.
AddMintLoopAgrees ==
    [][\A b \in Blocks : tip' = b /\ b # Genesis /\ Parent[b] = tip =>
          \A s \in SortedMints(b) :
              LET st == AddAllMints([coinGroups |-> coinGroups, mintedPubCoins |-> mintedPubCoins,
                                     latestCoinIds |-> latestCoinIds,
                                     usedCoinSerials |-> usedCoinSerials], b, s)
              IN  /\ coinGroups' = st.coinGroups
                  /\ mintedPubCoins' = st.mintedPubCoins
                  /\ latestCoinIds' = st.latestCoinIds]_vars

-----------------------------------------------------------------------------
(* BuildSigmaStateFromIndex: AddBlock for the blocks of the active chain.  *)

\* The order of the keys of sigmaMintedPubCoins, an ordered map.
KeyLeq(k, l) == k[1] < l[1] \/ (k[1] = l[1] /\ k[2] <= l[2])

\* Adds to st what the index holds for b: mints, a map, and spent, a set.
AddBlock(st, b, mints, spent) ==
    LET filled == {k \in DOMAIN mints : mints[k] # {}}
        values(k) == {Value[o] : o \in mints[k]}
        added == UNION {values(k) : k \in filled}
        ids(d) == {k[2] : k \in {l \in DOMAIN mints : l[1] = d}}
        keyOf(v) == CHOOSE k \in filled : /\ v \in values(k)
                                          /\ \A l \in filled : v \in values(l) => KeyLeq(k, l)
    IN  [coinGroups |->
            [k \in DOMAIN st.coinGroups \cup filled |->
                IF k \notin filled THEN st.coinGroups[k]
                ELSE [firstBlock |-> IF k \in DOMAIN st.coinGroups
                                     THEN st.coinGroups[k].firstBlock ELSE b,
                      lastBlock |-> b,
                      nCoins |-> GroupOf(st, k).nCoins + Cardinality(mints[k])]],
         latestCoinIds |-> [d \in Denoms |-> IF ids(d) = {} THEN st.latestCoinIds[d] ELSE Max(ids(d))],
         mintedPubCoins |->
            [v \in DOMAIN st.mintedPubCoins \cup added |->
                IF v \in DOMAIN st.mintedPubCoins THEN st.mintedPubCoins[v]
                ELSE [denomination |-> keyOf(v)[1], id |-> keyOf(v)[2], nHeight |-> Height(b)]],
         usedCoinSerials |-> st.usedCoinSerials \cup spent]

\* Mutant of BuildSigmaStateFromIndex: the loop stops before the tip.
BuildWithoutTip(M, S, b) ==
    FoldLeft(LAMBDA st, c : AddBlock(st, c, M[c], S[c]), Reset, Front(Path[b]))

\* The state built from the index maps M and S for the chain that ends in b.
BuildSigmaStateFromIndex(M, S, b) ==
    FoldLeft(LAMBDA st, c : AddBlock(st, c, M[c], S[c]), Reset, Path[b])

\* A node that rebuilt its state from the index it has in memory would go on
\* from the state it is in: the same groups with the same coins and first
\* blocks, the same coin infos, latest ids and used serials, as long as no
\* branch mints a commitment or spends a serial twice.  Only lastBlock may
\* differ: in memory it may rest on a block with an empty entry.
RebuildAgrees ==
    LET st == BuildSigmaStateFromIndex(sigmaMintedPubCoins, sigmaSpentSerials, tip)
    IN  OneMintPerCoin /\ OneSpendPerSerial =>
            /\ DOMAIN st.coinGroups = DOMAIN coinGroups
            /\ \A k \in DOMAIN coinGroups :
                  /\ [st.coinGroups[k] EXCEPT !.lastBlock = Genesis]
                        = [coinGroups[k] EXCEPT !.lastBlock = Genesis]
                  /\ st.coinGroups[k].lastBlock \in Below(coinGroups[k].lastBlock)
            /\ st.mintedPubCoins = mintedPubCoins
            /\ st.latestCoinIds = latestCoinIds
            /\ st.usedCoinSerials = usedCoinSerials
=============================================================================
