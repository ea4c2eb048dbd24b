---------------------------- MODULE MCSigmaState ----------------------------
(***************************************************************************)
(* Small instances of SigmaState for TLC: a tree with a main branch g, a1, *)
(* a2, a3 and a side branch a1, b2, b3; five coins in two denominations.   *)
(***************************************************************************)
EXTENDS SigmaIndex

MCBlocks == {"g", "a1", "a2", "a3", "b2", "b3"}
MCParent == [g |-> "g", a1 |-> "g", a2 |-> "a1", a3 |-> "a2", b2 |-> "a1", b3 |-> "b2"]
MCPath[b \in MCBlocks] == IF b = "g" THEN << >> ELSE Append(MCPath[MCParent[b]], b)

MCCoins == {"c1", "c2", "c3", "c4", "c5"}
MCDenoms == {0, 1}
MCDenomValue == (0 :> 1) @@ (1 :> 5)

\* What each transaction mints.  dup mints c1 again, xdup mints it again in
\* the other denomination, s1m mints with what it spends.
Mints == [m2 |-> {<<"c2", 0>>}, m3 |-> {<<"c3", 0>>}, m4 |-> {<<"c4", 1>>},
          m5 |-> {<<"c5", 0>>}, m15 |-> {<<"c1", 0>>, <<"c5", 0>>},
          m12 |-> {<<"c1", 0>>, <<"c2", 0>>}, m24 |-> {<<"c2", 0>>, <<"c4", 1>>},
          m34 |-> {<<"c3", 0>>, <<"c4", 1>>}, dup |-> {<<"c1", 0>>}, xdup |-> {<<"c1", 1>>},
          s1 |-> {}, s2 |-> {}, s12 |-> {}, s1m |-> {<<"c4", 1>>}, s3 |-> {}]
SpendTxs == {"m12", "m3", "s1", "s2", "s12", "s1m", "s3"}
MCTxs == DOMAIN Mints

\* A mint output is a transaction with one of its mints.
OutsOf(t) == {<<t, m[1], m[2]>> : m \in Mints[t]}
MCMintsOf == [t \in Txs |-> OutsOf(t)]
MCOuts == UNION {OutsOf(t) : t \in DOMAIN Mints}
MCValue == [o \in MCOuts |-> o[2]]
MCDenom == [o \in MCOuts |-> o[3]]

Spend(c, a, S) == [serial |-> c, denom |-> 0, id |-> 1, acc |-> a, anon |-> S]
i1 == Spend("c1", "a1", OutsOf("m12"))
i2 == Spend("c2", "a1", OutsOf("m12"))
\* A proof made on the side branch, where b2 mints c3 into the first group.
i3 == Spend("c3", "b2", OutsOf("m12") \cup OutsOf("m3"))
MCInputs == {i1, i2, i3}
MCSpendsOf == [t \in Txs |-> CASE t \in {"s1", "s1m"} -> {i1}
                                 [] t = "s2"  -> {i2}
                                 [] t = "s12" -> {i1, i2}
                                 [] t = "s3"  -> {i3}
                                 [] OTHER     -> {}]

World(a1, a2, a3, b2, b3) ==
    [g |-> << >>, a1 |-> a1, a2 |-> a2, a3 |-> a3, b2 |-> b2, b3 |-> b3]

\* Worlds about spends: conflicts between the pool, the two branches and
\* blocks that spend again what their own branch has spent.
SpendWorlds ==
    {World(<<"m12">>, a2, a3, b2, b3) :
        a2 \in {<<"s1">>, <<"s1", "m3">>, <<"s1m", "s2">>}, a3 \in {<<"s12">>, <<"s2">>, <<"s3">>},
        b2 \in {<<"s12">>, <<"m3">>}, b3 \in {<<"s3", "s1">>, <<"s1m">>}}

\* Worlds about mints: blocks without mints inside a group's range, groups
\* that fill up, two denominations in one block, coins minted on both
\* branches, and commitments minted twice.
MintWorlds ==
    {World(<<"m15">>, << >>, <<"m24", "m3">>, <<"m3">>, <<"m24">>),
     World(<<"m12">>, <<"m34", "m5">>, <<"s2">>, <<"m4">>, <<"s1", "m3", "m5">>),
     World(<<"m15">>, <<"m4", "xdup">>, <<"m2">>, <<"dup">>, <<"m3">>)}

MCWorlds == SpendWorlds \cup MintWorlds

\* Bound: the transactions that reach the pool are those of the blocks and the
\* ones about spends.
PoolBound == \A t \in mempool \ SpendTxs : \E b \in Blocks : t \in BlockTxs(b)
=============================================================================
