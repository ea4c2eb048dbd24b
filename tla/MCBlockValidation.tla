------------------------- MODULE MCBlockValidation -------------------------
(***************************************************************************)
(* Small instances of BlockValidation.  The block a1 funds a transaction   *)
(* of four outputs; above it the worlds have a main branch a2, a3 and a    *)
(* side branch b2.                                                         *)
(***************************************************************************)
EXTENDS BlockValidation, TLC

MCBlocks == {"g", "a1", "a2", "a3", "b2"}
MCParent == [g |-> "g", a1 |-> "g", a2 |-> "a1", a3 |-> "a2", b2 |-> "a1"]
MCPath[b \in MCBlocks] == IF b = "g" THEN << >> ELSE Append(MCPath[MCParent[b]], b)

\* k1 to k4 are coinbases, big one that pays too much.  t1 and t2 are a chain
\* of payments, all takes all of k1, dbl what t1 takes, bad has a script that
\* fails, soon takes a coinbase of its own block.
MCIns == [k1 |-> << >>, k2 |-> << >>, k3 |-> << >>, k4 |-> << >>, big |-> << >>,
          t1 |-> << <<"k1", 0>>, <<"k1", 1>> >>,
          t2 |-> << <<"t1", 0>>, <<"k1", 2>> >>,
          t3 |-> << <<"k1", 3>> >>,
          all |-> << <<"k1", 0>>, <<"k1", 1>>, <<"k1", 2>>, <<"k1", 3>> >>,
          dbl |-> << <<"k1", 1>>, <<"k1", 2>> >>,
          bad |-> << <<"k1", 2>>, <<"k1", 3>> >>,
          soon |-> << <<"k4", 0>> >>]
MCTxids == DOMAIN MCIns
MCOuts == [t \in MCTxids |-> IF t = "k1" THEN 0..3 ELSE {0}]
MCCoinbase == {"k1", "k2", "k3", "k4", "big"}
MCBadScripts == {<<"bad", 2>>}
MCChecks == UNION {{t} \X (1..Len(MCIns[t])) : t \in MCTxids}
MCGood == MCChecks \ MCBadScripts

World(a2, a3, b2) == [g |-> << >>, a1 |-> <<"k1">>, a2 |-> a2, a3 |-> a3, b2 |-> b2]

\* One transaction on both branches; a transaction made and spent in one block
\* and the last output of another; a transaction that comes back once it is
\* spent; and a block invalid for each of the reasons: an output spent twice,
\* a coinbase too young, one that is still unspent, one that pays too much, a
\* script (in a3, and in b2 below the checkpoint, where it counts only in a dry
\* run), and a transaction that appears twice.
MCWorlds ==
    {World(<<"k2", "t1">>, <<"k3", "bad">>, <<"k4", "t1">>),
     World(<<"k2", "t1", "t2">>, <<"k3", "t3">>, <<"k1", "t1">>),
     World(<<"k2", "all">>, <<"k1">>, <<"k4", "soon">>),
     World(<<"big", "t1">>, <<"k3">>, <<"k4", "bad">>),
     World(<<"k2", "t1", "dbl">>, <<"k3">>, <<"k4", "t1", "t1">>)}
=============================================================================
