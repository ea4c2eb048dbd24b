----------------------------- MODULE UtxoLedger -----------------------------
(***************************************************************************)
(* What the coins database and its caches promise to the rest of the node: *)
(* the unspent outputs of the active chain, and on disk those of a chain   *)
(* that was active once.                                                   *)
(***************************************************************************)
EXTENDS BlockContent

VARIABLES
    world,              \* the content of the blocks; never changes
    best, utxo,         \* the end of the active chain and its unspent outputs
    saved, savedUtxo    \* the same on disk

ledgerVars == <<world, best, utxo, saved, savedUtxo>>

Init ==
    /\ world \in Worlds
    /\ best = Genesis /\ utxo = Unspent[world][Genesis]
    /\ saved = best /\ savedUtxo = utxo

MoveTo(b) == best' = b /\ utxo' = Unspent[world][b]

Extend(b) ==
    /\ b # Genesis /\ Parent[b] = best /\ Valid[world][b]
    /\ MoveTo(b)
    /\ UNCHANGED <<world, saved, savedUtxo>>

Retract ==
    /\ best # Genesis
    /\ MoveTo(Parent[best])
    /\ UNCHANGED <<world, saved, savedUtxo>>

Save ==
    /\ saved' = best /\ savedUtxo' = utxo
    /\ UNCHANGED <<world, best, utxo>>

Restart ==
    /\ best' = saved /\ utxo' = savedUtxo
    /\ UNCHANGED <<world, saved, savedUtxo>>

Next == (\E b \in Blocks : Extend(b)) \/ Retract \/ Save \/ Restart

Spec == Init /\ [][Next]_ledgerVars
=============================================================================
