---------------------------- MODULE MCChainState ----------------------------
(***************************************************************************)
(* Small instances of ChainState for TLC: two branches of the genesis      *)
(* block, a1, a2, a3 and b1, b2.  The work of the blocks differs so that   *)
(* the better branch changes with every block that arrives.                *)
(***************************************************************************)
EXTENDS ChainState

MCBlocks == {"g", "a1", "a2", "a3", "b1", "b2"}
MCParent == [g |-> "g", a1 |-> "g", a2 |-> "a1", a3 |-> "a2", b1 |-> "g", b2 |-> "b1"]
MCPath[b \in MCBlocks] == IF b = "g" THEN << >> ELSE Append(MCPath[MCParent[b]], b)

\* a1 and b1 tie: the first one to arrive is kept.
TiedWork == [g |-> 0, a1 |-> 1, a2 |-> 2, a3 |-> 4, b1 |-> 1, b2 |-> 3]
\* a1 beats b1, b2 beats a2.
SteepWork == [g |-> 0, a1 |-> 2, a2 |-> 3, a3 |-> 5, b1 |-> 1, b2 |-> 4]

\* The addresses favour the one branch or the other.
MCAddrs == {[g |-> -5, a1 |-> -4, a2 |-> -3, a3 |-> -2, b1 |-> -1, b2 |-> 0],
            [g |-> 0, a1 |-> -1, a2 |-> -2, a3 |-> -3, b1 |-> -4, b2 |-> -5]}

\* With a third branch, which forks above a1 and ties with a2.
ForkBlocks == MCBlocks \cup {"c2"}
ForkParent == [b \in ForkBlocks |-> IF b = "c2" THEN "a1" ELSE MCParent[b]]
ForkPath == [b \in ForkBlocks |-> IF b = "c2" THEN <<"a1", "c2">> ELSE MCPath[b]]
ForkWork == [b \in ForkBlocks |-> IF b = "c2" THEN 2 ELSE TiedWork[b]]
=============================================================================
