----------------------------- MODULE BlockTree ------------------------------
(***************************************************************************)
(* The tree of blocks that the node's components share.  A block is a node *)
(* of a fixed tree (its CBlockIndex follows pprev to the genesis block);   *)
(* which of the blocks a node knows is the business of ChainState.         *)
(***************************************************************************)
EXTENDS Integers, Sequences

CONSTANTS
    Blocks, Genesis,    \* CBlockIndex entries; the one whose pprev is NULL
    Parent,             \* CBlockIndex::pprev
    Path                \* the blocks after genesis up to and including a block

\* Path is what CChain::SetTip collects by following pprev.
ASSUME TreeAssumption ==
    /\ Genesis \in Blocks
    /\ Parent \in [Blocks -> Blocks]
    /\ Path \in [Blocks -> Seq(Blocks)]
    /\ Path[Genesis] = << >>
    /\ \A b \in Blocks \ {Genesis} :
          /\ Path[b] = Append(Path[Parent[b]], b)
          /\ \A n \in 1..Len(Path[Parent[b]]) : Path[Parent[b]][n] # b
    /\ \A b \in Blocks : \A n \in 1..Len(Path[b]) :
          /\ Path[b][n] # Genesis
          /\ Path[Path[b][n]] = SubSeq(Path[b], 1, n)

\* The blocks of the chain that ends in b, without and with genesis, and the
\* height of b.
Below(b) == {Path[b][n] : n \in 1..Len(Path[b])}
Chain(b) == {Genesis} \cup Below(b)
Height(b) == Len(Path[b])

\* The blocks visited when pprev is followed from l to f.
Between(f, l) == Below(l) \ Below(Parent[f])

\* The last block of a set of blocks of one chain.
Highest(S) == CHOOSE c \in S : S \subseteq Below(c)
=============================================================================
