---------------------------- MODULE BlockContent ----------------------------
(***************************************************************************)
(* The transactions of the blocks, and what a chain of blocks says of the  *)
(* unspent outputs.  This is a definition and not a computation over the   *)
(* chain: an output is unspent when its transaction was last included at   *)
(* some place and no input after that place names it.                      *)
(***************************************************************************)
EXTENDS BlockTree

CONSTANTS
    Txids, Ins, Outs,   \* transactions; their inputs <<txid, n>>; their outputs
    Coinbase,           \* the coinbase transactions
    Worlds,             \* what the blocks may contain: [Blocks -> Seq(Txids)]
    Checkpointed,       \* blocks below a checkpoint, whose scripts are not run
    BadScripts,         \* the inputs <<txid, position>> whose script check fails
    Overpaying,         \* coinbases that pay more than the block's reward
    CoinbaseMaturity

ASSUME ContentAssumption ==
    /\ Worlds \subseteq [Blocks -> Seq(Txids)]
    /\ Ins \in [Txids -> Seq(Txids \X Nat)]

\* The places of the transactions of a chain, in chain order.
Places(w, b) == UNION {{h} \X (1..Len(w[Path[b][h]])) : h \in 1..Height(b)}
TxAt(w, b, p) == w[Path[b][p[1]]][p[2]]
Precedes(p, q) == p[1] < q[1] \/ (p[1] = q[1] /\ p[2] < q[2])
InsOf(t) == {Ins[t][j] : j \in 1..Len(Ins[t])}

\* The outputs of t that are unspent before place q of the chain of b, with
\* the height of t and whether it is a coinbase.
UnspentBefore(w, b, q, t) ==
    LET P == {p \in Places(w, b) : Precedes(p, q) /\ TxAt(w, b, p) = t}
        last == CHOOSE p \in P : \A o \in P : ~Precedes(p, o)
        Spent(n) == \E p \in Places(w, b) : /\ Precedes(last, p) /\ Precedes(p, q)
                                            /\ <<t, n>> \in InsOf(TxAt(w, b, p))
    IN  IF P = {} \/ \A n \in Outs[t] : Spent(n)
        THEN [outs |-> {}, height |-> 0, cb |-> FALSE]
        ELSE [outs |-> {n \in Outs[t] : ~Spent(n)}, height |-> last[1], cb |-> t \in Coinbase]

Unspent == [w \in Worlds |-> [b \in Blocks |-> [t \in Txids |->
               UnspentBefore(w, b, <<Height(b) + 1, 1>>, t)]]]

\* A block is valid on top of its parent when no transaction of it replaces
\* one with unspent outputs or appears twice, every input names an output
\* that is unspent and mature at its place, the scripts agree, and the
\* coinbase is within the reward.
InputValid(w, b, i, o) ==
    LET k == UnspentBefore(w, b, <<Height(b), i>>, o[1])
    IN  o[2] \in k.outs /\ (k.cb => Height(b) - k.height >= CoinbaseMaturity)
ScriptsAgree(w, b) ==
    \A i \in 1..Len(w[b]) : \A j \in 1..Len(Ins[w[b][i]]) : <<w[b][i], j>> \notin BadScripts
Valid == [w \in Worlds |-> [b \in Blocks \ {Genesis} |->
    /\ \A i \in 1..Len(w[b]) :
          /\ Unspent[w][Parent[b]][w[b][i]].outs = {}
          /\ \A k \in 1..(i - 1) : w[b][k] # w[b][i]
          /\ \A o \in InsOf(w[b][i]) : InputValid(w, b, i, o)
    /\ b \in Checkpointed \/ ScriptsAgree(w, b)
    /\ w[b][1] \notin Overpaying]]
=============================================================================
