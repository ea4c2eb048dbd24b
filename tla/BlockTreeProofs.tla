--------------------------- MODULE BlockTreeProofs ---------------------------
(***************************************************************************)
(* Facts about the paths of the block tree.                                *)
(***************************************************************************)
EXTENDS BlockTree, WellFoundedInduction, TLAPS

\* No block after genesis lies on the path to genesis.
LEMMA BelowGenesis == Below(Genesis) = {}
  BY TreeAssumption DEF Below, TreeAssumption

\* The path to a block is the path to pprev and the block, which is new.
LEMMA BelowStep ==
    ASSUME NEW b \in Blocks \ {Genesis}
    PROVE  /\ Below(b) = Below(Parent[b]) \cup {b}
           /\ b \notin Below(Parent[b])
           /\ Parent[b] \in Blocks
  <1>1. Parent[b] \in Blocks /\ Path[Parent[b]] \in Seq(Blocks)
    BY TreeAssumption DEF TreeAssumption
  <1>2. Path[b] = Append(Path[Parent[b]], b)
    BY TreeAssumption DEF TreeAssumption
  <1>3. /\ Len(Path[b]) = Len(Path[Parent[b]]) + 1
        /\ Path[b][Len(Path[b])] = b
        /\ \A n \in 1..Len(Path[Parent[b]]) : Path[b][n] = Path[Parent[b]][n]
    BY <1>1, <1>2
  <1>4. b \notin Below(Parent[b])
    BY TreeAssumption, Zenon DEF TreeAssumption, Below
  <1>5. Len(Path[Parent[b]]) \in Nat
    BY <1>1
  <1>6. Below(b) \subseteq Below(Parent[b]) \cup {b}
    BY <1>3, <1>5 DEF Below
  <1>7. Below(Parent[b]) \cup {b} \subseteq Below(b)
    BY <1>3, <1>5 DEF Below
  <1> QED BY <1>1, <1>4, <1>6, <1>7

\* The path to a block below b is part of the path to b.
LEMMA BelowTransitive ==
    ASSUME NEW b \in Blocks, NEW c \in Below(b)
    PROVE  Below(c) \subseteq Below(b)
  <1>1. PICK n \in 1..Len(Path[b]) : c = Path[b][n]
    BY DEF Below
  <1>2. Path[c] = SubSeq(Path[b], 1, n) /\ Path[b] \in Seq(Blocks)
    BY <1>1, TreeAssumption DEF TreeAssumption
  <1>3. /\ Len(Path[c]) = n
        /\ \A m \in 1..n : Path[c][m] = Path[b][m]
        /\ n <= Len(Path[b])
        /\ Len(Path[b]) \in Nat
    BY <1>1, <1>2
  <1>4. \A m \in 1..n : m \in 1..Len(Path[b])
    BY <1>1, <1>3
  <1> QED BY <1>3, <1>4 DEF Below

\* Paths consist of blocks and heights are natural numbers.
LEMMA BelowBlocks == \A b \in Blocks : Below(b) \subseteq Blocks /\ Height(b) \in Nat
  <1> SUFFICES ASSUME NEW b \in Blocks
               PROVE  Below(b) \subseteq Blocks /\ Height(b) \in Nat
    BY Zenon
  <1>1. Path[b] \in Seq(Blocks)
    BY TreeAssumption DEF TreeAssumption
  <1>2. Len(Path[b]) \in Nat /\ \A n \in 1..Len(Path[b]) : Path[b][n] \in Blocks
    BY <1>1
  <1> QED BY <1>2 DEF Below, Height

\* The tree does not change.
LEMMA BelowStays == \A b : Below(b)' = Below(b)
  BY DEF Below

\* The walk from a block down to another stays on the path to the first.
LEMMA BetweenBlocks ==
    ASSUME NEW f \in Blocks, NEW l \in Blocks
    PROVE  Between(f, l) \subseteq Below(l) /\ Between(f, l) \subseteq Blocks
  BY BelowBlocks DEF Between

\* On the path to x, the parent of a block is genesis or on the path as well,
\* and is not x.
LEMMA ParentBelow ==
    ASSUME NEW x \in Blocks, NEW b \in Below(x)
    PROVE  /\ b \in Blocks \ {Genesis} /\ Parent[b] \in Blocks /\ Parent[b] # x
           /\ Parent[b] \in Below(x) \cup {Genesis}
  <1>1. b \in Blocks \ {Genesis}
    BY BelowBlocks, TreeAssumption DEF TreeAssumption, Below
  <1>2. Below(Parent[b]) \cup {b} = Below(b) /\ b \notin Below(Parent[b]) /\ Parent[b] \in Blocks
    BY <1>1, BelowStep
  <1>3. Below(b) \subseteq Below(x)
    BY BelowTransitive
  <1>4. Parent[b] # x
    BY <1>2
  <1>5. CASE Parent[b] # Genesis
    <2>1. Parent[b] \in Below(Parent[b])
      BY <1>2, <1>5, BelowStep
    <2> QED BY <1>1, <1>2, <1>3, <1>4, <2>1
  <1> QED BY <1>1, <1>2, <1>4, <1>5

\* Below x there is a next block on the path to x.
LEMMA NextOnPath ==
    ASSUME NEW x \in Blocks, NEW b \in Below(x) \cup {Genesis}, b # x
    PROVE  Path[x][Height(b) + 1] \in Below(x)
  <1>1. Path[x] \in Seq(Blocks) /\ Len(Path[x]) \in Nat
    BY TreeAssumption DEF TreeAssumption
  <1>2. x # Genesis
    BY BelowGenesis
  <1>3. Path[Parent[x]] \in Seq(Blocks) /\ Path[x] = Append(Path[Parent[x]], x)
    BY <1>2, TreeAssumption DEF TreeAssumption
  <1>4. Len(Path[x]) > 0 /\ Path[x][Len(Path[x])] = x
    BY <1>3
  <1>5. CASE b = Genesis
    <2>1. Height(b) = 0
      BY <1>5, TreeAssumption DEF TreeAssumption, Height
    <2> QED BY <1>1, <1>4, <2>1 DEF Below
  <1>6. CASE b \in Below(x)
    <2>1. PICK n \in 1..Len(Path[x]) : b = Path[x][n]
      BY <1>6 DEF Below
    <2>2. Path[b] = SubSeq(Path[x], 1, n)
      BY <2>1, TreeAssumption DEF TreeAssumption
    <2>3. Height(b) = n
      BY <1>1, <2>1, <2>2 DEF Height
    <2>4. n # Len(Path[x])
      BY <1>4, <2>1
    <2>5. n + 1 \in 1..Len(Path[x])
      BY <1>1, <2>1, <2>4
    <2> QED BY <2>3, <2>5 DEF Below
  <1> QED BY <1>5, <1>6
-----------------------------------------------------------------------------
\* A nonempty set of natural numbers up to n has a greatest element.
LEMMA GreatestBelow ==
    ASSUME NEW n \in Nat, NEW S, S \subseteq 0..n, S # {}
    PROVE  \E m \in S : \A k \in S : k <= m
  <1> DEFINE T == {j \in Nat : n - j \in S}
  <1>1. \A k \in S : k \in Nat /\ n - k \in Nat /\ n - (n - k) = k
    OBVIOUS
  <1>2. T \subseteq Nat /\ T # {}
    BY <1>1, Zenon
  <1>3. \E x \in T : \A y \in T : ~(<<y, x>> \in OpToRel(<, Nat))
    <2> HIDE DEF T
    <2> QED BY <1>2, WFMin, NatLessThanWellFounded, Zenon
  <1>4. PICK x \in T : \A y \in T : ~(<<y, x>> \in OpToRel(<, Nat))
    BY <1>3, Zenon
  <1>5. \A y \in T : ~(y < x)
    BY <1>2, <1>4, Zenon DEF OpToRel
  <1>6. x \in Nat /\ n - x \in S
    OBVIOUS
  <1>7. ASSUME NEW k \in S PROVE k <= n - x
    <2>1. n - k \in T
      BY <1>1
    <2>2. ~(n - k < x)
      BY <1>5, <2>1
    <2> QED BY <1>1, <1>6, <2>2
  <1> QED BY <1>6, <1>7

\* The chain of a block: it holds the block and genesis, and the chains of its
\* blocks are part of it.
LEMMA ChainBlocks ==
    ASSUME NEW b \in Blocks
    PROVE  b \in Chain(b) /\ Genesis \in Chain(b) /\ Chain(b) \subseteq Blocks
  BY BelowStep, BelowBlocks, TreeAssumption DEF Chain, TreeAssumption

LEMMA ChainGenesis == Chain(Genesis) = {Genesis}
  BY BelowGenesis DEF Chain

LEMMA ChainStep ==
    ASSUME NEW b \in Blocks, b # Genesis
    PROVE  /\ Parent[b] \in Blocks
           /\ Chain(b) = Chain(Parent[b]) \cup {b}
           /\ b \notin Chain(Parent[b])
  BY BelowStep DEF Chain

LEMMA ChainTransitive ==
    ASSUME NEW b \in Blocks, NEW c \in Chain(b)
    PROVE  Chain(c) \subseteq Chain(b)
  BY BelowTransitive, ChainGenesis DEF Chain

\* Of two blocks of one chain, one is on the chain of the other.
LEMMA ChainComparable ==
    ASSUME NEW x \in Blocks, NEW b \in Chain(x), NEW c \in Chain(x)
    PROVE  b \in Chain(c) \/ c \in Chain(b)
  <1>1. CASE b = Genesis \/ c = Genesis
    BY <1>1 DEF Chain
  <1>2. CASE b \in Below(x) /\ c \in Below(x)
    <2>1. PICK n \in 1..Len(Path[x]) : b = Path[x][n]
      BY <1>2 DEF Below
    <2>2. PICK m \in 1..Len(Path[x]) : c = Path[x][m]
      BY <1>2 DEF Below
    <2>3. Path[x] \in Seq(Blocks) /\ Len(Path[x]) \in Nat
      BY TreeAssumption DEF TreeAssumption
    <2>4. ASSUME NEW d, NEW l \in 1..Len(Path[x]), d = Path[x][l]
          PROVE  Len(Path[d]) = l /\ \A k \in 1..l : Path[d][k] = Path[x][k]
      <3>1. Path[Path[x][l]] = SubSeq(Path[x], 1, l)
        BY TreeAssumption, Zenon DEF TreeAssumption
      <3> QED BY <2>3, <2>4, <3>1
    <2>5. CASE n <= m
      <3>1. n \in 1..m /\ Len(Path[c]) = m /\ Path[c][n] = b
        BY <2>1, <2>2, <2>3, <2>4, <2>5
      <3> QED BY <3>1, Zenon DEF Chain, Below
    <2>6. CASE m <= n
      <3>1. m \in 1..n /\ Len(Path[b]) = n /\ Path[b][m] = c
        BY <2>1, <2>2, <2>3, <2>4, <2>6
      <3> QED BY <3>1, Zenon DEF Chain, Below
    <2> QED BY <2>3, <2>5, <2>6
  <1> QED BY <1>1, <1>2 DEF Chain

\* The next block on the path from b to x is a child of b.
LEMMA NextIsChild ==
    ASSUME NEW x \in Blocks, NEW b \in Chain(x), b # x
    PROVE  LET n == Path[x][Height(b) + 1] IN
           n \in Below(x) /\ n \in Blocks \ {Genesis} /\ Parent[n] = b
  <1> DEFINE n == Path[x][Height(b) + 1]
  <1>1. n \in Below(x)
    BY NextOnPath DEF Chain
  <1>2. n \in Blocks \ {Genesis} /\ Parent[n] \in Blocks /\ b \in Blocks
    BY <1>1, ParentBelow, ChainBlocks
  <1>3. PICK k \in 1..Len(Path[x]) : n = Path[x][k]
    BY <1>1 DEF Below
  <1>4. Path[x] \in Seq(Blocks) /\ Len(Path[x]) \in Nat /\ Height(b) \in Nat
    BY <1>2, BelowBlocks, TreeAssumption DEF TreeAssumption
  <1>5. Height(b) + 1 \in 1..Len(Path[x]) /\ Path[b] = SubSeq(Path[x], 1, Height(b))
    <2>1. CASE b = Genesis
      <3>1. Path[b] = << >> /\ Height(b) = 0
        BY <2>1, TreeAssumption DEF TreeAssumption, Height
      <3> QED BY <1>3, <1>4, <3>1
    <2>2. CASE b # Genesis
      <3>1. PICK m \in 1..Len(Path[x]) : b = Path[x][m]
        BY <2>2 DEF Chain, Below
      <3>2. Path[b] = SubSeq(Path[x], 1, m)
        BY <3>1, TreeAssumption DEF TreeAssumption
      <3>3. Height(b) = m
        BY <1>4, <3>1, <3>2 DEF Height
      <3>4. x # Genesis
        BY ChainGenesis, <2>2
      <3>5. Path[Parent[x]] \in Seq(Blocks) /\ Path[x] = Append(Path[Parent[x]], x)
        BY <3>4, TreeAssumption DEF TreeAssumption
      <3>6. Path[x][Len(Path[x])] = x
        BY <3>5
      <3>7. m # Len(Path[x])
        BY <3>1, <3>6
      <3> QED BY <1>4, <3>1, <3>2, <3>3, <3>7
    <2> QED BY <2>1, <2>2
  <1>6. Path[n] = SubSeq(Path[x], 1, Height(b) + 1)
    BY <1>5, TreeAssumption, Zenon DEF TreeAssumption
  <1>7. Path[n] = Append(Path[Parent[n]], n) /\ Path[Parent[n]] \in Seq(Blocks)
    BY <1>2, TreeAssumption, Zenon DEF TreeAssumption
  <1>8. /\ Len(Path[Parent[n]]) = Height(b)
        /\ \A m \in 1..Height(b) : Path[Parent[n]][m] = Path[b][m]
    <2>1. Len(Path[n]) = Height(b) + 1 /\ \A m \in 1..(Height(b) + 1) : Path[n][m] = Path[x][m]
      BY <1>4, <1>5, <1>6
    <2>2. \A m \in 1..Height(b) : Path[b][m] = Path[x][m]
      BY <1>4, <1>5
    <2>3. /\ Len(Path[n]) = Len(Path[Parent[n]]) + 1
          /\ \A m \in 1..Len(Path[Parent[n]]) : Path[n][m] = Path[Parent[n]][m]
      <3> HIDE DEF n
      <3> QED BY <1>7
    <2>4. Len(Path[Parent[n]]) \in Nat
      BY <1>7
    <2> HIDE DEF n
    <2> QED BY <1>4, <2>1, <2>2, <2>3, <2>4
  <1>9. \A y \in Blocks \ {Genesis} : Len(Path[y]) > 0 /\ Path[y][Len(Path[y])] = y
    <2> TAKE y \in Blocks \ {Genesis}
    <2>1. Path[y] = Append(Path[Parent[y]], y) /\ Path[Parent[y]] \in Seq(Blocks)
      BY TreeAssumption DEF TreeAssumption
    <2> QED BY <2>1
  <1>10. Len(Path[Genesis]) = 0 /\ Len(Path[b]) = Height(b)
    BY TreeAssumption DEF TreeAssumption, Height
  <1>11. Parent[n] = b
    <2>1. CASE b = Genesis
      BY <1>2, <1>8, <1>9, <1>10, <2>1
    <2>2. CASE b # Genesis
      <3>1. Height(b) > 0 /\ Path[b][Height(b)] = b
        BY <1>2, <1>9, <1>10, <2>2
      <3>2. Parent[n] # Genesis
        BY <1>8, <1>10, <3>1
      <3>3. Path[Parent[n]][Height(b)] = Parent[n]
        BY <1>2, <1>8, <1>9, <3>2
      <3> QED BY <1>4, <1>8, <3>1, <3>3
    <2> QED BY <2>1, <2>2
  <1> QED BY <1>1, <1>2, <1>11

\* A nonempty set of blocks of one chain, genesis not among them, has a last.
LEMMA HighestOf ==
    ASSUME NEW x \in Blocks, NEW S, S \subseteq Below(x), S # {}
    PROVE  Highest(S) \in S /\ S \subseteq Below(Highest(S))
  <1>1. Path[x] \in Seq(Blocks) /\ Len(Path[x]) \in Nat
    BY TreeAssumption DEF TreeAssumption
  <1> DEFINE N == {n \in 1..Len(Path[x]) : Path[x][n] \in S}
  <1>2. N \subseteq 0..Len(Path[x]) /\ N # {}
    BY DEF Below
  <1>3. PICK m \in N : \A k \in N : k <= m
    <2> HIDE DEF N
    <2> QED BY <1>1, <1>2, GreatestBelow, Zenon
  <1> DEFINE c == Path[x][m]
  <1>4. Path[c] = SubSeq(Path[x], 1, m)
    BY TreeAssumption DEF TreeAssumption
  <1>5. Len(Path[c]) = m /\ \A k \in 1..m : Path[c][k] = Path[x][k]
    BY <1>1, <1>4
  <1>6. ASSUME NEW y \in S PROVE y \in Below(c)
    <2>1. PICK k \in 1..Len(Path[x]) : y = Path[x][k]
      BY DEF Below
    <2>2. k \in 1..m
      BY <1>3, <2>1
    <2> QED BY <1>5, <2>1, <2>2 DEF Below
  <1>7. c \in S /\ S \subseteq Below(c)
    BY <1>6
  <1> QED BY <1>7 DEF Highest
=============================================================================
