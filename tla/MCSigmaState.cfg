CONSTANTS
    Blocks <- MCBlocks
    Genesis = "g"
    Parent <- MCParent
    Path <- MCPath
    Txs <- MCTxs
    Worlds <- MCWorlds
    Outs <- MCOuts
    Value <- MCValue
    Denom <- MCDenom
    Coins <- MCCoins
    Denoms <- MCDenoms
    DenomValue <- MCDenomValue
    MintsOf <- MCMintsOf
    Inputs <- MCInputs
    SpendsOf <- MCSpendsOf
    CoinsPerId = 3
    MaxSigmaInputPerBlock = 2
    MaxValueSigmaSpendPerBlock = 5
SPECIFICATION Spec
PROPERTIES
    ImplementsLedger
    AddMintLoopAgrees
INVARIANTS
    TypeOK
    NoSerialInTwoBlocks
    SpentWasMintedBefore
    MempoolSpendsAreExclusive
    GroupsEndOnChain
    UsedSerialsMatchChain
    IndexDescribesBlocks
    CoinGroupsMatchChain
    GroupAssignmentIsCanonical
    MintedCoinsMatchChain
    RebuildAgrees
CHECK_DEADLOCK FALSE
CONSTRAINT PoolBound
