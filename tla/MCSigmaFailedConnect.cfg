CONSTANTS
    Blocks <- MCBlocks
    Genesis = "g"
    Parent <- MCParent
    Path <- MCPath
    Txs <- SpendTxs
    Worlds <- SpendWorlds
    Outs <- MCOuts
    Value <- MCValue
    Denom <- MCDenom
    Coins <- MCCoins
    Denoms <- MCDenoms
    DenomValue <- MCDenomValue
    MintsOf <- MCMintsOf
    Inputs <- MCInputs
    SpendsOf <- MCSpendsOf
    CoinsPerId = 3
    MaxSigmaInputPerBlock = 2
    MaxValueSigmaSpendPerBlock = 5
SPECIFICATION Spec
INVARIANT OnlySpentSerialsAreUsed
