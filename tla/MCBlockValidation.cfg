CONSTANTS
    Blocks <- MCBlocks
    Genesis = "g"
    Parent <- MCParent
    Path <- MCPath
    Txids <- MCTxids
    Ins <- MCIns
    Outs <- MCOuts
    Coinbase <- MCCoinbase
    Worlds <- MCWorlds
    Checkpointed = {"a1", "b2"}
    BadScripts <- MCBadScripts
    Overpaying = {"big"}
    CoinbaseMaturity = 1
    Checks <- MCChecks
    Good <- MCGood
    Workers = {w1, w2}
    Master = master
    nBatchSize = 128
    LookedUp = {"k1"}
    fAddressIndex = FALSE
    NoUndo = NoUndo
SPECIFICATION Spec
INVARIANTS
    TypeOK
    FlagsSound
    WaitIsExact
    QueueIdleOutside
    VerdictIsExact
    DisconnectsCleanly
    VerifyFindsNothing
PROPERTY
    ImplementsUtxoLedger
    ConnectEnds
