SPECIFICATION Spec
CONSTANTS
    Blocks <- MCBlocks
    Genesis = "g"
    Parent <- MCParent
    Path <- MCPath
    ChainWork <- SteepWork
    Invalid = {}
    Unmarked = {"a3"}
    Malformed = {}
    Threads = {"t", "u", "v"}
    NoBlock = NoBlock
    Addrs <- MCAddrs
    Doubted = {}
    Reconsidered = {}
    AboveFailed = FALSE
    Flushes = {"none"}
    MaxRpcs = 0
    MaxRestarts = 0
INVARIANT NoAssertFails
INVARIANT LinkedExact
INVARIANT BetterIsCandidate
