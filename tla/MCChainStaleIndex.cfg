SPECIFICATION Spec
CONSTANTS
    Blocks <- MCBlocks
    Genesis = "g"
    Parent <- MCParent
    Path <- MCPath
    ChainWork <- TiedWork
    Invalid = {}
    Unmarked = {}
    Malformed = {}
    Threads = {"t"}
    NoBlock = NoBlock
    Addrs <- MCAddrs
    Doubted = {}
    Reconsidered = {}
    AboveFailed = FALSE
    Flushes = {"none", "index", "full"}
    MaxRpcs = 0
    MaxRestarts = 1
INVARIANT SigmaFollowsChain
