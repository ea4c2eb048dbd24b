SPECIFICATION Spec
CONSTANTS
    Blocks <- ForkBlocks
    Genesis = "g"
    Parent <- ForkParent
    Path <- ForkPath
    ChainWork <- ForkWork
    Invalid = {"b2"}
    Unmarked = {}
    Malformed = {"a3"}
    Threads = {"t"}
    NoBlock = NoBlock
    Addrs = {}
    Doubted = {"a1", "a2", "b1"}
    Reconsidered = {"a1", "a2", "c2", "b1"}
    AboveFailed = TRUE
    Flushes = {"none"}
    MaxRpcs = 3
    MaxRestarts = 0
INVARIANT FailedHaveCause
