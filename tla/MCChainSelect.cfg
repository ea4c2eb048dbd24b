SPECIFICATION FairSpec
CONSTANTS
    Blocks <- ForkBlocks
    Genesis = "g"
    Parent <- ForkParent
    Path <- ForkPath
    ChainWork <- ForkWork
    Invalid = {"b2"}
    Unmarked = {}
    Malformed = {"a3"}
    Threads = {"t"}
    NoBlock = NoBlock
    Addrs = {}
    Doubted = {"a1", "a2", "b1"}
    Reconsidered = {"a1", "a2", "c2", "b1"}
    AboveFailed = FALSE
    Flushes = {"none"}
    MaxRpcs = 4
    MaxRestarts = 0
INVARIANT TypeOK
INVARIANT BestChainActive
INVARIANT ActiveChainNotFailed
INVARIANT CandidatesExact
INVARIANT FailedHaveCause
PROPERTY ActivationEnds
