CONSTANTS
    Peers = {old, new}
    Addrs = {a}
    Addr <- OneAddr
    Updated = {new}
    NoPeer = NoPeer
    Timeout = 1
    MaxAttempt = 2
SPECIFICATION Spec
INVARIANTS
    TypeOK
    OnlyUserSkips
PROPERTIES
    SyncFinishes
    AlwaysRetried
