--------------------------- MODULE MCNoirnodeSync ---------------------------
EXTENDS NoirnodeSync

\* A peer that comes back with an older or a newer version.
OneAddr == [p \in Peers |-> CHOOSE a \in Addrs : TRUE]
=============================================================================
