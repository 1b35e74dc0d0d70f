\* Without a PUT, on a store whose Scan is consistent: deletion and matching are exact.
SPECIFICATION Spec
CONSTANTS
    Null = Null
    Wildcard = Wildcard
    a = a
    b = b
    Pieces <- MCPieces
    Types <- MCTypes
    Urls = {u1}
    Creates = {c1, c2}
    Replaces = {}
    Deletes = {d1, d2}
    Publishes = {e1}
    LaggingScan = FALSE
    MaxFaults = 1
    MaxTime = 0
INVARIANTS NoDeliveryAfterDelete NoMatchMissed
PROPERTY ImplementsLifecycle
\* Every request is answered and the clock stops: the system has nothing left to do.
CHECK_DEADLOCK FALSE
