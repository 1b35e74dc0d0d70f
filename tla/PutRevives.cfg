\* A PUT saves the row it read before the DELETE.
SPECIFICATION Spec
CONSTANTS
    Null = Null
    Wildcard = Wildcard
    a = a
    b = b
    Pieces <- MCPieces
    Types <- MCOneType
    Urls = {u1}
    Creates = {c1}
    Replaces = {p1}
    Deletes = {d1}
    Publishes = {e1}
    LaggingScan = FALSE
    MaxFaults = 0
    MaxTime = 0
INVARIANTS NoDeliveryAfterDelete
\* Every request is answered and the clock stops: the system has nothing left to do.
CHECK_DEADLOCK FALSE
