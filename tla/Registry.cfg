\* A POST, two PUTs and a DELETE race, and an event is matched by a Scan that may lag.
SPECIFICATION Spec
CONSTANTS
    Null = Null
    Wildcard = Wildcard
    a = a
    b = b
    Pieces <- MCPieces
    Types <- MCTypes
    Urls = {u1, u2}
    Creates = {c1}
    Replaces = {p1, p2}
    Deletes = {d1}
    Publishes = {e1}
    LaggingScan = TRUE
    MaxFaults = 1
    MaxTime = 1
INVARIANTS TypeOK CreatedAtIsKept RowsAreWhole ResurrectionNeedsRace
SYMMETRY Symmetry
\* Every request is answered and the clock stops: the system has nothing left to do.
CHECK_DEADLOCK FALSE
