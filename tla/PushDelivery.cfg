SPECIFICATION PushSpec
CONSTANTS
    Appeals = {a1, a2}
    Endpoints = {p1, p2, p3}
    Nowhere = Nowhere
    Senders = {janitor, handler}
    Janitor = janitor
    Round = 4
    Timeout = 2
CONSTRAINT OneOrFew
SYMMETRY Symmetry
INVARIANTS
    ReachableStaySubscribed
    OneEndpointBlocksNobody
