SPECIFICATION Spec
CONSTANTS
    c1 = c1
    Clients = {c1}
    Capacity = 1
INVARIANTS
    ExitTellsPass
    AcceptanceHonest
PROPERTIES
    InvocationEnds
    AcceptedOutlivesClient
