SPECIFICATION Safe
CONSTANTS
    c1 = c1
    c2 = c2
    Clients = {c1, c2}
    QueueCapacity = 2
    two = two
    one = one
    bad = bad
    Docs = {two}
    JobCount <- MCJobCount
SYMMETRY Symmetry
INVARIANTS
    AcceptedIsHeld
    NobodyLeftBehind
PROPERTIES
    ExitCodeHonest
    ServesInOrder
