SPECIFICATION Safe
CONSTANTS
    c1 = c1
    c2 = c2
    Clients = {c1}
    QueueCapacity = 1
    two = two
    one = one
    bad = bad
    Docs = {one, bad}
    JobCount <- MCJobCount
INVARIANT HeartbeatAfterEveryPass
