SPECIFICATION Spec
CONSTANTS
    NJobs = 3
    Hosts <- MCHosts
    Paths <- MCPaths
    Links <- MCLinks
    Documents <- MCDocuments
INVARIANTS
    ComponentsExact
    LossIsAdvised
    AdvisedAreAffected
