SPECIFICATION Spec
CONSTANTS
    MaxUint32 = 15
    Groups = {"host", "login", "chars", "excludes", "settings", "lists", "mounts"}
    Inputs <- MCInputs
    Mounts <- MCMounts
    configCapBytes = 2
    MaxBytes = 4
    MaxRunes = 4
INVARIANTS
    WholeDocument
    PostureExact
    CommandAsWritten
    SettingsInForceOrAdvised
    HostContract
PROPERTIES
    PreflightEnds
