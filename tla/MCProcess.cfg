SPECIFICATION Spec
CONSTANTS
    Configs <- MCConfigs
    Conns = {c1}
    c1 = c1
INVARIANT ExitOnlyDrained
PROPERTIES
    TermHeeded
    ShutdownTerminates
