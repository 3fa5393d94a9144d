\* Whether an invalid topology is rejected before any make all runs.
CONSTANTS
    P0 = P0
    P1 = P1
    P2 = P2
    P3 = P3
    BuildPath = BuildPath
    StaleCfg = StaleCfg
    NoValue = NoValue
    Unbound = Unbound
    ToolErr = 2
    Paths <- MCPaths
    Cases <- PreflightCases

SPECIFICATION Spec

INVARIANT NoBuildOnInvalidTopology
