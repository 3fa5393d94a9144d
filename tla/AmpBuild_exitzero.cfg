\* Topology errors of execute_make_commands and the exit status they give.
CONSTANTS
    P0 = P0
    P1 = P1
    P2 = P2
    P3 = P3
    BuildPath = BuildPath
    StaleCfg = StaleCfg
    NoValue = NoValue
    Unbound = Unbound
    ToolErr = 2
    Paths <- MCPaths
    Cases <- TopologyCases

SPECIFICATION Spec

INVARIANT ErrorNeverExitsZero
