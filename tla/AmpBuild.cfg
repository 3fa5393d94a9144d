\* Every topology of a bootstrap group plus one group of one or two images
\* with consistent, non-overlapping configurations, and the end-to-end
\* scenario with every mix of board keys, load ranges and bootstrap MSDF
\* settings.
CONSTANTS
    P0 = P0
    P1 = P1
    P2 = P2
    P3 = P3
    BuildPath = BuildPath
    StaleCfg = StaleCfg
    NoValue = NoValue
    Unbound = Unbound
    ToolErr = 2
    Paths <- MCPaths
    Cases <- BuildCases

SPECIFICATION Spec

INVARIANT TypeOK
INVARIANT FinalImageValid
INVARIANT AssemblyFaithful
