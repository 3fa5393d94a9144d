\* The full MISRA wrapper over every rule selection, path list, violation
\* mix, cppcheck presence and state of the cppcheck clone directory.
CONSTANTS
    NoValue = NoValue
    StartPath <- MCStartPath
    Marked <- MCMarked
    RuleChoices <- MCRuleChoices
    PathChoices <- MCPathChoices
    ViolationSets <- MCViolationSets
    HeaderDirs <- MCHeaderDirs
    ToolStates <- MCToolStates

SPECIFICATION Spec

INVARIANT TypeOK
INVARIANT VerdictCompleteWithTool
INVARIANT ProjectRootIsNearest
