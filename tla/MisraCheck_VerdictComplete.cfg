\* A run whose cppcheck clone has no misra.py (a failed clone, or an interrupted
\* one that is kept because the directory is not empty) passes the check.
CONSTANTS
    NoValue = NoValue
    StartPath <- MCStartPath
    Marked <- MCMarked
    RuleChoices <- MCRuleChoices
    PathChoices <- MCPathChoices
    ViolationSets <- MCViolationSets
    HeaderDirs <- MCHeaderDirs
    ToolStates <- MCToolStates

SPECIFICATION Spec

INVARIANT VerdictComplete
