\* Three projects and a skipped directory, every make outcome, under weak
\* fairness of the script.
CONSTANTS
    A1 = A1
    A2 = A2
    B1 = B1
    B2 = B2
    C1 = C1
    D1 = D1
    D2 = D2
    Dirs <- MCDirs
    ConfigsOf <- MCConfigsOf
    Outcomes <- MCOutcomes

SPECIFICATION Spec

INVARIANT NoCrossWrite
INVARIANT ExitMeansAllRefreshed
PROPERTY Refinement
