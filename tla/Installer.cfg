\* Three runs of install.py on one machine, each of which may be cut short.
CONSTANTS
    MaxRuns = 3
    Pinned = Pinned
    Tip = Tip
    NoHead = NoHead

SPECIFICATION Spec

INVARIANT SuccessMeansPinned
