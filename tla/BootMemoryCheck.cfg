\* Every boot range and every header of one or two windows over 0..4,
\* against the half-open windows of spec.md.
CONSTANTS
    MaxAddr = 4
    MaxWindows = 2
    NoValue = NoValue

SPECIFICATION Spec

INVARIANT PlacedHalfOpen
