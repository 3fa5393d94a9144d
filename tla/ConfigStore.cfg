\* One sdkconfig with every Kconfig-written mix of four symbols, one of
\* whose names extends another's, under loads, line removals and value
\* replacements.
CONSTANTS
    Unset = Unset
    Keys <- MCKeys
    Vals <- MCVals
    Required <- MCRequired
    FileChoices <- MCFileChoices
    Removals <- MCRemovals
    DataChoices <- MCDataChoices

SPECIFICATION Spec

INVARIANT TypeOK
INVARIANT ReadersAgree
