\* Every target argument against both filter files; clang-format may fail
\* on any file.
CONSTANTS
    NoValue = NoValue
    Cwd <- Sdk
    Tree <- MCTree
    Parts <- MCParts
    PartDirs <- MCPartDirs
    ArgChoices <- MCArgChoices
    Filters <- MCFilters

SPECIFICATION Spec

INVARIANT TypeOK
