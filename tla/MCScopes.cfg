\* Every body of five nodes but those of the special forms.
CONSTANTS
    Names <- MCNames
    Other = "other"
    Unpacked = "unpacked"
    Files <- MCFiles
    Nodes <- MCNodes
    MaxNodes = 5
    Forms = {}
SPECIFICATION Spec
INVARIANTS
    HidesAsGo
    ValuesAsGiven
\* The walk stops at the end of the body.
CHECK_DEADLOCK FALSE
