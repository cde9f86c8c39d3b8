\* Every body of five nodes with values that use the name they are given to.
CONSTANTS
    Names <- MCNames
    Other = "other"
    Unpacked = "unpacked"
    Files <- MCFiles
    Nodes <- MCNodes
    MaxNodes = 5
    Forms = {"own name"}
SPECIFICATION Spec
INVARIANTS
    HidesAsGo
\* The walk stops at the end of the body.
CHECK_DEADLOCK FALSE
