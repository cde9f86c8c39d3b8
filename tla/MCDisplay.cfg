\* Every result of two calls, with up to three types loaded.
CONSTANTS
    Names <- MCNames
    TestName <- MCTestName
    Workspaces <- MCWorkspaces
    Target = "F"
    Functions <- MCFunctions
    Types <- MCTypes
    BeginsWith <- MCBeginsWith
    MaxTypes = 3
SPECIFICATION Spec
INVARIANTS
    PackagesAsGo
    NamesAreKept
    MessagesNameTypes
\* The discovery ends with an error, or the result is shown.
CHECK_DEADLOCK FALSE
