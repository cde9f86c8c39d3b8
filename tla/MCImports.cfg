\* All go.mod files of an application with two libraries.
CONSTANTS
    Paths <- MCPaths
    Versions <- MCVersions
    Majors <- MCMajors
    None = "none"
    MajorOf <- MCMajorOf
    MajorOfPath <- MCMajorOfPath
    Workspaces <- MCWorkspaces
SPECIFICATION Spec
INVARIANTS
    SelectionIsUnique
    KnownSeriesConnects
    ExactReplacementWins
\* Discovery ends.
CHECK_DEADLOCK FALSE
