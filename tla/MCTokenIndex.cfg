\* All files of up to three declarations of the pool.
CONSTANTS
    Names <- MCNames
    Packages <- MCPackages
    Paths <- MCPaths
    Workspaces <- MCWorkspaces
SPECIFICATION Spec
INVARIANTS
    DeclarationsAreIndexed
    PackagesAreListed
\* The scan stops for good when the index is returned or a file cannot be read.
CHECK_DEADLOCK FALSE
