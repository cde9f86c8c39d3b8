\* Every order of the calls, with any files loaded before and any unreadable.
CONSTANTS
    Files <- MCFiles
    Qualified <- MCQualified
    Types <- MCTypes
    Methods <- MCMethods
    Packages <- MCPackages
    Connected <- MCConnected
    Standard = {"time"}
    Owner <- MCOwner
    Public <- MCPublic
    Functions <- MCFunctions
    StandardFunctions <- MCStandardFunctions
    FieldsOf <- MCFieldsOf
    CallSites <- MCCallSites
    Roots <- MCRoots
SPECIFICATION Spec
INVARIANTS
    TypeOK
    EdgesAreCalls
    CallersAreFound
    RootIsUnique
    ExternalsAreStable
\* The search ends with its edges, refuses an ambiguous root, or fails.
CHECK_DEADLOCK FALSE
