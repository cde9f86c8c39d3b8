\* Every program over the pool, with and without a depth limit, both policies.
CONSTANTS
    Symbols <- MCSymbols
    Reasons <- MCReasons
    Rank <- MCRank
    Inputs <- MCInputs
    StackLimit = 3
SPECIFICATION Spec
INVARIANTS
    TypeOK
    AncestorsAreTheStack
    EdgesMatchTree
    VisitInvariant
PROPERTIES
    ImplementsCallerPaths
    Termination
\* The search stops for good when it has a result or an error.
CHECK_DEADLOCK FALSE
