\* Every request, with files that fail for a while and a cancellation at any step.
CONSTANTS
    Files <- MCFiles
    Position <- MCPosition
    Packages <- MCPackages
    Paths <- MCPaths
    Names <- MCNames
    Symbols <- MCSymbols
    PackageOf <- MCPackageOf
    PathOf <- MCPathOf
    ExternalTests = {}
    NameOf <- MCNameOf
    HomeOf <- MCHomeOf
    FunctionsOf <- MCFunctionsOf
    TypesOf <- MCTypesOf
    DefinitionTokens <- MCDefinitionTokens
    Identifiers <- MCIdentifiers
    Reasons = {"none"}
    Rank <- MCRank
    StackLimit = 4
    CallSites <- MCCallSites
    Requests <- MCRequests
SPECIFICATION AnalysisSpec
INVARIANTS
    TypeOK
    TablesMatchModels
    DefinitionsAreKnown
    SnapshotSuffices
    CallersAreComplete
    AnalysisTypeOK
    SearchWaits
PROPERTIES
    ImplementsSearch
\* The analysis ends with a result or an error.
CHECK_DEADLOCK FALSE
