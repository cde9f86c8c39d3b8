\* Two init functions of one package share an ID; the later one replaces the other.
CONSTANTS
    Files <- MCFiles
    Position <- MCPosition
    Packages <- MCPackages
    Paths <- MCPaths
    Names <- MCNames
    Symbols <- MCSymbols
    PackageOf <- MCPackageOf
    PathOf <- MCPathOf
    ExternalTests <- MCExternalTests
    NameOf <- MCNameOf
    HomeOf <- MCHomeOf
    FunctionsOf <- MCFunctionsOf
    TypesOf <- MCTypesOf
    DefinitionTokens <- MCDefinitionTokens
    Identifiers <- MCIdentifiers
SPECIFICATION Spec
INVARIANTS
    CallersAreComplete
CHECK_DEADLOCK FALSE
