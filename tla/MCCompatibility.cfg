\* Pairs of types, variadic calls, constants, results and method expressions,
\* with any files loaded before and any files that cannot be read; none of the
\* named forms.
CONSTANTS
    Files <- MCFiles
    Qualified <- MCQualified
    Types <- MCTypes
    Methods <- MCMethods
    Calls <- MCCalls
    Forms = {}
SPECIFICATION Spec
INVARIANTS
    TypeOK
    IncompatibleIsCertain
    CompatibleIsCertain
    UnloadedIsNotUnknown
PROPERTIES
    Termination
\* The check stops with its verdict.
CHECK_DEADLOCK FALSE
