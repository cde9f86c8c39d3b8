\* Returns in function literals.
CONSTANTS
    Files <- MCFiles
    Qualified <- MCQualified
    Types <- MCTypes
    Methods <- MCMethods
    Calls <- MCCalls
    Forms = {"literal return"}
SPECIFICATION Spec
INVARIANT
    IncompatibleIsCertain
\* The check stops with its verdict.
CHECK_DEADLOCK FALSE
