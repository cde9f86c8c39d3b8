\* All embeddings of four types up to three levels, and unreadable files.
CONSTANTS
    Types <- MCTypes
    Predeclared <- MCPredeclared
    Programs <- MCPrograms
    Receivers <- MCReceivers
    LoadedBefore <- MCLoadedBefore
    Forms = {}
SPECIFICATION Spec
INVARIANTS
    TypeOK
    AnswersAsGo
    UnreadableIsUnknown
    OnlyCandidateIsFound
PROPERTIES
    SearchTerminates
\* The search stops for good when it has an answer.
CHECK_DEADLOCK FALSE
