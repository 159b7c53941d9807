SPECIFICATION Spec
CONSTANTS
    Installed <- MCInstalled
    CommandLines <- MCCommandLines
    ForeignCodes <- MCForeignCodes
    None = None
CHECK_DEADLOCK FALSE
INVARIANTS
    FailuresAreTold
    RequestedInModel
PROPERTIES
    ProbeEnds
