SPECIFICATION FairSpec
CONSTANTS
    Windows = {w1, w2, w3}
    Titles = {A, B}
    MaxChanges = 4
INVARIANTS
    PendingMatchesList
PROPERTIES
    IdsMeanOneWindow
    SetEventuallyListed
