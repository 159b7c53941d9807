SPECIFICATION FairSpec
CONSTANTS
    Windows = {w1}
    Titles = {A, B}
    MaxChanges = 3
PROPERTIES
    TitlesEventuallyShown
