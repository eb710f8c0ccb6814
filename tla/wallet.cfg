SPECIFICATION Spec
CONSTANTS
    Denomination = 1
    Amount = {1}
    Margin = 1
    Funders = {"me"}
    StartLeaves <- MCStartLeaves
    ReadableFeed = TRUE
    MaxLog = 5
    MaxOps = 2
    MaxFaults = 1
    None = None
    MaxNotes = 2
    MaxAmount = 3
INVARIANT NotesAreTrue
INVARIANT NotesAreKept
INVARIANT SelectionIsTightest
PROPERTY SpendsRecorded
PROPERTY DepositsFound
