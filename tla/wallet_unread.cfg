SPECIFICATION Spec
CONSTANTS
    Denomination = 1
    Amount = {1}
    Margin = 1
    Funders = {"me"}
    StartLeaves <- MCStartLeaves
    ReadableFeed = FALSE
    MaxLog = 6
    MaxOps = 0
    MaxFaults = 1
    None = None
    MaxNotes = 2
    MaxAmount = 3
INVARIANT FormatsMissNothing
