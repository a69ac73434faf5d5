SPECIFICATION FairSpec
CHECK_DEADLOCK FALSE
CONSTANTS
    r1 = r1
    r2 = r2
    Foreign = Foreign
    None = None
    Malformed = Malformed
    TrustRoots = {TRUE, FALSE}
    Runs <- MCRuns
    MaxLog = 2
INVARIANTS
    AnchorCoversSignedBytes
    
    
    AnchorSurvivesSaving
PROPERTY EveryRunReports
