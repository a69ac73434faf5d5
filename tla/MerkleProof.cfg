SPECIFICATION FairSpec
CHECK_DEADLOCK FALSE
CONSTANTS
    Sizes = {1, 2, 3, 4, 5, 6, 7}
    Claims <- MCClaims
INVARIANTS
    HonestProofRebuilds
    TrueSizeProvesIndex
    AcceptedLeafIsALeaf
    NoneMeansWrongLength
PROPERTY Terminates
