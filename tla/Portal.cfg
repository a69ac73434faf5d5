SPECIFICATION Spec
SYMMETRY MCSymmetry
CONSTANTS
    None = None
    Blank = Blank
    NoInput = NoInput
    PolicyError = PolicyError
    NoFile = NoFile
    Truncated = Truncated
    UNSPECIFIED = UNSPECIFIED
    OperatorKey = OperatorKey
    tdx = tdx
    snp = snp
    Quotes <- MCQuotes
    Modules <- MCModules
    Anchors <- MCAnchors
    Published = {"rubric"}
    Runs = {r1, r2}
    Ttl = 30
    Shown = 1
    Horizon = 1
    MaxSigned = 2
INVARIANTS
    StoredBundleVerifies
    BadgeBindsItsBundle
    ListedEvaluationIsServed
    DecisionMatchesConformance
