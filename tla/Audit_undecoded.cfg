SPECIFICATION Spec
CHECK_DEADLOCK FALSE
CONSTANTS
    None = None
    Malformed = Malformed
    d1 = d1
    d2 = d2
    s1 = s1
    s2 = s2
    w = w
    Digests <- MCDigests
    CurveOf <- MCCurveOf
    ServiceName = "service"
    ServiceKeys <- MCServiceKeys
    Headers <- MCHeaders
    Pins <- MCPins
    Witness <- MCWitness
    MaxLog = 2
    MaxPins = 2
    MaxReceipts = 1
SYMMETRY MCSymmetry
INVARIANT ExitZeroIsEvaluated
