SPECIFICATION Spec
CHECK_DEADLOCK FALSE
CONSTANTS
    None = None
    Malformed = Malformed
    Down = Down
    NoFmspc = NoFmspc
    Documents <- MCDocuments
    Sources <- MCSources
    Ttl = 2
    Horizon = 3
    MaxChanges = 1
PROPERTY KeepsThePromise
