SPECIFICATION Spec
CHECK_DEADLOCK FALSE
CONSTANTS
    None = None
    Blank = Blank
    tdx = tdx
    snp = snp
    nitro = nitro
    c1 = c1
    c2 = c2
    m1 = m1
    Platforms <- MCPlatforms
    NonSvnPlatforms <- MCNonSvn
    Requests <- MCRequests
    Scopes <- MCScopes
    References <- MCReferences
    Horizon = 7
INVARIANTS
    DistributedTrustIsEarned
    WiderScopeNeverLowersRisk
    WiderPresetNeverRaisesTotal
    CustomScopeNeverBuysPoints
    AbsentPolicyIsNeutral
    EveryAttackAccountedFor
    RecordedScopeReproducesTheGrade
    ScoreNeverFresherThanLabel
    NewerFirmwareNeverHurts
