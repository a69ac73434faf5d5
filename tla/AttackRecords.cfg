SPECIFICATION Spec
CONSTANTS
    None = None
    snp = snp
    tdx = tdx
    Curated = Curated
    FeedCve = FeedCve
    sync = sync
    map = map
    Platforms <- MCPlatforms
    Names <- MCNames
    Versions <- MCVersions
    Opaque <- MCOpaque
    Bare <- MCBare
    Affected <- MCAffected
    Cve <- MCCve
    Seeds <- MCSeeds
    FeedNames <- MCFeedNames
    TcbMenu <- MCTcbMenu
    MaxTcb = 2
    Jobs <- MCJobs
INVARIANTS
    ThresholdHasSource
    UpToDateMeetsThresholds
    UpToDateIsNotExpired
PROPERTIES
    ThresholdLostOnlyToARace
    MappingSettles
SYMMETRY Symmetry
