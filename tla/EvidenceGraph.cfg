SPECIFICATION GraphSpec
CONSTANTS
    None = None
    Blank = Blank
    tdx = tdx
    snp = snp
    c1 = c1
    c2 = c2
    Platforms <- MCPlatforms
    NodeMenu <- MCNodeMenu
    EdgeMenu <- MCEdgeMenu
    Challenges <- MCChallenges
    MaxNodes = 4
    MaxEdges = 3
INVARIANTS
    GraphOK
    BoundIsWitnessed
PROPERTIES
    AddedEdgesKeepBinding
