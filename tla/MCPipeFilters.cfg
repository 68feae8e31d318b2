SPECIFICATION Spec
CONSTANTS
    ByteBits = 2
    Peers <- MCPeers
    Filters <- MCFilters
    Setups <- MCSetups
INVARIANTS
    IpFilterByPrefix
    AnchorPassed
