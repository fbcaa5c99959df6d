\* Every ruleset over four chains with eight jumps.
CONSTANTS
    Chain <- Chains
    UfwChain <- UfwChains
    Link <- Links
SPECIFICATION FairSpec
INVARIANTS
    VerdictRight
PROPERTIES
    WalkEnds
