SPECIFICATION FairSpec
CONSTANTS
    g = g
    a1 = a1
    a2 = a2
    a3 = a3
    r0 = r0
    r1 = r1
    e = e
    EmptyRoots = {e}
    Genesis = g
    NoHash = NoHash
    Blocks <- LinearBlocks
    Batches <- LinearBatches
    Number <- MCNumber
    Parent <- MCParent
    Root <- MCRoot
    Inserters = {t1}
    Rewind = TRUE
    StateLoss = TRUE
INVARIANT HeadIsStored
INVARIANT CurrentStateOpens
INVARIANT CanonicalChainIsComplete
INVARIANT HeaderIsCanonical
PROPERTY SetHeadCompletes
PROPERTY HeadOnlyGrows
