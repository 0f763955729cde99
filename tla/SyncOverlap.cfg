CONSTANTS
    p1 = p1  p2 = p2  s1 = s1  s2 = s2  NoPeer = NoPeer
    Peers <- TwoPeers
    RemoteHead <- MCRemoteHeadOverlap
    LocalBlock = 0
    LocalHeader = 0
    Syncs <- TwoSyncs
    MaxBlockFetch = 1
    Lossy = TRUE
    MaxOutstanding = 2
    Chans <- MCChans
SPECIFICATION Spec
INVARIANTS
    HeadsAreCanonical
PROPERTIES
    IsLedger
SYMMETRY Symmetry
CHECK_DEADLOCK FALSE
