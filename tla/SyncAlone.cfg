CONSTANTS
    p1 = p1  p2 = p2  s1 = s1  s2 = s2  NoPeer = NoPeer
    Peers <- TwoPeers
    RemoteHead <- MCRemoteHead2
    LocalBlock = 0
    LocalHeader = 0
    Syncs <- OneSync
    MaxBlockFetch = 2
    Lossy = FALSE
    MaxOutstanding = 2
    Chans <- MCChans
SPECIFICATION FairSpec
INVARIANTS
    NothingLeftOver
PROPERTY CatchesUp
CHECK_DEADLOCK FALSE
