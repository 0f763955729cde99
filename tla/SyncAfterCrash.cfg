CONSTANTS
    p1 = p1  p2 = p2  s1 = s1  s2 = s2  NoPeer = NoPeer
    Peers <- OnePeer
    RemoteHead <- MCRemoteHead1
    LocalBlock = 1
    LocalHeader = 0
    Syncs <- OneSync
    MaxBlockFetch = 2
    Lossy = FALSE
    MaxOutstanding = 2
    Chans <- MCChans
SPECIFICATION FairSpec
PROPERTY CatchesUp
CHECK_DEADLOCK FALSE
