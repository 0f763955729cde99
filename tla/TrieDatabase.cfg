SPECIFICATION Spec
CONSTANTS
    s = s
    b = b
    r1 = r1
    r2 = r2
    Meta = Meta
    Nodes <- MCNodes
    Roots <- MCRoots
    Height <- MCHeight
    Kids <- MCKids
    Refs <- MCRefs
    Preimages = {"key"}
    KeysOf <- MCKeysOf
    IdealBatchSize = 2
    PreimageLimit = 0
    BlobSize <- MCBlobSize
    HashLength = 1
    Width = 4
    MetaSize = 1
    ChildrenSize = 2
    RefSize = 1
    Limits <- MCLimits
    MaxRefs = 1
    MaxWraps = 1
INVARIANTS
    LiveIsReadable
    ReaderFindsNode
    DiskIsClosed
    FlushListIsWhole
    CountsAreExact
    SizeIsTotal
PROPERTIES
    CommitIsDurable
    CapMeetsLimit
