SPECIFICATION Spec
CONSTANTS
    small = small
    small2 = small2
    large = large
    NoValue = NoValue
    Radix = 4
    Keys <- MCKeys
    ValuesOf <- MCValuesOf
    ValueSize <- MCValueSize
    HashLen = 9
    MaxCommits = 2
INVARIANT GetIsContent
INVARIANT RootIsCanonical
INVARIANT CleanIsStored
INVARIANT ProofsVerify
