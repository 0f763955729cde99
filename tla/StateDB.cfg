SPECIFICATION Spec
CONSTANTS
    a1 = a1
    k1 = k1
    zero = zero
    one = one
    code1 = code1
    none = none
    Addresses = {a1}
    Keys = {k1}
    Values = {zero, one}
    Zero = zero
    Codes = {none, code1}
    NoCode = none
    Amounts <- MCAmounts
    Nonces <- MCNonces
    MaxBalance = 1
    MaxChanges = 4
INVARIANTS
    TrieIsCurrent
    CommittedIsComplete
PROPERTIES
    IsAccountState
