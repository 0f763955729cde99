SPECIFICATION Spec
CONSTANTS
    s1 = s1
    u1 = u1
    u2 = u2
    u3 = u3
    c1 = c1
    c2 = c2
    Senders = {s1}
    Subs = {u1, u2, u3}
    Channels = {c1, c2}
    ChanOf <- MCChanOf
    ChanCap <- MCChanCap
INVARIANTS
    CasesAreSubscriptions
    DeliveredOnce
PROPERTIES
    UnsubscribeReturns
    SendReturns
