CONSTANTS
    proton = proton  chat = chat
    Protocols <- MCProtocols
    Disconnecting <- BothEnds
    Foreign <- AnyForeign
    MaxInFlight = 1
SPECIFICATION ConnFairSpec
INVARIANT ErrorsHaveRoom
PROPERTY BothRunsEnd
CHECK_DEADLOCK FALSE
