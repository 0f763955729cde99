CONSTANTS
    r1 = r1  r2 = r2  c1 = c1  c2 = c2  h1 = h1  h2 = h2  None = None
    Remotes <- TwoRemotes
    Conns <- TwoConns
    Handlers <- TwoHandlers
SPECIFICATION PeeringSpec
INVARIANTS
    NoStaleEntry
    OneHandlerPerRemote
    ManagerAgreesWithDownloader
SYMMETRY Symmetry
