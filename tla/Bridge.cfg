\* Bridge: see README.md.
SPECIFICATION Spec
CONSTANTS
    a = a
    u = u
    v = v
    i1 = i1
    i2 = i2
    i3 = i3
    b1 = b1
    b2 = b2
    Null = Null
    Participants <- Three
    Agents <- OneAgent
    Publishers <- Three
    PeerIds <- ThreePeers
    BridgeIds <- TwoBridges
SYMMETRY Symmetric
INVARIANTS
    TypeOK
    RegisteredShareBridge
    RelayReachesOpposite
    PendingOffersAreAnswerable
    NoBridgeWithoutConnection
