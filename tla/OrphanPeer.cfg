\* OrphanPeer: see README.md.
SPECIFICATION Spec
CONSTANTS
    r1 = r1
    r2 = r2
    i1 = i1
    i2 = i2
    t1 = t1
    t2 = t2
    a = a
    u = u
    s1 = s1
    Null = Null
    Janitor = Janitor
    Sessions <- OneSession
    Agents <- NoAgent
    RoomIds <- OneRoom
    PeerIds <- TwoPeers
    Threads <- OneThread
    Participants <- User
    PeerStates <- NoStates
    PublishModes <- Listen
    IdleTimeout = 1
    MaxClock = 1
    MaxFaults = 0
    MaxCallbacks = 1
    MayCrash = FALSE
    MayStop = FALSE
INVARIANTS
    ClosedSessionHasNoPeers
