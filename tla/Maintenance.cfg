\* Maintenance: see README.md.
SPECIFICATION FairSpec
CONSTANTS
    r1 = r1
    r2 = r2
    i1 = i1
    i2 = i2
    t1 = t1
    t2 = t2
    a = a
    u = u
    s1 = s1
    Null = Null
    Janitor = Janitor
    Sessions <- OneSession
    Agents <- NoAgent
    RoomIds <- TwoRooms
    PeerIds <- OnePeer
    Threads <- OneThread
    Participants <- User
    PeerStates <- NoStates
    PublishModes <- Listen
    IdleTimeout = 1
    MaxClock = 1
    MaxFaults = 1
    MaxCallbacks = 1
    MayCrash = FALSE
    MayStop = TRUE
INVARIANTS
    ServiceInvariant
    FreshRoomIsReflected
PROPERTIES
    IdleRoomsAreClosed
