\* Recreate: see README.md.
SPECIFICATION Spec
CONSTANTS
    r1 = r1
    r2 = r2
    i1 = i1
    i2 = i2
    t1 = t1
    t2 = t2
    a = a
    u = u
    s1 = s1
    Null = Null
    Janitor = Janitor
    Sessions <- OneSession
    Agents <- Agent
    RoomIds <- TwoRooms
    PeerIds <- TwoPeers
    Threads <- TwoThreads
    Participants <- Both
    PeerStates <- NoStates
    PublishModes <- Listen
    IdleTimeout = 0
    MaxClock = 0
    MaxFaults = 1
    MaxCallbacks = 1
    MayCrash = TRUE
    MayStop = FALSE
SYMMETRY Symmetric
INVARIANTS
    TypeOK
    OneRuntimeRoomPerSession
    RuntimeOnlyActive
    RuntimeHasActiveRecord
    LocksAreReleased
PROPERTIES
    ImplementsContract
