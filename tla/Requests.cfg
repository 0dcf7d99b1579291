\* Requests: see README.md.
SPECIFICATION Spec
CONSTANTS
    r1 = r1
    r2 = r2
    i1 = i1
    i2 = i2
    t1 = t1
    t2 = t2
    a = a
    u = u
    s1 = s1
    Null = Null
    Janitor = Janitor
    Sessions <- OneSession
    Agents <- Agent
    RoomIds <- OneRoom
    PeerIds <- TwoPeers
    Threads <- OneThread
    Participants <- Both
    PeerStates <- FailedOnly
    PublishModes <- Publish
    IdleTimeout = 0
    MaxClock = 0
    MaxFaults = 1
    MaxCallbacks = 1
    MayCrash = FALSE
    MayStop = FALSE
SYMMETRY PeerSymmetric
INVARIANTS
    RuntimeHasActiveRecord
    RegisteredAreMembers
    LiveStateMirrorsRoom
    RoomsFailWithTheirAgent
PROPERTIES
    TerminalSticky
    ShownEndIsFinal
