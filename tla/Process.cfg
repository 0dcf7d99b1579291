\* Process: see README.md.
SPECIFICATION FairProcessSpec
CONSTANTS
    c1 = c1
    c2 = c2
    Null = Null
    NoRequest = NoRequest
    Conns <- TwoConns
    Asks <- Clients
    Chains <- BareOrFull
    HeartbeatInterval = 1
    HeartbeatTTL = 0
    DefaultInterval = 10
    MaxFaults = 2
INVARIANTS
    UpIsKnown
    StoppedIsUnlisted
    SweepIsAlone
    ServesWhileListed
    AnswerIsWhole
    LoggedStatusIsSent
PROPERTIES
    DownIsSilent
    DeadServerExpires
    StopEnds
