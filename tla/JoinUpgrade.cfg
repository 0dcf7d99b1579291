\* JoinUpgrade: see README.md.
SPECIFICATION ProcessSpec
CONSTANTS
    c1 = c1
    c2 = c2
    Null = Null
    NoRequest = NoRequest
    Conns <- TwoConns
    Asks <- Clients
    Chains <- DeployedChain
    HeartbeatInterval = 1
    HeartbeatTTL = 0
    DefaultInterval = 10
    MaxFaults = 0
INVARIANTS
    JoinsAreUpgraded
