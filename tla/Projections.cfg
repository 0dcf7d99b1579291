\* Projections: see README.md.
SPECIFICATION ReportsSpec
CONSTANTS
    r1 = r1
    s1 = s1
    s2 = s2
    a = a
    u = u
    v = v
    Null = Null
    RoomIds <- OneRoom
    Sessions <- OneSession
    Participants <- Three
    Agents <- OneAgent
    Rank <- AgentInTheMiddle
    Companions <- OtherRoom
CHECK_DEADLOCK FALSE
INVARIANTS
    ConnectionStateIsDetermined
    MediaStateIsDetermined
    FailedAgentTrackShows
    AnswerIsConsistent
    StatsAddUp
    StatsAgreeWithAnswer
