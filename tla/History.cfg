\* History: see README.md.
SPECIFICATION Spec
CONSTANTS
    t1 = t1
    d1 = d1
    d2 = d2
    Null = Null
    Janitor = Janitor
    Threads <- OneThread
    Channels <- TwoChannels
    RuntimeEventHistoryLimit = 2
    MaxEvents = 3
    MaxFaults = 1
SYMMETRY Symmetric
INVARIANTS
    HistoryIsOrdered
    HistoryHasNoGaps
    HistoryIsRecorded
