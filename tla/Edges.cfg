SPECIFICATION FairEdges
CONSTANTS
    Components = {"reporter", "discovery", "config", "sync",
                  "oncall", "metrics"}
    MaxResults = 3
    QueueMaxSize = 2
    FlushBatchSize = 1
    SpillRetryEvery = 2
    Attempts = 2
    MaxEntries = 1
    CompactAt = 2
    MaxRestarts = 1
    DiskMayFail = TRUE
    Runners = {"p1", "p2"} Targets = {"t1"} Natures = {"n1", "n2"} Reviewers = {"u1"}
    FullView = TRUE MaxChanges = 2 MaxReviews = 2
    Groups = {"g"} Monitors = {"m"} Channels = {"c"}
    Settings = {"s0", "s1"} Default = "s0" MaxRules = 2 MaxEdits = 4
    Probes = {1, 2} Nobody = 0 Versions = {1}
    MaxConfigEdits = 1 MaxTriggers = 2 MaxFaults = 1
    DayLength = 4 Saving = 2 Periods = {1, 2} MaxPeople = 2 Anchors = {0, 5, 9}
    Stations = {3, 5, 8} LastSlot = 12 MaxOverrides = 1
    Requests = {"q1", "q2"} Series = {"w", "x", "y", "z"} Batches <- MCBatches
    MaxPoints = 3 MaxSeries = 2 LastMinute = 1 MaxPushes = 3
INVARIANTS
    EdgesTypeOK
    
    AnsweredNotKept
    InventoryAgrees
    
    RequestKept
    RotationAgrees
    LimitsHeld
    
PROPERTIES
    EverySettled
    RefusalKept
    InventorySettles
    FleetSettles
CHECK_DEADLOCK FALSE
