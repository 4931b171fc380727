SPECIFICATION FairLoops
CONSTANTS
    Replicas = {r1, r2}
    Nobody = Nobody
    Ttl = 6
    RenewEvery = 2
    Slack = 1
    Faults = {"redis", "renewer"}
    Components = {"rollup"}
    Jobs = {"j1", "j2"} Checkers = {"c1", "c2"} MaxErrors = 1
    Monitors = {1, 2} Keep <- MCKeep PartitionSlots = 2
    MaxBuckets = 2 RecomputeHours = 1 ReadHours = 1 LastSlot = 6
    MaxResults = 2 MaxLate = 1 MaxFailures = 1
    ReportMonitors = {1} ReportReadHours = 2 ReportLastSlot = 4
    ReportMaxLate = 0 ReportMaxFailures = 0
    KeepShort = 100
    KeepLong = 100
PROPERTY
    GapCrossed
