SPECIFICATION FairSpec
CONSTANTS
    Monitors = {m1}
    Probes = {p1}
    Rules = {"down"}
    Tasks = {t1, t2}
    Ids = {1, 2}
    RuleKind <- OneDownRule
    Parents <- NoParents
    MinProbes = 1
    QuorumNum = 1
    QuorumDen = 1
    Regimes = {"up", "down", "mixed"}
    Faults = {"crash"}
    None = None
PROPERTY OutageOpens
PROPERTY RecoveryResolves
