SPECIFICATION FairSpec
CONSTANTS
    Monitors = {m1}
    Probes = {p1}
    Rules = {"down"}
    Tasks = {t1}
    Ids = {1, 2}
    RuleKind <- OneDownRule
    Parents <- NoParents
    MinProbes = 1
    QuorumNum = 1
    QuorumDen = 1
    Regimes = {"up", "down", "mixed"}
    Faults = {"maintenance"}
    None = None
PROPERTY RecoveryResolves
