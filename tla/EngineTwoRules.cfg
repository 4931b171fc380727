SPECIFICATION Spec
CONSTANTS
    Monitors = {m1}
    Probes = {p1, p2}
    Rules = {"down", "slow"}
    Tasks = {t1, t2}
    Ids = {1, 2, 3}
    RuleKind <- DownAndSlow
    Parents <- NoParents
    MinProbes = 2
    QuorumNum = 1
    QuorumDen = 1
    Regimes = {"mixed"}
    Faults = {}
    None = None
INVARIANT PagerMatchesIncidents
SYMMETRY Interchangeable
