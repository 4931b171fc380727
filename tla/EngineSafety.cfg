SPECIFICATION Spec
CONSTANTS
    Monitors = {m1}
    Probes = {p1, p2}
    Rules = {"down"}
    Tasks = {t1, t2}
    Ids = {1, 2}
    RuleKind <- OneDownRule
    Parents <- NoParents
    MinProbes = 2
    QuorumNum = 1
    QuorumDen = 1
    Regimes = {"mixed"}
    Faults = {"maintenance", "admin"}
    None = None
INVARIANT TypeOK
INVARIANT OneOpenIncident
INVARIANT PagerMatchesIncidents
SYMMETRY Interchangeable
PROPERTY ImplementsLifecycle
