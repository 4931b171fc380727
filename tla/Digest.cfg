SPECIFICATION FairSpec
CONSTANTS
    NoRule = NoRule r1 = r1 r2 = r2 a = a b = b c = c
    Rules = {r1, r2}
    Alerts = {a, b, c}
    RuleOf <- MCRuleOf
    Openings = {b, c}
    Channels = 1
    MaxFaults = 1
INVARIANTS
    TypeOK
    
    DigestedOnce

    
CHECK_DEADLOCK FALSE
