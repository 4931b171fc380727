SPECIFICATION FairSpec
CONSTANTS
    Incidents = {i1}
    MaxRungs = 2
    RepeatCount = 1
    Cap = 1
    MaxCrashes = 1
    None = None
INVARIANT TypeOK
INVARIANT LadderOnlyWhileOpen
INVARIANT ClimbsUpwards
PROPERTY SomebodyHears
PROPERTY LadderEnds
CHECK_DEADLOCK FALSE
