SPECIFICATION Spec
CONSTANTS
    Incidents = {i1}
    MaxRungs = 2
    RepeatCount = 1
    Cap = 1
    MaxCrashes = 0
    None = None
PROPERTY NoPageAfterResolve
CHECK_DEADLOCK FALSE
