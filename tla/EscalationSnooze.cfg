SPECIFICATION FairSpec
CONSTANTS
    Incidents = {i1}
    MaxRungs = 2
    RepeatCount = 1
    Cap = 1
    MaxCrashes = 0
    None = None
PROPERTY SnoozeResumes
CHECK_DEADLOCK FALSE
