CONSTANTS
    Track = {t1, t2}
    Cap = {1, 2}
    MaxId = 3
    Pump = {1}
    Job = {1, 2}
    Sweep = {1}
    MaxEvents = 2
    None = None
SPECIFICATION FairSpec
CHECK_DEADLOCK FALSE
INVARIANTS
    FilesHold
PROPERTIES
    PendingDrains
CONSTRAINT Apart
