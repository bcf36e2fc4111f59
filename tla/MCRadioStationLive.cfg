\* No symmetry under liveness: two tracks, one of which may vanish or break
\* and come back, a scan, a stop; MaxSeq is never reached.
CONSTANTS
    Track = {t1, t2}
    Performer <- OwnPerformer
    Duration <- OneUnit
    VA = VA
    None = None
    BatchSize = 2
    BanlistMax = 2
    MaxTime = 2
    MaxSeq = 6
    MaxCommands = 0
    MaxScans = 1
    MaxChanges = 1
    MaxStops = 1
    MaxFaults = 0
SPECIFICATION FairSpec
CHECK_DEADLOCK FALSE
PROPERTIES
    ClockCatchesUp
    IdleEnds
