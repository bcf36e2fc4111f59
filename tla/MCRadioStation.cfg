\* Three tracks of three performers, batches of two: three tracks pass, a file
\* changes, two debug commands, one stop or crash, one failed commit.  The
\* behaviours end when the bounds are used up.
CONSTANTS
    Track = {t1, t2, t3}
    Performer <- OwnPerformer
    Duration <- OneUnit
    VA = VA
    None = None
    BatchSize = 2
    BanlistMax = 2
    MaxTime = 2
    MaxSeq = 4
    MaxCommands = 2
    MaxScans = 0
    MaxChanges = 1
    MaxStops = 1
    MaxFaults = 1
SPECIFICATION Spec
SYMMETRY Interchangeable
CHECK_DEADLOCK FALSE
INVARIANTS
    PlaceKept
    RetainsWhatPlays
    StartedInThePast
    RowsAreTheStation
    FaceIsTheStation
    NumbersAhead
