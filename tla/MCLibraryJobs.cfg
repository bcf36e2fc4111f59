CONSTANTS
    Album = {c1}
    Artist = {a1}
    Track = {t1}
    Providers = 2
    CommitEvery = 2
    LyricsFetch = TRUE
    Nothing = Nothing
    MaxJobs = 2
    MaxLives = 2
    MaxFaults = 1
SPECIFICATION FairSpec
CHECK_DEADLOCK FALSE
INVARIANTS
    RowTellsTheJob
    CancelHitsItsJob
    ArtMatchesDisk
PROPERTIES
    GoodLyricsKept
    CliReturns
CONSTRAINTS
    Apart
    OneArt
