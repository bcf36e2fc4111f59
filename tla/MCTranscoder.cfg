\* Two calls in progress at a time and three in all, two tracks, one profile:
\* a play and two prewarms race with each other, an eviction and a shutdown,
\* and a deque of one job is at its cap.
CONSTANTS
    Path = {p1, p2}
    Profile = {f}
    Caller = {c1, c2}
    MaxPending = 1
    MaxAsk = 3
    None = None
SPECIFICATION Spec
SYMMETRY Interchangeable
INVARIANTS
    JobsPlacedOnce
    PreemptionPending
    WaiterHasJob
    WholeFilesOnly
    PurgedIsWaitedFor
