\* One caller and three requests: a prewarm, a request that preempts it, and a
\* play that joins the encode that was asked to stop.  No symmetry under
\* liveness.  The system may stop once it is down: whether it stops with a
\* thread still blocked is what the properties ask, and MCTranscoder.cfg
\* checks deadlock.
CONSTANTS
    Path = {p1, p2}
    Profile = {f}
    Caller = {c1}
    MaxPending = 1
    MaxAsk = 3
    None = None
SPECIFICATION FairSpec
CHECK_DEADLOCK FALSE
PROPERTIES
    PlayAnswered
    EvictionEnds
    ShutdownReleases
