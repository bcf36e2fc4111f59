\* Two threads, four sectors, a ring of two, two requests.
CONSTANTS
    Thread = {t1, t2}
    Count = 4
    RingSectors = 2
    MaxSeeks = 2
    MaxFails = 1
    None = None
SPECIFICATION Spec
CHECK_DEADLOCK FALSE
INVARIANTS
    RingIsTheTrack
