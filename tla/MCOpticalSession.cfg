\* One drive, two audio discs and two data discs: three commands, three moves
\* of a disc or of its mount, two failed calls.  Nobody has to ask for anything,
\* so the system may stop.
CONSTANTS
    Drive = {d1}
    Audio = {a, b}
    Volume = {v, w}
    None = None
    MaxMoves = 3
    MaxAsks = 3
    MaxFaults = 2
SPECIFICATION FairSpec
CHECK_DEADLOCK FALSE
PROPERTIES
    ClientSees
    KeepsFace
