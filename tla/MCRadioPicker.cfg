\* Every catalog, skip set and set of unreadable files over four tracks, two of
\* them of one performer and two of Various Artists, with a banlist for every
\* history that the loop tells apart; four draws suffice for any slot.
CONSTANTS
    t1 = t1
    t2 = t2
    t3 = t3
    t4 = t4
    p1 = p1
    Track = {t1, t2, t3, t4}
    Performer <- OneAndVA
    VA = VA
    BatchSize = 2
    BanlistMax = 3
    PickAttempts = 4
    Banlist <- Histories
SPECIFICATION FairSpec
INVARIANTS
    ReturnsAPick
    OnePerPerformer
    EmptyMeansNothing
PROPERTIES
    Terminates
