\* It stops when its scans, changes and events are spent: deadlock is not checked.
CONSTANTS
    a = a
    b = b
    d1 = d1
    Path = {a, b}
    Dir <- OneFolder
    Content = {c1, c2}
    Lossy = {c2}
    Slot = {s1}
    Elsewhere = Elsewhere
    BatchSize = 2
    None = None
    MaxScans = 2
    MaxChanges = 2
    MaxEvents = 2
SPECIFICATION Spec
SYMMETRY Interchangeable
CHECK_DEADLOCK FALSE
INVARIANTS
    UniqueColumns
    IdsKept
    StaysListed
    IndexIsTruth
