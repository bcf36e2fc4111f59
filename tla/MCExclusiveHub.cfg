\* Two tabs, two sockets at a time, two devices.
\* A socket that is gone is used again, so behaviours do not end.
CONSTANTS
    Session = {s1, s2}
    Conn = {c1, c2}
    Device = {d1, d2}
    Ttl = Ttl
    None = None
SPECIFICATION Spec
SYMMETRY Interchangeable
INVARIANTS
    OneController
    FreeIsReleased
    VolumeRestored
