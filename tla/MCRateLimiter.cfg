\* Two keys and a map that is cleaned from one key on, a process that is started
\* again once, two requests at a time, two minutes.
CONSTANTS
    Servers = {s1}
    Keys = {k1, k2}
    Requests = {r1, r2}
    Limit = 1
    Capacity = 1
    Horizon = 1
    MaxStarts = 2
SPECIFICATION Spec
SYMMETRY MCSymmetry
INVARIANTS
    TypeOK
    WithinLimit
    RefusedForCause
    MapBounded
