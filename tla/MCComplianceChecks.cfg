\* One check, two manifests it may cite, two requests at a time.
CONSTANTS
    NoContents = NoContents
    Checks = {c1}
    Manifests = {m1, m2}
    Requests = {r1, r2}
    MaxVersion = 3
    Ahead = 0
SPECIFICATION Spec
SYMMETRY MCSymmetry
INVARIANTS
    TypeOK
    PassedWasSubmitted
PROPERTIES
    DecisionsStand
