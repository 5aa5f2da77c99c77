\* A decision and an edit that names the version the decision will produce.
CONSTANTS
    NoContents = NoContents
    Checks = {c1}
    Manifests = {m1}
    Requests = {r1, r2}
    MaxVersion = 3
    Ahead = 1
SPECIFICATION Spec
PROPERTY
    DecisionsStand
