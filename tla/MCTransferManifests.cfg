\* One manifest, two generators to move it between, two requests at a time.
CONSTANTS
    NoContents = NoContents
    Manifests = {m1}
    Generators = {g1, g2}
    Carriers = {c1}
    Requests = {r1, r2}
    MaxVersion = 3
    Ahead = 0
SPECIFICATION Spec
SYMMETRY RequestSymmetry
INVARIANTS
    TypeOK
PROPERTIES
    PartiesReverified
    ImplementsBoard
