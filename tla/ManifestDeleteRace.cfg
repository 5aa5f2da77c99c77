\* A deletion and a submission of the same draft, in flight together.
CONSTANTS
    NoContents = NoContents
    Manifests = {m1}
    Generators = {g1}
    Carriers = {c1}
    Requests = {r1, r2}
    MaxVersion = 3
    Ahead = 0
SPECIFICATION Spec
INVARIANT
    SubmittedRetained
