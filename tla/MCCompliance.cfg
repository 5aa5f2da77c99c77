\* One check; one manifest that is worked on and one that stays as it was seeded;
\* two generators to move the manifest between; two requests to each service, of
\* which the scenes of MCCompliance let two be in flight.
CONSTANTS
    NoContents = NoContents
    Checks = {c1}
    Manifests = {m1, m2}
    Seeded = m2
    Generators = {g1, g2}
    Carriers = {h1}
    Requests = {r1, r2}
    ManifestRequests = {s1, s2}
    MaxVersion = 2
    ManifestVersions = 2
    Ahead = 0
SPECIFICATION MCSpec
SYMMETRY MCSymmetry
VIEW MCView
INVARIANTS
    PassRestsOnParties
PROPERTIES
    EvidenceStands
