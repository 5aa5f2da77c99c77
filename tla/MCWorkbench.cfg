\* The page of the manifests: two records and one to be created, pages of one
\* row, two calls at a time, two changes.
CONSTANTS
    r1 = r1
    r2 = r2
    r3 = r3
    Records <- MCRecords
    Seeded <- MCSeeded
    SeedStatus <- MCManifestSeeds
    FirstStatus = "draft"
    Graph <- MCManifestGraph
    MaxChanges = 2
    Key = "transferManifest"
    Calls = {c1, c2}
    PageSize = 1
    ReloadSize = 2
SPECIFICATION Spec
SYMMETRY MCSymmetry
INVARIANTS
    TypeOK
    SpinnerEnds
    ReadsOwnWrites
    SeenUnlessTouched
PROPERTIES
    ConfirmedFromSeen
