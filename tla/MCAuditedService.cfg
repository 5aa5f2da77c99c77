\* One record with two possible contents, two requests with one lookup each,
\* two instants, and summaries that reach back to neither, one or both.
CONSTANTS
    NoContents = NoContents
    Records = {k1}
    RecordContents = {c1, c2}
    Requests = {r1, r2}
    Stages = {"lookup"}
    Graph <- MCGraph
    Statuses <- MCStatuses
    FirstStatus = "pending"
    Seeds <- MCSeeds
    Editable = {"pending"}
    Removable = {"pending"}
    MaxVersion = 3
    Ahead = 0
    Window = 0
    Horizon = 1
SPECIFICATION TrailSpec
SYMMETRY MCSymmetry
INVARIANTS
    ServiceTypeOK
    ReadIsCurrent
    TrailExplainsRow
    HistoryInOrder
    SummaryNested
PROPERTIES
    FrozenUnlessEditable
    ImplementsLedger
