\* Two carriers that may want the same licence number, one request at a time.
CONSTANTS
    NoContents = NoContents
    Parties = {p1, p2}
    Numbers = {n1, n2}
    Statuses <- MCCarrierStates
    Graph <- MCCarrierGraph
    FirstStatus = "pending"
    Seeds <- MCCarrierSeeds
    Cleared = "verified"
    Requests = {r1}
    MaxVersion = 2
    Horizon = 1
    Ahead = 0
SPECIFICATION Spec
SYMMETRY MCSymmetry
PROPERTIES
    ClearedAsReviewed
