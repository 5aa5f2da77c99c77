\* Waste generators: one generator whose permits run out, or two that contend for
\* two numbers; two requests.
CONSTANTS
    NoContents = NoContents
    Parties = {p1, p2}
    Numbers = {n1, n2}
    Statuses <- MCGeneratorStates
    Graph <- MCGeneratorGraph
    FirstStatus = "active"
    Seeds <- MCGeneratorSeeds
    Cleared = "active"
    Requests = {r1, r2}
    MaxVersion = 3
    Horizon = 1
    Ahead = 0
SPECIFICATION MCSpec
SYMMETRY MCSymmetry
INVARIANTS
    TypeOK
PROPERTIES
    ImplementsRegister
    ImplementsLedger
    ClearedInDate
