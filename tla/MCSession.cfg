CONSTANTS
    Accounts = {a1}
    AccountStates <- MCAccountStates
    Calls = {c1, c2}
    Routes <- MCRoutes
    TTL = 1
    Horizon = 2
    NoToken = NoToken
    MaxReloads = 1
SPECIFICATION SessionSpec
INVARIANTS
    TypeOK
    StaleAtMostTTL
    OfferedIsAllowed
    ActsAsShown
    LostOnlyByExpiry
PROPERTIES
    LoggedOutStaysOut
    LoadingEnds
