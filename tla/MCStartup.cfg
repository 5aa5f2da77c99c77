\* Two processes, three tables: accounts, one whose every row can be deleted,
\* and one of which some rows stay; two attempts to connect, two crashes.
CONSTANTS
    Servers = {s1, s2}
    Tables <- MCTables
    Accounts = "users"
    Erasable = {"generators"}
    Environment <- MCEnvironment
    MaxAttempts = 2
    MaxCrashes = 2
SPECIFICATION StartupSpec
INVARIANTS
    TypeOK
    SeededOnce
    ServesSeeded
PROPERTIES
    OutageLasts
    Recovers
