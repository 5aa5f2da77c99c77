------------------------------- MODULE Startup -------------------------------
(***************************************************************************)
(* How server processes start over one database, and start again: main,    *)
(* Open and Seed, statement by statement.  A process loads and validates   *)
(* its configuration, tries to connect, creates the tables that are        *)
(* missing, seeds each table that has no live row with one insert, pings   *)
(* Redis if it is told of one, and serves.  When a step fails it exits,    *)
(* and the container is started again (restart: unless-stopped).           *)
(*                                                                         *)
(* A table is as much as migration and seeding can tell: whether it        *)
(* exists, whether its seeded rows are there, and whether any row is live. *)
(* Rows are soft-deleted, and the unique index on the code covers deleted  *)
(* rows.                                                                   *)
(***************************************************************************)
EXTENDS Configuration, Naturals, Sequences

CONSTANTS
    Servers,        \* server processes
    Tables,         \* the seeded tables, in the order in which Seed takes them
    Accounts,       \* the table of users, from which rows are deleted for good
    Erasable,       \* the tables whose every row the API would delete
    Environment,    \* the environments the deployment may have given them
    MaxAttempts,    \* attempts to connect (20)
    MaxCrashes      \* bound: crashes and stops of processes

ASSUME TablesAssumption ==
    /\ Len(Tables) \in Nat
    /\ Accounts \in {Tables[i] : i \in 1..Len(Tables)}
    /\ Erasable \subseteq {Tables[i] : i \in 1..Len(Tables)} \ {Accounts}

ASSUME EnvironmentAssumption == \A e \in Environment : IsEnvironment(e)

ASSUME AttemptsAssumption == MaxAttempts \in Nat \ {0} /\ MaxCrashes \in Nat

VARIABLES
    environment,    \* the environment of the processes
    reachable,      \* do the database and Redis answer?
    table,          \* table[t]: what is in table t
    server,         \* server[s]: how far process s has come
    crashes,        \* crashes so far
    seeded          \* history: seeded[t], how often the seeds of t were inserted

vars == <<environment, reachable, table, server, crashes, seeded>>

TableNames == {Tables[i] : i \in 1..Len(Tables)}

\* "missing": not created yet; "empty": no row at all; "full": every seeded row is
\* live; "part": seeded rows were deleted, but some row is live; "buried": there are
\* rows, all deleted.
Contents == {"missing", "empty", "full", "part", "buried"}

\* A process that is down, or serves.
Stage(stage) == [stage |-> stage, at |-> 0, late |-> FALSE]

\* A start: the attempt or the table it is at, and whether it is late, having waited
\* for the database: the context of the start may then run out at any time.
Starting(stage, at, late) == [stage |-> stage, at |-> at, late |-> late]

StartupInit ==
    /\ environment \in Environment
    /\ reachable \in BOOLEAN
    /\ table = [t \in TableNames |-> "missing"]
    /\ server = [s \in Servers |-> Stage("down")]
    /\ crashes = 0
    /\ seeded = [t \in TableNames |-> 0]

Goto(s, place) == server' = [server EXCEPT ![s] = place]

Unshared == UNCHANGED <<environment, reachable, table, crashes, seeded>>

\* os.Exit(1).
Exit(s) == Goto(s, Stage("down")) /\ Unshared
-----------------------------------------------------------------------------
(* main and Open                                                           *)

Configure(s) ==
    /\ server[s].stage = "down"
    /\ IF Valid(Loaded(environment))
       THEN Goto(s, Starting("connect", 1, FALSE)) /\ Unshared
       ELSE Exit(s)

\* A call under the context of the start can fail.
MayFail(s) == ~reachable \/ server[s].late

\* An attempt to open and ping the database; at is its number.  The second ping of a
\* failed attempt, made for its error, may find the database back: after the last
\* attempt Open then goes on.
Connect(s) ==
    /\ server[s].stage = "connect"
    /\ \/ reachable /\ Goto(s, Starting("migrate", 1, server[s].late)) /\ Unshared
       \/ /\ ~reachable /\ server[s].at < MaxAttempts
          /\ Goto(s, Starting("connect", server[s].at + 1, TRUE)) /\ Unshared
       \/ /\ ~reachable /\ server[s].at = MaxAttempts
          /\ Goto(s, Starting("migrate", 1, TRUE)) /\ Unshared
       \/ MayFail(s) /\ Exit(s)

Current(s) == Tables[server[s].at]

AfterMigrating(s) ==
    IF server[s].at < Len(Tables) THEN Starting("migrate", server[s].at + 1, server[s].late)
    ELSE Starting("count", 1, server[s].late)

\* AutoMigrate asks for each table in turn whether it exists; it is not under the
\* context of the start.
Migrate(s) ==
    /\ server[s].stage = "migrate"
    /\ IF ~reachable THEN Exit(s)
       ELSE /\ Goto(s, IF table[Current(s)] = "missing" THEN [server[s] EXCEPT !.stage = "create"]
                       ELSE AfterMigrating(s))
            /\ Unshared

\* It creates the table unless another process has done so meanwhile, which is an error.
CreateTable(s) ==
    /\ server[s].stage = "create"
    /\ IF reachable /\ table[Current(s)] = "missing"
       THEN /\ table' = [table EXCEPT ![Current(s)] = "empty"]
            /\ Goto(s, AfterMigrating(s))
            /\ UNCHANGED <<environment, reachable, crashes, seeded>>
       ELSE Exit(s)

\* The ping is made if there is an address of Redis.
PingRedis(s) ==
    /\ server[s].stage = "redis"
    /\ \/ (Loaded(environment).redis => reachable) /\ Goto(s, Stage("serving")) /\ Unshared
       \/ Loaded(environment).redis /\ MayFail(s) /\ Exit(s)
-----------------------------------------------------------------------------
(* Seed                                                                    *)

\* Mutant of AfterTable: one table too many.
AfterTablePast(s) ==
    IF server[s].at <= Len(Tables) THEN Starting("count", server[s].at + 1, server[s].late)
    ELSE Starting("redis", 0, server[s].late)

\* After a table the next one, after the last the connection to Redis.
AfterTable(s) ==
    IF server[s].at < Len(Tables) THEN Starting("count", server[s].at + 1, server[s].late)
    ELSE Starting("redis", 0, server[s].late)

\* Mutant of CountsNone: a table is seeded again as soon as a seed is missing.
CountsFew(t) == table[t] # "full"

\* The count sees live rows only.
CountsNone(t) == table[t] \in {"empty", "buried"}

\* A count fails if the table does not exist, which its migration has seen to.
CountRows(s) ==
    /\ server[s].stage = "count"
    /\ \/ (MayFail(s) \/ table[Current(s)] = "missing") /\ Exit(s)
       \/ /\ reachable /\ table[Current(s)] # "missing"
          /\ Goto(s, IF CountsNone(Current(s)) THEN [server[s] EXCEPT !.stage = "insert"]
                     ELSE AfterTable(s))
          /\ Unshared

CodesFreeAmongLive(t) == table[t] \in {"empty", "buried"}    \* mutant of CodesFree

\* The unique index has none of the seeded codes.
CodesFree(t) == table[t] = "empty"

\* Mutant of InsertSeeds: the error of the insert is not looked at.
InsertSeedsUnchecked(s) ==
    /\ server[s].stage = "insert"
    /\ LET t == Current(s)
           done == reachable /\ CodesFree(t)
       IN /\ table' = [table EXCEPT ![t] = IF done THEN "full" ELSE @]
          /\ seeded' = [seeded EXCEPT ![t] = IF done THEN @ + 1 ELSE @]
    /\ Goto(s, AfterTable(s))
    /\ UNCHANGED <<environment, reachable, crashes>>

\* One statement inserts every seed of the table, or none.
InsertSeeds(s) ==
    /\ server[s].stage = "insert"
    /\ \/ (MayFail(s) \/ ~CodesFree(Current(s))) /\ Exit(s)
       \/ /\ reachable /\ CodesFree(Current(s))
          /\ table' = [table EXCEPT ![Current(s)] = "full"]
          /\ seeded' = [seeded EXCEPT ![Current(s)] = @ + 1]
          /\ Goto(s, AfterTable(s))
          /\ UNCHANGED <<environment, reachable, crashes>>
-----------------------------------------------------------------------------
(* What happens around a starting process                                  *)

\* A process crashes or is stopped; what it has committed stays.
Crash(s) ==
    /\ server[s].stage # "down"
    /\ crashes < MaxCrashes
    /\ crashes' = crashes + 1
    /\ Goto(s, Stage("down"))
    /\ UNCHANGED <<environment, reachable, table, seeded>>

\* The database, Redis or the network fails, or comes back.
Flip ==
    /\ reachable' = ~reachable
    /\ UNCHANGED <<environment, table, server, crashes, seeded>>

Served == \E s \in Servers : server[s].stage = "serving"

Become(t, contents) ==
    /\ table' = [table EXCEPT ![t] = contents]
    /\ UNCHANGED <<environment, reachable, server, crashes, seeded>>

\* Deletions by administrators, seen as far as seeding is concerned.
DeleteRows(t) ==
    /\ Served /\ reachable
    /\ \/ table[t] = "full" /\ t # Accounts /\ Become(t, "part")
       \/ table[t] \in {"full", "part"} /\ t \in Erasable /\ Become(t, "buried")

\* A record with a new code is created in a table of deleted ones.
CreateRow(t) ==
    /\ Served /\ reachable
    /\ table[t] = "buried"
    /\ Become(t, "part")

\* The accounts are deleted in the database: some, or all of them.
DropAccounts ==
    \/ table[Accounts] = "full" /\ Become(Accounts, "part")
    \/ table[Accounts] \in {"full", "part"} /\ seeded[Accounts] = 1 /\ Become(Accounts, "empty")
-----------------------------------------------------------------------------
ServerStep(s) ==
    \/ Configure(s) \/ Connect(s) \/ Migrate(s) \/ CreateTable(s)
    \/ CountRows(s) \/ InsertSeeds(s) \/ PingRedis(s)

StartupNext ==
    \/ \E s \in Servers : ServerStep(s) \/ Crash(s)
    \/ Flip \/ DropAccounts
    \/ \E t \in TableNames : DeleteRows(t) \/ CreateRow(t)

\* A process that can take a step takes it: it runs, and what has exited is
\* started again.  Nothing is assumed of crashes, failures and users.
Fairness == \A s \in Servers : WF_vars(ServerStep(s))

StartupSpec == StartupInit /\ [][StartupNext]_vars /\ Fairness
-----------------------------------------------------------------------------
(* The properties                                                          *)

Place ==
    {Stage(stage) : stage \in {"down", "serving"}}
    \cup [stage : {"connect"}, at : 1..MaxAttempts, late : BOOLEAN]
    \cup [stage : {"migrate", "create", "count", "insert"}, at : 1..Len(Tables), late : BOOLEAN]
    \cup [stage : {"redis"}, at : {0}, late : BOOLEAN]

TypeOK ==
    /\ environment \in Environment
    /\ reachable \in BOOLEAN
    /\ table \in [TableNames -> Contents]
    /\ server \in [Servers -> Place]
    /\ crashes \in 0..MaxCrashes
    /\ seeded \in [TableNames -> Nat]

\* Whatever processes seed at the same time, crash half-way and start again, the
\* demonstration rows of a table are inserted once, and deleted ones are not
\* brought back (count and insert are two statements; Accounts excepted, whose
\* rows can be deleted for good).
SeededOnce == \A t \in TableNames \ {Accounts} : seeded[t] <= 1

\* A process serves only when every table has been seeded, by it or by another:
\* the workbench and the services count on WG-001, CP-002 and TM-002 to exist.
ServesSeeded == Served => \A t \in TableNames : seeded[t] > 0

\* Process s has come past the i-th table.
Past(s, i) ==
    \/ server[s].stage \in {"redis", "serving"}
    \/ server[s].stage \in {"count", "insert"} /\ server[s].at > i

\* Every row of a table is deleted, and no process has got past that table.
Blocked ==
    \E i \in 1..Len(Tables) :
        /\ Tables[i] # Accounts /\ table[Tables[i]] = "buried"
        /\ \A s \in Servers : ~Past(s, i)

\* What a restart cannot mend: once every row of a table has been deleted and the
\* last process that was past it is gone, no start, restart or race of starts
\* brings the system back, although each failure of a start is retried.  The count
\* that decides to seed sees no row where the index that refuses the seeds sees them,
\* and the API that could create a row is not served.
OutageLasts == [][Blocked => Blocked']_vars

\* Once the database and Redis stay up, every process comes to serve and goes on
\* serving, through races with other processes for the seeds and through crashes
\* between any two statements, provided that no table keeps being without a live
\* row: that is the one state of the database a start cannot get over.
Recovers ==
    \A s \in Servers :
        <>[](reachable /\ \A t \in TableNames : table[t] # "buried")
        => \/ ~Valid(Loaded(environment))
           \/ <>[](server[s].stage = "serving")
=============================================================================
