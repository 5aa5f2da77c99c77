---------------------------- MODULE DatabaseProofs ----------------------------
(***************************************************************************)
(* Theorems about what the database holds.                                 *)
(*                                                                         *)
(* How its tables come to be seeded (Startup): for any number of           *)
(* processes, tables, attempts and crashes, and whatever the environment   *)
(* holds.                                                                  *)
(*                                                                         *)
(* What its audit log tells (AuditTrail): for any graph, lookups, number   *)
(* of requests, window and clock; about the history of an entity, when     *)
(* clients wait for the answers to their requests; and about summaries,    *)
(* whatever they do.                                                       *)
(***************************************************************************)
EXTENDS Startup, AuditTrail, AuditedServiceProofs, FiniteSetTheorems
-----------------------------------------------------------------------------
(* Seeding                                                                 *)

\* The tables that process s has behind it: seeded by it, or found with live rows.
Passed(place) ==
    IF place.stage \in {"count", "insert"} THEN {Tables[i] : i \in 1..(place.at - 1)}
    ELSE IF place.stage \in {"redis", "serving"} THEN TableNames
    ELSE {}

\* The inductive invariant.  A table that has rows has been seeded, and one that has
\* none has not, unless its rows can be deleted for good.
StartupInv ==
    /\ TypeOK
    /\ \A t \in TableNames : table[t] \notin {"missing", "empty"} => seeded[t] > 0
    /\ \A t \in TableNames \ {Accounts} :
          seeded[t] <= 1 /\ (table[t] \in {"missing", "empty"} => seeded[t] = 0)
    /\ \A s \in Servers : \A t \in Passed(server[s]) : seeded[t] > 0

LEMMA Sizes ==
    /\ Len(Tables) \in Nat /\ Len(Tables) >= 1 /\ Accounts \in TableNames
    /\ MaxAttempts \in Nat /\ MaxAttempts >= 1 /\ MaxCrashes \in Nat
<1>1. Len(Tables) \in Nat /\ Accounts \in TableNames
  BY TablesAssumption DEF TableNames
<1>2. PICK i \in 1..Len(Tables) : Accounts = Tables[i]
  BY TablesAssumption
<1>. QED
  BY <1>1, <1>2, AttemptsAssumption

LEMMA StagePlaces ==
    /\ \A stage \in {"down", "serving"} : Stage(stage) \in Place /\ Stage(stage).stage = stage
    /\ \A i \in 1..Len(Tables), stage \in {"migrate", "create", "count", "insert"}, late \in BOOLEAN :
          /\ Starting(stage, i, late) \in Place
          /\ Starting(stage, i, late).stage = stage /\ Starting(stage, i, late).at = i
    /\ \A i \in 1..MaxAttempts, late \in BOOLEAN :
          Starting("connect", i, late) \in Place /\ Starting("connect", i, late).stage = "connect"
    /\ \A late \in BOOLEAN :
          Starting("redis", 0, late) \in Place /\ Starting("redis", 0, late).stage = "redis"
BY DEF Stage, Starting, Place

LEMMA PlaceShapes ==
    ASSUME NEW place \in Place
    PROVE  /\ place.late \in BOOLEAN
           /\ place.stage \in {"migrate", "create", "count", "insert"} =>
                 place.at \in 1..Len(Tables) /\ place = Starting(place.stage, place.at, place.late)
           /\ place.stage = "connect" => place.at \in 1..MaxAttempts
           /\ Passed(place) \subseteq TableNames
<1>1. CASE place \in {Stage(stage) : stage \in {"down", "serving"}}
  <2>1. place.late = FALSE /\ place.stage \in {"down", "serving"}
    BY <1>1 DEF Stage
  <2>. QED
    BY <2>1 DEF Passed
<1>2. CASE place \in [stage : {"connect"}, at : 1..MaxAttempts, late : BOOLEAN]
  BY <1>2 DEF Passed
<1>3. CASE place \in [stage : {"migrate", "create", "count", "insert"}, at : 1..Len(Tables), late : BOOLEAN]
  <2>1. place.at \in 1..Len(Tables) /\ place = Starting(place.stage, place.at, place.late)
        /\ place.late \in BOOLEAN /\ place.stage \in {"migrate", "create", "count", "insert"}
    BY <1>3 DEF Starting
  <2>2. 1..(place.at - 1) \subseteq 1..Len(Tables)
    BY <2>1, Sizes
  <2>. QED
    BY <2>1, <2>2 DEF Passed, TableNames
<1>4. CASE place \in [stage : {"redis"}, at : {0}, late : BOOLEAN]
  BY <1>4 DEF Passed
<1>. QED
  BY <1>1, <1>2, <1>3, <1>4 DEF Place

LEMMA Initially == StartupInit => StartupInv
<1>. SUFFICES ASSUME StartupInit PROVE StartupInv
  OBVIOUS
<1>1. \A s \in Servers : server[s].stage = "down"
  BY DEF StartupInit, Stage
<1>2. server \in [Servers -> Place]
  BY StagePlaces DEF StartupInit
<1>3. \A t \in TableNames : table[t] = "missing" /\ seeded[t] = 0
  BY DEF StartupInit
<1>4. TypeOK
  BY <1>2, Sizes DEF StartupInit, TypeOK, Contents
<1>. QED
  BY <1>1, <1>3, <1>4 DEF StartupInv, Passed

\* Only the place of process s changes.
LEMMA GotoKeeps ==
    ASSUME StartupInv, NEW s \in Servers, NEW place \in Place, Goto(s, place), Unshared,
           \A t \in Passed(place) : seeded[t] > 0
    PROVE  StartupInv'
<1>1. /\ server' = [server EXCEPT ![s] = place] /\ server \in [Servers -> Place]
      /\ UNCHANGED <<environment, reachable, table, crashes, seeded>>
  BY DEF Goto, Unshared, StartupInv, TypeOK
<1>2. TypeOK'
  BY <1>1 DEF StartupInv, TypeOK
<1>3. ASSUME NEW x \in Servers, NEW t \in Passed(server'[x])
      PROVE  seeded[t] > 0
  <2>1. CASE x = s
    BY <1>1, <1>3, <2>1
  <2>2. CASE x # s
    BY <1>1, <1>3, <2>2 DEF StartupInv
  <2>. QED
    BY <2>1, <2>2
<1>4. \A x \in Servers : \A t \in Passed(server'[x]) : seeded'[t] > 0
  BY <1>1, <1>3
<1>. QED
  BY <1>1, <1>2, <1>4 DEF StartupInv, Passed

LEMMA ExitKeeps ==
    ASSUME StartupInv, NEW s \in Servers, Exit(s)
    PROVE  StartupInv'
<1>1. Passed(Stage("down")) = {} /\ Stage("down") \in Place
  BY StagePlaces DEF Passed
<1>. QED
  BY <1>1, GotoKeeps DEF Exit

\* Places that have no table behind them.
LEMMA EarlyPlaces ==
    /\ \A i \in 1..MaxAttempts, late \in BOOLEAN : Passed(Starting("connect", i, late)) = {}
    /\ \A i \in 1..Len(Tables), late \in BOOLEAN :
          Passed(Starting("migrate", i, late)) = {} /\ Passed(Starting("create", i, late)) = {}
    /\ \A late \in BOOLEAN : Passed(Starting("count", 1, late)) = {}
BY DEF Passed, Starting

LEMMA AtServer ==
    ASSUME StartupInv, NEW s \in Servers
    PROVE  /\ server[s] \in Place /\ server[s].late \in BOOLEAN
           /\ server[s].stage \in {"migrate", "create", "count", "insert"} =>
                 /\ server[s].at \in 1..Len(Tables) /\ Current(s) \in TableNames
                 /\ Current(s) = Tables[server[s].at]
                 /\ server[s] = Starting(server[s].stage, server[s].at, server[s].late)
           /\ server[s].stage = "connect" => server[s].at \in 1..MaxAttempts
<1>1. server[s] \in Place
  BY DEF StartupInv, TypeOK
<1>2. server[s].at \in 1..Len(Tables) => Current(s) \in TableNames /\ Current(s) = Tables[server[s].at]
  BY DEF Current, TableNames
<1>. QED
  BY <1>1, <1>2, PlaceShapes

LEMMA ConfigureKeeps ==
    ASSUME StartupInv, NEW s \in Servers, Configure(s)
    PROVE  StartupInv'
<1>1. Starting("connect", 1, FALSE) \in Place /\ Passed(Starting("connect", 1, FALSE)) = {}
  <2>1. 1 \in 1..MaxAttempts /\ FALSE \in BOOLEAN
    BY Sizes
  <2>. QED
    BY <2>1, StagePlaces, EarlyPlaces
<1>2. CASE Valid(Loaded(environment))
  BY <1>1, <1>2, GotoKeeps DEF Configure
<1>3. CASE ~Valid(Loaded(environment))
  BY <1>3, ExitKeeps DEF Configure
<1>. QED
  BY <1>2, <1>3

LEMMA ConnectKeeps ==
    ASSUME StartupInv, NEW s \in Servers, Connect(s)
    PROVE  StartupInv'
<1>1. server[s].at \in 1..MaxAttempts /\ server[s].late \in BOOLEAN
  BY AtServer DEF Connect
<1>2. ASSUME NEW late \in BOOLEAN, Goto(s, Starting("migrate", 1, late)), Unshared
      PROVE  StartupInv'
  <2>1. 1 \in 1..Len(Tables)
    BY Sizes
  <2>. QED
    BY <1>2, <2>1, StagePlaces, EarlyPlaces, GotoKeeps
<1>3. CASE server[s].at < MaxAttempts /\ Goto(s, Starting("connect", server[s].at + 1, TRUE)) /\ Unshared
  <2>1. server[s].at + 1 \in 1..MaxAttempts
    BY <1>1, <1>3, Sizes
  <2>. QED
    BY <1>3, <2>1, StagePlaces, EarlyPlaces, GotoKeeps
<1>4. CASE Exit(s)
  BY <1>4, ExitKeeps
<1>. QED
  BY <1>1, <1>2, <1>3, <1>4 DEF Connect

\* After the tables, the seeds.
LEMMA MigratedPlaces ==
    ASSUME StartupInv, NEW s \in Servers, server[s].stage \in {"migrate", "create"}
    PROVE  AfterMigrating(s) \in Place /\ Passed(AfterMigrating(s)) = {}
<1>. DEFINE i == server[s].at  late == server[s].late
<1>1. i \in 1..Len(Tables) /\ late \in BOOLEAN
  BY AtServer
<1>2. CASE i < Len(Tables)
  <2>1. i + 1 \in 1..Len(Tables) /\ AfterMigrating(s) = Starting("migrate", i + 1, late)
    BY <1>1, <1>2, Sizes DEF AfterMigrating
  <2>. QED
    BY <1>1, <2>1, StagePlaces, EarlyPlaces
<1>3. CASE ~(i < Len(Tables))
  <2>1. 1 \in 1..Len(Tables) /\ AfterMigrating(s) = Starting("count", 1, late)
    BY <1>3, Sizes DEF AfterMigrating
  <2>. QED
    BY <1>1, <2>1, StagePlaces, EarlyPlaces
<1>. QED
  BY <1>2, <1>3

LEMMA MigrateKeeps ==
    ASSUME StartupInv, NEW s \in Servers, Migrate(s)
    PROVE  StartupInv'
<1>1. /\ server[s].at \in 1..Len(Tables) /\ server[s].late \in BOOLEAN
      /\ server[s] = Starting("migrate", server[s].at, server[s].late)
  BY AtServer DEF Migrate
<1>2. CASE ~reachable
  BY <1>2, ExitKeeps DEF Migrate
<1>3. CASE reachable /\ table[Current(s)] = "missing"
  <2>1. [server[s] EXCEPT !.stage = "create"] = Starting("create", server[s].at, server[s].late)
    BY <1>1 DEF Starting
  <2>2. Goto(s, Starting("create", server[s].at, server[s].late)) /\ Unshared
    BY <1>3, <2>1 DEF Migrate
  <2>. QED
    BY <1>1, <2>2, StagePlaces, EarlyPlaces, GotoKeeps
<1>4. CASE reachable /\ table[Current(s)] # "missing"
  <2>1. Goto(s, AfterMigrating(s)) /\ Unshared
    BY <1>4 DEF Migrate
  <2>. QED
    BY <2>1, MigratedPlaces, GotoKeeps DEF Migrate
<1>. QED
  BY <1>2, <1>3, <1>4

\* A table that nobody has seeded appears, without a row.
LEMMA CreateTableKeeps ==
    ASSUME StartupInv, NEW s \in Servers, CreateTable(s)
    PROVE  StartupInv'
<1>. DEFINE t == Current(s)
<1>1. server[s].stage = "create" /\ t \in TableNames
  BY AtServer DEF CreateTable
<1>2. CASE ~(reachable /\ table[t] = "missing")
  BY <1>2, ExitKeeps DEF CreateTable
<1>3. CASE reachable /\ table[t] = "missing"
  <2>1. /\ table' = [table EXCEPT ![t] = "empty"]
        /\ server' = [server EXCEPT ![s] = AfterMigrating(s)]
        /\ UNCHANGED <<environment, reachable, crashes, seeded>>
    BY <1>3 DEF CreateTable, Goto
  <2>2. /\ table \in [TableNames -> Contents] /\ server \in [Servers -> Place]
        /\ AfterMigrating(s) \in Place /\ Passed(AfterMigrating(s)) = {}
    BY <1>1, MigratedPlaces DEF StartupInv, TypeOK
  <2>3. TypeOK'
    BY <2>1, <2>2 DEF StartupInv, TypeOK, Contents
  <2>4. \A u \in TableNames : table'[u] = IF u = t THEN "empty" ELSE table[u]
    BY <2>1, <2>2
  <2>5. \A u \in TableNames : table'[u] \notin {"missing", "empty"} => seeded'[u] > 0
    BY <2>1, <2>4 DEF StartupInv
  <2>6. \A u \in TableNames \ {Accounts} :
            seeded'[u] <= 1 /\ (table'[u] \in {"missing", "empty"} => seeded'[u] = 0)
    BY <1>3, <2>1, <2>4 DEF StartupInv
  <2>7. \A x \in Servers : server'[x] = IF x = s THEN AfterMigrating(s) ELSE server[x]
    BY <2>1, <2>2
  <2>8. \A x \in Servers : \A u \in Passed(server'[x]) : seeded'[u] > 0
    BY <2>1, <2>2, <2>7 DEF StartupInv
  <2>. QED
    BY <2>1, <2>3, <2>5, <2>6, <2>8 DEF StartupInv, Passed
<1>. QED
  BY <1>2, <1>3

LEMMA PingRedisKeeps ==
    ASSUME StartupInv, NEW s \in Servers, PingRedis(s)
    PROVE  StartupInv'
<1>1. Stage("serving") \in Place /\ Stage("serving").stage = "serving"
  BY StagePlaces
<1>2. server[s].stage = "redis"
  BY DEF PingRedis
<1>3. \A t \in Passed(Stage("serving")) : seeded[t] > 0
  BY <1>1, <1>2 DEF StartupInv, Passed
<1>4. CASE Goto(s, Stage("serving")) /\ Unshared
  BY <1>1, <1>3, <1>4, GotoKeeps
<1>5. CASE Exit(s)
  BY <1>5, ExitKeeps
<1>. QED
  BY <1>4, <1>5 DEF PingRedis

\* Behind the next place is what was behind this one, and its table.
LEMMA PassedAfter ==
    ASSUME StartupInv, NEW s \in Servers, server[s].stage \in {"count", "insert"}
    PROVE  /\ Current(s) \in TableNames /\ AfterTable(s) \in Place
           /\ Passed(AfterTable(s)) \subseteq Passed(server[s]) \cup {Current(s)}
<1>. DEFINE i == server[s].at  late == server[s].late
<1>1. i \in 1..Len(Tables) /\ Len(Tables) \in Nat /\ late \in BOOLEAN
  BY AtServer, Sizes
<1>2. Current(s) = Tables[i] /\ Current(s) \in TableNames
  BY <1>1 DEF Current, TableNames
<1>3. Passed(server[s]) = {Tables[j] : j \in 1..(i - 1)}
  BY DEF Passed
<1>4. CASE i < Len(Tables)
  <2>. DEFINE place == Starting("count", i + 1, late)
  <2>1. AfterTable(s) = place
    BY <1>4 DEF AfterTable
  <2>2. i + 1 \in 1..Len(Tables) /\ 1..((i + 1) - 1) = 1..(i - 1) \cup {i}
    BY <1>1, <1>4
  <2>3. place \in Place /\ place.stage = "count" /\ place.at = i + 1
    BY <1>1, <2>2, StagePlaces
  <2>4. Passed(place) = {Tables[j] : j \in 1..((i + 1) - 1)}
    BY <2>3 DEF Passed
  <2>5. Passed(place) \subseteq Passed(server[s]) \cup {Current(s)}
    BY <1>2, <1>3, <2>2, <2>4
  <2>. QED
    BY <1>2, <2>1, <2>3, <2>5
<1>5. CASE ~(i < Len(Tables))
  <2>1. AfterTable(s) = Starting("redis", 0, late) /\ i = Len(Tables)
    BY <1>1, <1>5 DEF AfterTable
  <2>2. Starting("redis", 0, late) \in Place /\ Starting("redis", 0, late).stage = "redis"
    BY <1>1, StagePlaces
  <2>3. Passed(Starting("redis", 0, late)) = TableNames
    BY <2>2 DEF Passed
  <2>4. 1..Len(Tables) = 1..(i - 1) \cup {i}
    BY <1>1, <2>1
  <2>5. TableNames \subseteq Passed(server[s]) \cup {Current(s)}
    BY <1>2, <1>3, <2>4 DEF TableNames
  <2>. QED
    BY <1>2, <2>1, <2>2, <2>3, <2>5
<1>. QED
  BY <1>4, <1>5

LEMMA CountRowsKeeps ==
    ASSUME StartupInv, NEW s \in Servers, CountRows(s)
    PROVE  StartupInv'
<1>1. /\ server[s].at \in 1..Len(Tables) /\ server[s].late \in BOOLEAN
      /\ server[s] = Starting("count", server[s].at, server[s].late) /\ server[s].stage = "count"
  BY AtServer DEF CountRows
<1>2. CASE Exit(s)
  BY <1>2, ExitKeeps
<1>3. CASE CountsNone(Current(s)) /\ Goto(s, [server[s] EXCEPT !.stage = "insert"]) /\ Unshared
  <2>. DEFINE place == Starting("insert", server[s].at, server[s].late)
  <2>1. [server[s] EXCEPT !.stage = "insert"] = place
    BY <1>1 DEF Starting
  <2>2. place \in Place /\ place.stage = "insert" /\ place.at = server[s].at
    BY <1>1, StagePlaces
  <2>3. Passed(place) = Passed(server[s])
    BY <1>1, <2>2 DEF Passed
  <2>4. \A t \in Passed(place) : seeded[t] > 0
    BY <2>3 DEF StartupInv
  <2>5. Goto(s, place) /\ Unshared
    BY <1>3, <2>1
  <2>. QED
    BY <2>2, <2>4, <2>5, GotoKeeps
<1>4. CASE /\ table[Current(s)] # "missing" /\ ~CountsNone(Current(s))
           /\ Goto(s, AfterTable(s)) /\ Unshared
  <2>1. /\ Current(s) \in TableNames /\ AfterTable(s) \in Place
        /\ Passed(AfterTable(s)) \subseteq Passed(server[s]) \cup {Current(s)}
    BY <1>1, PassedAfter
  <2>2. seeded[Current(s)] > 0
    BY <1>4, <2>1 DEF CountsNone, StartupInv
  <2>3. \A t \in Passed(AfterTable(s)) : seeded[t] > 0
    BY <2>1, <2>2 DEF StartupInv
  <2>. QED
    BY <1>4, <2>1, <2>3, GotoKeeps
<1>. QED
  BY <1>2, <1>3, <1>4 DEF CountRows

LEMMA InsertSeedsKeeps ==
    ASSUME StartupInv, NEW s \in Servers, InsertSeeds(s)
    PROVE  StartupInv'
<1>. DEFINE t == Current(s)
<1>1. server[s].stage = "insert"
  BY DEF InsertSeeds
<1>2. CASE Exit(s)
  BY <1>2, ExitKeeps
<1>3. CASE ~Exit(s)
  <2>1. /\ table[t] = "empty"
        /\ table' = [table EXCEPT ![t] = "full"] /\ seeded' = [seeded EXCEPT ![t] = @ + 1]
        /\ server' = [server EXCEPT ![s] = AfterTable(s)]
        /\ UNCHANGED <<environment, reachable, crashes>>
    BY <1>3 DEF InsertSeeds, CodesFree, Goto
  <2>2. /\ t \in TableNames /\ AfterTable(s) \in Place
        /\ Passed(AfterTable(s)) \subseteq Passed(server[s]) \cup {t}
    BY <1>1, PassedAfter
  <2>3. /\ table \in [TableNames -> Contents] /\ seeded \in [TableNames -> Nat]
        /\ server \in [Servers -> Place]
    BY DEF StartupInv, TypeOK
  <2>4. /\ \A u \in TableNames : table'[u] = IF u = t THEN "full" ELSE table[u]
        /\ \A u \in TableNames : seeded'[u] = IF u = t THEN seeded[u] + 1 ELSE seeded[u]
    BY <2>1, <2>2, <2>3
  <2>5. seeded[t] \in Nat /\ seeded'[t] > 0
        /\ \A u \in TableNames : seeded[u] > 0 => seeded'[u] > 0
    BY <2>2, <2>3, <2>4
  <2>6. TypeOK'
    <3>1. table' \in [TableNames -> Contents] /\ seeded' \in [TableNames -> Nat]
      BY <2>1, <2>2, <2>3 DEF Contents
    <3>2. server' \in [Servers -> Place]
      BY <2>1, <2>2, <2>3
    <3>. QED
      BY <2>1, <3>1, <3>2 DEF StartupInv, TypeOK
  <2>7. \A u \in TableNames : table'[u] \notin {"missing", "empty"} => seeded'[u] > 0
    BY <2>4, <2>5 DEF StartupInv
  <2>8. ASSUME NEW u \in TableNames \ {Accounts}
        PROVE  seeded'[u] <= 1 /\ (table'[u] \in {"missing", "empty"} => seeded'[u] = 0)
    <3>1. CASE u = t
      <4>1. seeded[u] = 0
        BY <2>1, <3>1 DEF StartupInv
      <4>. QED
        BY <2>4, <3>1, <4>1
    <3>2. CASE u # t
      BY <2>4, <3>2 DEF StartupInv
    <3>. QED
      BY <3>1, <3>2
  <2>9. ASSUME NEW x \in Servers, NEW u \in Passed(server'[x])
        PROVE  seeded'[u] > 0
    <3>1. \A y \in Servers : \A w \in Passed(server[y]) : w \in TableNames /\ seeded'[w] > 0
      BY <2>3, <2>5, PlaceShapes DEF StartupInv
    <3>2. CASE x = s
      <4>1. server'[x] = AfterTable(s)
        BY <2>1, <2>3, <3>2
      <4>2. u \in Passed(server[s]) \/ u = t
        BY <2>2, <2>9, <4>1
      <4>. QED
        BY <2>5, <3>1, <4>2
    <3>3. CASE x # s
      <4>1. server'[x] = server[x]
        BY <2>1, <2>3, <3>3
      <4>. QED
        BY <2>9, <3>1, <4>1
    <3>. QED
      BY <3>2, <3>3
  <2>. QED
    BY <2>6, <2>7, <2>8, <2>9 DEF StartupInv, Passed
<1>. QED
  BY <1>2, <1>3

LEMMA ServerKeeps ==
    ASSUME StartupInv, NEW s \in Servers, ServerStep(s)
    PROVE  StartupInv'
BY ConfigureKeeps, ConnectKeeps, MigrateKeeps, CreateTableKeeps, CountRowsKeeps, InsertSeedsKeeps,
   PingRedisKeeps
   DEF ServerStep

LEMMA CrashKeeps ==
    ASSUME StartupInv, NEW s \in Servers, Crash(s)
    PROVE  StartupInv'
<1>1. /\ server' = [server EXCEPT ![s] = Stage("down")] /\ server \in [Servers -> Place]
      /\ crashes' = crashes + 1 /\ crashes < MaxCrashes /\ crashes \in 0..MaxCrashes
      /\ UNCHANGED <<environment, reachable, table, seeded>>
  BY DEF Crash, Goto, StartupInv, TypeOK
<1>2. Stage("down") \in Place /\ Stage("down").stage = "down" /\ Passed(Stage("down")) = {}
  BY StagePlaces DEF Passed
<1>3. crashes' \in 0..MaxCrashes
  BY <1>1, Sizes
<1>4. TypeOK'
  BY <1>1, <1>2, <1>3 DEF StartupInv, TypeOK
<1>5. \A x \in Servers : server'[x] = IF x = s THEN Stage("down") ELSE server[x]
  BY <1>1
<1>6. \A x \in Servers : \A t \in Passed(server'[x]) : seeded'[t] > 0
  BY <1>1, <1>2, <1>5 DEF StartupInv
<1>. QED
  BY <1>1, <1>4, <1>6 DEF StartupInv, Passed

\* Only the contents of a table that has been seeded change, and only the accounts
\* can be gone for good.
LEMMA BecomeKeeps ==
    ASSUME StartupInv, NEW t \in TableNames, NEW contents \in Contents, Become(t, contents),
           table[t] \notin {"missing", "empty"},
           contents # "missing", contents = "empty" => t = Accounts
    PROVE  StartupInv'
<1>1. /\ table' = [table EXCEPT ![t] = contents] /\ table \in [TableNames -> Contents]
      /\ UNCHANGED <<environment, reachable, server, crashes, seeded>>
  BY DEF Become, StartupInv, TypeOK
<1>2. TypeOK'
  BY <1>1 DEF StartupInv, TypeOK
<1>3. \A u \in TableNames : table'[u] = IF u = t THEN contents ELSE table[u]
  BY <1>1
<1>4. \A u \in TableNames : table'[u] \notin {"missing", "empty"} => seeded'[u] > 0
  BY <1>1, <1>3 DEF StartupInv
<1>5. \A u \in TableNames \ {Accounts} :
          seeded'[u] <= 1 /\ (table'[u] \in {"missing", "empty"} => seeded'[u] = 0)
  BY <1>1, <1>3 DEF StartupInv
<1>. QED
  BY <1>1, <1>2, <1>4, <1>5 DEF StartupInv, Passed

LEMMA TablesKeep ==
    ASSUME StartupInv, DropAccounts \/ \E t \in TableNames : DeleteRows(t) \/ CreateRow(t)
    PROVE  StartupInv'
<1>1. "part" \in Contents /\ "buried" \in Contents /\ "empty" \in Contents
  BY DEF Contents
<1>2. CASE DropAccounts
  BY <1>1, <1>2, Sizes, BecomeKeeps DEF DropAccounts
<1>3. CASE \E t \in TableNames : DeleteRows(t) \/ CreateRow(t)
  BY <1>1, <1>3, BecomeKeeps DEF DeleteRows, CreateRow
<1>. QED
  BY <1>2, <1>3

LEMMA Step == StartupInv /\ [StartupNext]_vars => StartupInv'
<1>. SUFFICES ASSUME StartupInv, [StartupNext]_vars PROVE StartupInv'
  OBVIOUS
<1>1. CASE \E s \in Servers : ServerStep(s) \/ Crash(s)
  BY <1>1, ServerKeeps, CrashKeeps
<1>2. CASE DropAccounts \/ \E t \in TableNames : DeleteRows(t) \/ CreateRow(t)
  BY <1>2, TablesKeep
<1>3. CASE Flip
  <2>1. reachable' \in BOOLEAN /\ UNCHANGED <<environment, table, server, crashes, seeded>>
    BY <1>3 DEF Flip
  <2>. QED
    BY <2>1 DEF StartupInv, TypeOK, Passed
<1>4. CASE UNCHANGED vars
  BY <1>4 DEF vars, StartupInv, TypeOK, Passed
<1>. QED
  BY <1>1, <1>2, <1>3, <1>4 DEF StartupNext
-----------------------------------------------------------------------------
(* The theorems                                                            *)

LEMMA Invariant == StartupSpec => []StartupInv
BY Initially, Step, PTL DEF StartupSpec

\* The places of the processes, and the contents of the tables.
THEOREM TypeCorrect == StartupSpec => []TypeOK
<1>1. StartupInv => TypeOK
  BY DEF StartupInv
<1>. QED
  BY <1>1, Invariant, PTL

\* However many processes seed at the same time, crash and start again, the rows
\* of a table are seeded at most once.
THEOREM TablesSeededOnce == StartupSpec => []SeededOnce
<1>1. StartupInv => SeededOnce
  BY DEF StartupInv, SeededOnce
<1>. QED
  BY <1>1, Invariant, PTL

\* A process that serves has every table seeded, by itself or by another.
THEOREM ServersServeSeeded == StartupSpec => []ServesSeeded
<1>1. StartupInv => ServesSeeded
  BY DEF StartupInv, ServesSeeded, Served, Passed
<1>. QED
  BY <1>1, Invariant, PTL

\* What an insert, a user or the database can do to a table of which every row is
\* deleted, while nobody serves.
LEMMA StaysBuried ==
    ASSUME StartupInv, StartupNext, NEW i \in 1..Len(Tables), Tables[i] # Accounts,
           table[Tables[i]] = "buried", \A s \in Servers : ~Past(s, i)
    PROVE  table'[Tables[i]] = "buried"
<1>. DEFINE t == Tables[i]
<1>1. t \in TableNames /\ table \in [TableNames -> Contents] /\ ~Served
  BY DEF TableNames, StartupInv, TypeOK, Past, Served
<1>2. CASE table' = table
  BY <1>2
<1>3. ASSUME NEW u \in TableNames, NEW contents, table' = [table EXCEPT ![u] = contents],
             table[u] # "buried"
      PROVE  table'[t] = "buried"
  BY <1>1, <1>3
<1>4. ASSUME NEW s \in Servers, CreateTable(s) \/ InsertSeeds(s)
      PROVE  \/ table' = table
             \/ /\ Current(s) \in TableNames /\ table[Current(s)] # "buried"
                /\ \E contents : table' = [table EXCEPT ![Current(s)] = contents]
  <2>1. Current(s) \in TableNames
    BY <1>4, AtServer DEF CreateTable, InsertSeeds
  <2>. QED
    BY <1>4, <2>1 DEF CreateTable, InsertSeeds, Exit, Unshared, CodesFree
<1>5. CASE \E s \in Servers : CreateTable(s) \/ InsertSeeds(s)
  BY <1>3, <1>4, <1>5
<1>6. CASE DropAccounts
  BY <1>1, <1>6, Sizes DEF DropAccounts, Become
<1>7. CASE \E u \in TableNames : DeleteRows(u) \/ CreateRow(u)
  BY <1>1, <1>7 DEF DeleteRows, CreateRow
<1>8. CASE Flip \/ \E s \in Servers : Crash(s)
  BY <1>8 DEF Flip, Crash
<1>9. ASSUME NEW s \in Servers,
             Configure(s) \/ Connect(s) \/ Migrate(s) \/ CountRows(s) \/ PingRedis(s)
      PROVE  table' = table
  BY <1>9 DEF Configure, Connect, Migrate, CountRows, PingRedis, Exit, Unshared
<1>. QED
  BY <1>2, <1>5, <1>6, <1>7, <1>8, <1>9 DEF StartupNext, ServerStep

\* No process gets past a table of which every row is deleted: it counts no row,
\* and its insert is refused.
LEMMA NobodyPasses ==
    ASSUME StartupInv, StartupNext, NEW i \in 1..Len(Tables),
           table[Tables[i]] = "buried", NEW s \in Servers, ~Past(s, i)
    PROVE  ~Past(s, i)'
<1>. DEFINE Before(place) ==
              /\ place.stage \notin {"redis", "serving"}
              /\ place.stage \in {"count", "insert"} => ~(place.at > i)
            j == server[s].at
<1>1. server \in [Servers -> Place] /\ Len(Tables) \in Nat /\ i \in Nat /\ i >= 1 /\ i <= Len(Tables)
  BY Sizes DEF StartupInv, TypeOK
<1>2. ASSUME NEW place, Goto(s, place), Before(place)
      PROVE  ~Past(s, i)'
  <2>1. server'[s] = place
    BY <1>1, <1>2 DEF Goto
  <2>. QED
    BY <1>2, <2>1 DEF Past
<1>3. CASE server'[s] = server[s]
  BY <1>3 DEF Past
<1>4. ASSUME Exit(s) \/ Goto(s, Stage("down")) PROVE ~Past(s, i)'
  <2>1. Before(Stage("down")) /\ Goto(s, Stage("down"))
    BY <1>4 DEF Exit, Stage
  <2>. QED
    BY <1>2, <2>1
<1>5. /\ \A k, late : Before(Starting("connect", k, late)) /\ Before(Starting("migrate", k, late))
                      /\ Before(Starting("create", k, late))
      /\ \A k \in 1..i : \A late : Before(Starting("count", k, late)) /\ Before(Starting("insert", k, late))
  BY <1>1 DEF Starting
<1>6. CASE Configure(s) \/ Connect(s)
  BY <1>2, <1>4, <1>5, <1>6 DEF Configure, Connect
<1>7. CASE server[s].stage \in {"migrate", "create"} /\ (Migrate(s) \/ CreateTable(s))
  <2>1. Before(AfterMigrating(s))
    BY <1>1, <1>5 DEF AfterMigrating
  <2>2. Before([server[s] EXCEPT !.stage = "create"])
    <3>1. server[s] = Starting(server[s].stage, j, server[s].late)
      BY <1>7, AtServer
    <3>2. [server[s] EXCEPT !.stage = "create"] = Starting("create", j, server[s].late)
      BY <3>1 DEF Starting
    <3>. QED
      BY <1>5, <3>2
  <2>. QED
    BY <1>2, <1>4, <1>7, <2>1, <2>2 DEF Migrate, CreateTable
<1>8. CASE server[s].stage \in {"count", "insert"} /\ (CountRows(s) \/ InsertSeeds(s))
  <2>1. j \in 1..i /\ server[s] = Starting(server[s].stage, j, server[s].late)
        /\ Current(s) = Tables[j]
    BY <1>1, <1>8, AtServer DEF Past
  <2>2. ASSUME j # i PROVE Before(AfterTable(s))
    <3>1. j + 1 \in 1..i /\ j < Len(Tables)
      BY <1>1, <2>1, <2>2
    <3>. QED
      BY <1>5, <3>1 DEF AfterTable
  <2>3. Before([server[s] EXCEPT !.stage = "insert"])
    <3>1. [server[s] EXCEPT !.stage = "insert"] = Starting("insert", j, server[s].late)
      BY <2>1 DEF Starting
    <3>. QED
      BY <1>5, <2>1, <3>1
  <2>4. ASSUME j = i PROVE CountsNone(Current(s)) /\ ~CodesFree(Current(s))
    BY <2>1, <2>4 DEF CountsNone, CodesFree
  <2>. QED
    BY <1>2, <1>4, <1>8, <2>2, <2>3, <2>4 DEF CountRows, InsertSeeds
<1>9. CASE PingRedis(s)
  BY <1>9 DEF PingRedis, Past
<1>10. ASSUME NEW x \in Servers, x # s, ServerStep(x) \/ Crash(x)
       PROVE  server'[s] = server[s]
  BY <1>1, <1>10 DEF ServerStep, Crash, Configure, Connect, Migrate, CreateTable, CountRows,
     InsertSeeds, PingRedis, Exit, Goto
<1>11. CASE Flip \/ DropAccounts \/ \E t \in TableNames : DeleteRows(t) \/ CreateRow(t)
  BY <1>3, <1>11 DEF Flip, DropAccounts, DeleteRows, CreateRow, Become
<1>12. CASE Crash(s)
  BY <1>4, <1>12 DEF Crash
<1>13. CASE ServerStep(s)
  BY <1>6, <1>7, <1>8, <1>9, <1>13
  DEF ServerStep, Migrate, CreateTable, CountRows, InsertSeeds
<1>. QED
  BY <1>3, <1>10, <1>11, <1>12, <1>13 DEF StartupNext

\* While a table has only deleted rows and nobody is past it, no start, restart or
\* race of starts gets the system back.
THEOREM BlockedForGood == StartupSpec => OutageLasts
<1>1. ASSUME StartupInv, StartupNext, Blocked
      PROVE  Blocked'
  <2>1. PICK i \in 1..Len(Tables) :
          /\ Tables[i] # Accounts /\ table[Tables[i]] = "buried"
          /\ \A s \in Servers : ~Past(s, i)
    BY <1>1 DEF Blocked
  <2>2. table'[Tables[i]] = "buried"
    BY <1>1, <2>1, StaysBuried
  <2>3. \A s \in Servers : ~Past(s, i)'
    BY <1>1, <2>1, NobodyPasses
  <2>. QED
    BY <2>1, <2>2, <2>3 DEF Blocked
<1>2. UNCHANGED vars => (Blocked => Blocked')
  BY DEF vars, Blocked, Past
<1>3. StartupInv /\ [StartupNext]_vars => [Blocked => Blocked']_vars
  BY <1>1, <1>2
<1>. QED
  BY <1>3, Invariant, PTL DEF StartupSpec, OutageLasts
-----------------------------------------------------------------------------
(* The history of an entity                                                *)

\* The times of the entries: one each, and none of them to come.
Times ==
    /\ now \in Nat
    /\ stamp \in [Requests -> Nat]
    /\ times \in [Records -> Seq(Nat)]
    /\ \A r \in Requests : stamp[r] <= now
    /\ \A k \in Records :
        /\ Len(times[k]) = Len(trail[k])
        /\ \A i \in 1..Len(times[k]) : times[k][i] <= now

\* A save that would still find its expected version made its entry after all
\* the entries of the record.
StampedAfter(q, t) ==
    q.stage = "commit" /\ WouldSave(q)
    => \A i \in 1..Len(times[q.record]) : times[q.record][i] <= t

OrderInv ==
    /\ ServiceInductive
    /\ Times
    /\ \A r \in Requests : inflight[r] # Idle => StampedAfter(inflight[r], stamp[r])
    /\ HistoryInOrder

\* What appends to the log of a record: the commit of a request whose statement
\* finds its row, which it changes.
LEMMA AppendingStep ==
    ASSUME ServiceTypeOK, NEW r \in Requests, RequestStep(r), NEW k \in Records,
           trail'[k] # trail[k]
    PROVE  LET q == inflight[r] IN
           /\ q # Idle /\ q.stage = "commit" /\ q.record = k
           /\ trail'[k] = Append(trail[k], Entry(q.op, q.before, q.status))
           /\ q.op = "create" => CanInsert(rows[k])
           /\ q.op \in {"update", "transition"} => CanUpdate(rows[k], q.expected)
           /\ q.op \in {"create", "update", "transition", "delete"}
           /\ rows'[k] # rows[k]
<1>. PICK q : q = inflight[r]
  OBVIOUS
<1>1. LedgerTypeOK
  BY DEF ServiceTypeOK
<1>2. Commit(r)
  BY DEF RequestStep, Begin, BeginCreate, BeginUpdate, BeginTransition, BeginDelete, Start,
         Lookup, Advance, End
<1>3. q # Idle /\ q.stage = "commit" /\ q.record \in Records
  <2>1. q.stage = "commit"
    BY <1>2 DEF Commit, CommitCreate, CommitSave, CommitDelete
  <2>2. q # Idle
    BY <2>1 DEF Idle
  <2>. QED
    BY <2>1, <2>2, RequestShape
<1>4. ASSUME NEW row, Write(r, row)
      PROVE  /\ k = q.record /\ rows'[k] = row
             /\ trail'[k] = Append(trail[k], Entry(q.op, q.before, q.status))
  <2>1. Change(q.record, row, Entry(q.op, q.before, q.status))
    BY <1>4 DEF Write
  <2>2. k = q.record
    BY <1>1, <1>3, <2>1, ChangeEffect
  <2>. QED
    BY <1>1, <1>3, <2>1, <2>2, ChangeEffect
<1>5. CASE CommitCreate(r)
  <2>1. q.op = "create" /\ CanInsert(rows[q.record]) /\ Write(r, Inserted(q.status, q.contents))
    BY <1>5 DEF CommitCreate, RollBack
  <2>2. k = q.record /\ rows'[k] = Inserted(q.status, q.contents)
        /\ trail'[k] = Append(trail[k], Entry(q.op, q.before, q.status))
    BY <1>4, <2>1
  <2>3. q.status \in Statuses
    BY <1>3, <2>1, RequestShape DEF WriteRequest
  <2>4. rows'[k] # rows[k]
    BY <2>1, <2>2, <2>3, LedgerAssumption DEF CanInsert, Exists, Inserted
  <2>. QED
    BY <1>3, <2>1, <2>2, <2>4
<1>6. CASE CommitSave(r)
  <2>1. /\ q.op \in {"update", "transition"} /\ CanUpdate(rows[q.record], q.expected)
        /\ Write(r, Updated(rows[q.record], q.status, q.contents, q.expected))
    BY <1>6 DEF CommitSave, RollBack
  <2>2. k = q.record /\ rows'[k] = Updated(rows[q.record], q.status, q.contents, q.expected)
        /\ trail'[k] = Append(trail[k], Entry(q.op, q.before, q.status))
    BY <1>4, <2>1
  <2>3. q.expected \in Nat
    <3>1. q \in WriteRequest
      BY <1>3, <2>1, RequestShape
    <3>. QED
      BY <3>1, VersionAssumption DEF WriteRequest
  <2>4. rows'[k].version = q.expected + 1 /\ rows[k].version = q.expected
    BY <2>1, <2>2 DEF CanUpdate, Updated
  <2>5. rows'[k] # rows[k]
    BY <2>3, <2>4
  <2>. QED
    BY <1>3, <2>1, <2>2, <2>5
<1>7. CASE CommitDelete(r)
  <2>1. q.op = "delete" /\ CanDelete(rows[q.record]) /\ Write(r, SoftDeleted(rows[q.record]))
    BY <1>7 DEF CommitDelete, RollBack
  <2>2. k = q.record /\ rows'[k] = SoftDeleted(rows[k])
        /\ trail'[k] = Append(trail[k], Entry(q.op, q.before, q.status))
    BY <1>4, <2>1
  <2>3. rows[k].deleted = FALSE
    BY <1>1, <1>3, <2>1, <2>2, FoundRow DEF CanDelete
  <2>4. rows'[k].deleted = TRUE
    BY <1>1, <2>2 DEF SoftDeleted, LedgerTypeOK, RowType
  <2>. QED
    BY <1>3, <2>1, <2>2, <2>3, <2>4
<1>. QED
  BY <1>2, <1>5, <1>6, <1>7 DEF Commit

\* What a step of a request does to the times.
LEMMA ServedTimes ==
    ASSUME ServiceTypeOK, ServiceTypeOK', Times, NEW r \in Requests, Serve(r)
    PROVE  /\ now' = now /\ Times'
           /\ \A k \in Records :
                \/ trail'[k] = trail[k] /\ times'[k] = times[k]
                \/ /\ trail'[k] # trail[k] /\ times'[k] = Append(times[k], stamp[r])
           /\ \A s \in Requests : s # r => stamp'[s] = stamp[s]
           /\ inflight'[r].stage = "commit" => stamp'[r] = now
<1>1. RequestStep(r) /\ Stamp(r) /\ Date(r) /\ now' = now
  BY DEF Serve
<1>2. ASSUME NEW k \in Records
      PROVE  \/ trail'[k] = trail[k] /\ times'[k] = times[k]
             \/ trail'[k] # trail[k] /\ times'[k] = Append(times[k], stamp[r])
  BY <1>1 DEF Date
<1>3. /\ stamp' \in [Requests -> Nat]
      /\ \A s \in Requests : s # r => stamp'[s] = stamp[s]
      /\ stamp'[r] = now \/ stamp'[r] = 0
      /\ inflight'[r].stage = "commit" => stamp'[r] = now
  BY <1>1 DEF Stamp, Times
<1>4. ASSUME NEW k \in Records
      PROVE  /\ times'[k] \in Seq(Nat) /\ Len(times'[k]) = Len(trail'[k])
             /\ \A i \in 1..Len(times'[k]) : times'[k][i] <= now
  <2>1. CASE trail'[k] = trail[k] /\ times'[k] = times[k]
    BY <2>1 DEF Times
  <2>2. CASE trail'[k] # trail[k] /\ times'[k] = Append(times[k], stamp[r])
    <3>1. PICK e : trail'[k] = Append(trail[k], e)
      BY <1>1, <2>2, AppendingStep
    <3>2. trail[k] \in Seq(Entries) /\ trail'[k] \in Seq(Entries)
      BY DEF ServiceTypeOK, LedgerTypeOK
    <3>3. Len(trail'[k]) = Len(trail[k]) + 1
      BY <3>1, <3>2
    <3>4. times[k] \in Seq(Nat) /\ stamp[r] \in Nat /\ stamp[r] <= now
      BY DEF Times
    <3>. QED
      BY <2>2, <3>3, <3>4 DEF Times
  <2>. QED
    BY <1>2, <2>1, <2>2
<1>5. times' \in [Records -> Seq(Nat)]
  BY <1>1, <1>4 DEF Date
<1>6. Times'
  <2>1. ASSUME NEW s \in Requests PROVE stamp'[s] <= now
    <3>1. stamp[s] <= now /\ now \in Nat
      BY DEF Times
    <3>. QED
      BY <1>3, <3>1
  <2>2. now' = now /\ now \in Nat
    BY <1>1 DEF Times
  <2>3. \A s \in Requests : stamp'[s] <= now'
    BY <2>1, <2>2
  <2>4. \A k \in Records : Len(times'[k]) = Len(trail'[k])
                          /\ \A i \in 1..Len(times'[k]) : times'[k][i] <= now'
    BY <1>4, <2>2
  <2>. QED
    BY <1>3, <1>5, <2>2, <2>3, <2>4 DEF Times
<1>. QED
  BY <1>1, <1>2, <1>3, <1>6

LEMMA OrderInit == TrailInit => OrderInv
<1>. SUFFICES ASSUME TrailInit PROVE OrderInv
  OBVIOUS
<1>1. ServiceInductive
  BY ServiceInductiveInit DEF TrailInit
<1>2. /\ \A r \in Requests : inflight[r] = Idle
      /\ \A k \in Records : trail[k] = <<>> /\ times[k] = <<>>
  BY DEF TrailInit, Init, LedgerInit
<1>3. Times
  BY <1>2 DEF TrailInit, Times
<1>4. HistoryInOrder
  BY <1>2 DEF HistoryInOrder
<1>. QED
  BY <1>1, <1>2, <1>3, <1>4 DEF OrderInv

\* Appending to a record's log keeps it in order.
LEMMA OrderAppended ==
    ASSUME OrderInv, ServiceTypeOK', Times', NEW r \in Requests, Serve(r)
    PROVE  HistoryInOrder'
<1>1. ServiceTypeOK /\ Times /\ ServiceInductive /\ RequestStep(r)
  BY DEF OrderInv, ServiceInductive, Serve
<1>2. ASSUME NEW k \in Records, NEW j \in 1..Len(trail'[k]), trail'[k][j].action # "delete",
             NEW i \in 1..(j - 1)
      PROVE  times'[k][i] <= times'[k][j]
  <2>1. CASE trail'[k] = trail[k] /\ times'[k] = times[k]
    BY <1>2, <2>1 DEF OrderInv, HistoryInOrder
  <2>2. CASE trail'[k] # trail[k] /\ times'[k] = Append(times[k], stamp[r])
    <3>1. PICK q, e : q = inflight[r] /\ e = Entry(q.op, q.before, q.status)
      OBVIOUS
    <3>2. /\ q # Idle /\ q.stage = "commit" /\ q.record = k
          /\ trail'[k] = Append(trail[k], e)
          /\ q.op = "create" => CanInsert(rows[k])
          /\ q.op \in {"update", "transition"} => CanUpdate(rows[k], q.expected)
          /\ q.op \in {"create", "update", "transition", "delete"}
      BY <1>1, <2>2, <3>1, AppendingStep
    <3>3. e.action = q.op
      BY <3>1 DEF Entry
    <3>4. PICK n \in Nat : n = Len(trail[k])
      BY <1>1 DEF ServiceTypeOK, LedgerTypeOK
    <3>5. /\ trail[k] \in Seq(Entries) /\ trail'[k] \in Seq(Entries)
          /\ times[k] \in Seq(Nat) /\ Len(times[k]) = n
          /\ stamp[r] \in Nat
      BY <1>1, <3>4 DEF ServiceTypeOK, LedgerTypeOK, Times
    <3>6. /\ Len(trail'[k]) = n + 1
          /\ \A h \in 1..n : trail'[k][h] = trail[k][h] /\ times'[k][h] = times[k][h]
          /\ trail'[k][n + 1] = e /\ times'[k][n + 1] = stamp[r]
      BY <2>2, <3>2, <3>4, <3>5
    <3>7. CASE j \in 1..n
      <4>1. i \in 1..n
        BY <3>7
      <4>. QED
        BY <1>2, <3>4, <3>6, <3>7, <4>1 DEF OrderInv, HistoryInOrder
    <3>8. CASE j = n + 1
      <4>1. i \in 1..n /\ q.op # "delete"
        BY <1>2, <3>3, <3>6, <3>8
      <4>2. CASE q.op = "create"
        <5>1. rows[k] = NoRow
          BY <1>1, <3>2, <4>2 DEF ServiceInductive, NoRows
        <5>2. Explains(trail[k], NoRow)
          BY <1>1, <5>1 DEF ServiceInductive, TrailExplainsRow
        <5>3. trail[k] = <<>>
          BY <3>5, <5>2, ExplainsNothing
        <5>4. n = 0
          BY <3>4, <5>3
        <5>. QED
          BY <4>1, <5>4
      <4>3. CASE q.op \in {"update", "transition"}
        <5>1. WouldSave(q)
          BY <3>2, <4>3 DEF WouldSave
        <5>2. StampedAfter(q, stamp[r])
          BY <3>1, <3>2 DEF OrderInv
        <5>3. times[k][i] <= stamp[r]
          BY <3>2, <3>5, <4>1, <5>1, <5>2 DEF StampedAfter
        <5>. QED
          BY <3>6, <3>8, <4>1, <5>3
      <4>. QED
        BY <3>2, <4>1, <4>2, <4>3
    <3>. QED
      BY <3>6, <3>7, <3>8
  <2>. QED
    BY <1>1, <2>1, <2>2, ServedTimes
<1>. QED
  BY <1>2 DEF HistoryInOrder

\* A request that others overtake no longer finds its version; one that is not
\* overtaken was stamped after the entries there are.
LEMMA StampsKept ==
    ASSUME Ahead = 0, OrderInv, ServiceInductive', Times', NEW r \in Requests, Serve(r),
           NEW s \in Requests, inflight'[s] # Idle
    PROVE  StampedAfter(inflight[s], stamp[s])'
<1>0. ServiceTypeOK /\ ServiceTypeOK' /\ Times /\ ServiceInductive /\ RequestStep(r)
  BY DEF OrderInv, ServiceInductive, Serve
<1>. PICK n : n = inflight'[s]
  OBVIOUS
<1>1. SUFFICES ASSUME n.stage = "commit", WouldSave(n)'
               PROVE  \A i \in 1..Len(times'[n.record]) : times'[n.record][i] <= stamp'[s]
  BY DEF StampedAfter, WouldSave
<1>2. n \in Request /\ n.record \in Records
  BY <1>0, RequestShape DEF ServiceTypeOK, Request, WriteRequest, DeleteRequest
<1>3. CASE s = r
  <2>1. stamp'[s] = now /\ now' = now
    BY <1>0, <1>1, <1>3, ServedTimes
  <2>. QED
    BY <1>2, <2>1 DEF Times
<1>4. CASE s # r
  <2>1. inflight'[s] = inflight[s]
    BY <1>0, <1>4 DEF ServiceTypeOK, RequestStep, Begin, BeginCreate,
         BeginUpdate, BeginTransition, BeginDelete, Start, Lookup, Advance, Commit,
         CommitCreate, CommitSave, CommitDelete, End, Finish
  <2>2. n = inflight[s] /\ inflight[s] # Idle /\ RequestInv(n)
    BY <1>0, <2>1 DEF ServiceInductive
  <2>3. [Next]_serviceVars
    BY <1>0 DEF Next
  <2>4. WouldSave(n) /\ rows'[n.record] = rows[n.record]
    BY <1>0, <1>1, <1>2, <2>2, <2>3, RequestPersists
  <2>5. times'[n.record] = times[n.record]
    <3>1. trail'[n.record] = trail[n.record]
      BY <1>0, <1>2, <2>4, AppendingStep
    <3>. QED
      BY <1>0, <1>2, <3>1, ServedTimes
  <2>6. StampedAfter(n, stamp[s])
    BY <2>2 DEF OrderInv
  <2>7. stamp'[s] = stamp[s]
    BY <1>0, <1>4, ServedTimes
  <2>. QED
    BY <1>1, <2>4, <2>5, <2>6, <2>7 DEF StampedAfter
<1>. QED
  BY <1>3, <1>4

LEMMA OrderStep == ASSUME Ahead = 0, OrderInv, [TrailNext]_trailVars PROVE OrderInv'
<1>1. ServiceInductive /\ Times
  BY DEF OrderInv
<1>2. ASSUME NEW r \in Requests, Serve(r) PROVE OrderInv'
  <2>1. [Next]_serviceVars
    BY <1>2 DEF Serve, Next
  <2>2. ServiceInductive'
    BY <1>1, <2>1, ServiceInductiveStep
  <2>3. ServiceTypeOK /\ ServiceTypeOK'
    BY <1>1, <2>2 DEF ServiceInductive
  <2>4. Times'
    BY <1>1, <1>2, <2>3, ServedTimes
  <2>5. HistoryInOrder'
    BY <1>2, <2>3, <2>4, OrderAppended
  <2>6. ASSUME NEW s \in Requests, inflight'[s] # Idle PROVE StampedAfter(inflight[s], stamp[s])'
    BY <1>2, <2>2, <2>4, <2>6, StampsKept
  <2>. QED
    BY <2>2, <2>4, <2>5, <2>6 DEF OrderInv
<1>3. ASSUME UNCHANGED <<rows, trail, inflight, stamp, times>>, now' = now \/ now' = now + 1
      PROVE  OrderInv'
  <2>1. ServiceInductive'
    <3>1. [Next]_serviceVars
      BY <1>3 DEF serviceVars
    <3>. QED
      BY <1>1, <3>1, ServiceInductiveStep
  <2>2. Times'
    BY <1>1, <1>3 DEF Times
  <2>3. HistoryInOrder'
    BY <1>3 DEF OrderInv, HistoryInOrder
  <2>4. ASSUME NEW s \in Requests, inflight'[s] # Idle PROVE StampedAfter(inflight[s], stamp[s])'
    BY <1>3, <2>4 DEF OrderInv, StampedAfter, WouldSave
  <2>. QED
    BY <2>1, <2>2, <2>3, <2>4 DEF OrderInv
<1>4. CASE Tick
  BY <1>3, <1>4 DEF Tick
<1>5. CASE Summarize
  BY <1>3, <1>5 DEF Summarize, CountTotal, CountTransitions, GroupByAction, Summarized, RunQuery
<1>6. CASE UNCHANGED trailVars
  BY <1>3, <1>6 DEF trailVars
<1>. QED
  BY <1>2, <1>4, <1>5, <1>6 DEF TrailNext

\* However requests overtake one another between their stamp and their
\* transaction, EntityHistory tells creation, edits and transitions in the order
\* in which they took effect, if clients wait for answers.
THEOREM HistoriesInOrder == ASSUME Ahead = 0 PROVE TrailSpec => []HistoryInOrder
<1>1. OrderInv /\ [TrailNext]_trailVars => OrderInv'
  BY OrderStep
<1>2. OrderInv => HistoryInOrder
  BY DEF OrderInv
<1>. QED
  BY <1>1, <1>2, OrderInit, PTL DEF TrailSpec
-----------------------------------------------------------------------------
(* Summaries                                                               *)

\* What an unfinished summary has counted is still in the log.
SummaryInv ==
    /\ ServiceTypeOK
    /\ Times
    /\ summary.stage \in {"total", "transitions"} =>
           summary.total \in Nat /\ summary.total <= Counted(summary.since, Actions)
    /\ summary.stage = "transitions" =>
           /\ summary.transitions \in Nat
           /\ summary.transitions <= Counted(summary.since, {"transition"})
    /\ SummaryNested

Matching(since, actions) ==
    {e \in Logged : times[e[1]][e[2]] >= since /\ trail[e[1]][e[2]].action \in actions}

LEMMA SubsetCard ==
    ASSUME NEW S, NEW T, IsFiniteSet(S), T \subseteq S
    PROVE  /\ IsFiniteSet(T) /\ Cardinality(T) \in Nat /\ Cardinality(S) \in Nat
           /\ Cardinality(T) <= Cardinality(S)
BY FS_Subset, FS_CardinalityType

LoggedIn(tr) == UNION {{<<k, i>> : i \in 1..Len(tr[k])} : k \in Records}

LEMMA PartFinite == ASSUME NEW k, NEW n \in Nat PROVE IsFiniteSet({<<k, i>> : i \in 1..n})
<1>1. IsFiniteSet({k})
  BY FS_Singleton
<1>2. IsFiniteSet(1..n)
  BY FS_Interval
<1>3. IsFiniteSet({k} \X (1..n))
  BY <1>1, <1>2, FS_Product
<1>4. {<<k, i>> : i \in 1..n} \subseteq {k} \X (1..n)
  OBVIOUS
<1>. QED
  BY <1>3, <1>4, SubsetCard

LEMMA LoggedFinite ==
    ASSUME IsFiniteSet(Records), NEW tr \in [Records -> Seq(Entries)]
    PROVE  IsFiniteSet(LoggedIn(tr))
<1>1. PICK f : f = [k \in Records |-> {<<k, i>> : i \in 1..Len(tr[k])}]
  OBVIOUS
<1>2. PICK Parts : Parts = {f[k] : k \in Records}
  OBVIOUS
<1>3. LoggedIn(tr) = UNION Parts
  BY <1>1, <1>2 DEF LoggedIn
<1>4. f \in Surjection(Records, Parts)
  <2>1. f \in [Records -> Parts]
    BY <1>1, <1>2
  <2>2. \A T \in Parts : \E k \in Records : f[k] = T
    BY <1>2
  <2>. QED
    BY <2>1, <2>2 DEF Surjection
<1>5. IsFiniteSet(Parts)
  BY <1>4, FS_Surjection
<1>6. ASSUME NEW k \in Records PROVE IsFiniteSet(f[k])
  <2>1. PICK n \in Nat : n = Len(tr[k])
    OBVIOUS
  <2>2. f[k] = {<<k, i>> : i \in 1..n}
    BY <1>1, <2>1
  <2>3. IsFiniteSet({<<k, i>> : i \in 1..n})
    BY PartFinite
  <2>. QED
    BY <2>2, <2>3
<1>7. \A T \in Parts : IsFiniteSet(T)
  BY <1>2, <1>6
<1>. QED
  BY <1>3, <1>5, <1>7, FS_UNION

LEMMA CountedIsNat ==
    ASSUME ServiceTypeOK, IsFiniteSet(Records), NEW since, NEW actions
    PROVE  /\ Counted(since, actions) = Cardinality(Matching(since, actions))
           /\ IsFiniteSet(Matching(since, actions)) /\ Counted(since, actions) \in Nat
<1>1. Counted(since, actions) = Cardinality(Matching(since, actions))
  BY DEF Counted, Matching
<1>2. Matching(since, actions) \subseteq LoggedIn(trail)
  BY DEF Matching, Logged, LoggedIn
<1>3. IsFiniteSet(LoggedIn(trail))
  BY LoggedFinite DEF ServiceTypeOK, LedgerTypeOK
<1>. QED
  BY <1>1, <1>2, <1>3, SubsetCard

\* Nothing is ever removed from the log, or changed in it.
LEMMA LogGrows ==
    ASSUME IsFiniteSet(Records), ServiceTypeOK, ServiceTypeOK', Times,
           [TrailNext]_trailVars, NEW since, NEW actions
    PROVE  /\ Counted(since, actions) \in Nat /\ Counted(since, actions)' \in Nat
           /\ Counted(since, actions) <= Counted(since, actions)'
<1>1. ASSUME NEW k \in Records
      PROVE  /\ Len(trail[k]) \in Nat /\ Len(trail'[k]) \in Nat
             /\ Len(trail[k]) <= Len(trail'[k])
             /\ \A i \in 1..Len(trail[k]) :
                    trail'[k][i] = trail[k][i] /\ times'[k][i] = times[k][i]
  <2>1. /\ trail[k] \in Seq(Entries) /\ trail'[k] \in Seq(Entries)
        /\ times[k] \in Seq(Nat) /\ Len(times[k]) = Len(trail[k])
    BY DEF ServiceTypeOK, LedgerTypeOK, Times
  <2>2. CASE trail'[k] = trail[k] /\ times'[k] = times[k]
    BY <2>1, <2>2
  <2>3. ASSUME NEW r \in Requests, Serve(r), trail'[k] # trail[k],
               times'[k] = Append(times[k], stamp[r])
        PROVE  /\ Len(trail[k]) <= Len(trail'[k])
               /\ \A i \in 1..Len(trail[k]) :
                      trail'[k][i] = trail[k][i] /\ times'[k][i] = times[k][i]
    <3>1. PICK e : trail'[k] = Append(trail[k], e)
      BY <2>3, AppendingStep DEF Serve
    <3>2. stamp[r] \in Nat
      BY DEF Times
    <3>. QED
      BY <2>1, <2>3, <3>1, <3>2
  <2>4. CASE \E r \in Requests : Serve(r)
    <3>1. PICK r \in Requests : Serve(r)
      BY <2>4
    <3>2. \/ trail'[k] = trail[k] /\ times'[k] = times[k]
          \/ trail'[k] # trail[k] /\ times'[k] = Append(times[k], stamp[r])
      BY <3>1, ServedTimes
    <3>3. CASE trail'[k] # trail[k] /\ times'[k] = Append(times[k], stamp[r])
      BY <2>1, <2>3, <3>1, <3>3
    <3>. QED
      BY <2>2, <3>2, <3>3
  <2>5. CASE ~\E r \in Requests : Serve(r)
    <3>1. trail' = trail /\ times' = times
      BY <2>5 DEF TrailNext, Tick, Summarize, CountTotal, CountTransitions, GroupByAction,
           Summarized, RunQuery, trailVars
    <3>. QED
      BY <2>1, <3>1
  <2>. QED
    BY <2>4, <2>5
<1>2. PICK M, M2 : M = Matching(since, actions) /\ M2 = Matching(since, actions)'
  OBVIOUS
<1>3. ASSUME NEW e \in M PROVE e \in M2
  <2>1. PICK k \in Records : \E i \in 1..Len(trail[k]) : e = <<k, i>>
    BY <1>2, <1>3 DEF Matching, Logged
  <2>. PICK i \in 1..Len(trail[k]) : e = <<k, i>>
    BY <2>1
  <2>2. e[1] = k /\ e[2] = i
    OBVIOUS
  <2>3. times[k][i] >= since /\ trail[k][i].action \in actions
    BY <1>2, <1>3, <2>2 DEF Matching
  <2>4. i \in 1..Len(trail'[k]) /\ times'[k][i] >= since /\ trail'[k][i].action \in actions
    BY <1>1, <2>1, <2>3
  <2>5. e \in Logged'
    BY <2>1, <2>4 DEF Logged
  <2>. QED
    BY <1>2, <2>2, <2>4, <2>5 DEF Matching
<1>4. IsFiniteSet(M2) /\ Counted(since, actions)' = Cardinality(M2)
  <2>1. IsFiniteSet(LoggedIn(trail'))
    BY LoggedFinite DEF ServiceTypeOK, LedgerTypeOK
  <2>2. M2 \subseteq LoggedIn(trail')
    BY <1>2 DEF Matching, Logged, LoggedIn
  <2>3. Counted(since, actions)' = Cardinality(M2)
    BY <1>2 DEF Counted, Matching
  <2>. QED
    BY <2>1, <2>2, <2>3, SubsetCard
<1>5. M \subseteq M2
  BY <1>3
<1>. QED
  BY <1>2, <1>4, <1>5, CountedIsNat, SubsetCard

\* Fewer kinds of entries, or later ones, are fewer entries; and the four kinds
\* together are all there are.
LEMMA CountedByAction ==
    ASSUME IsFiniteSet(Records), ServiceTypeOK, NEW since
    PROVE  Counted(since, Actions)
           <= Counted(since, {"create"}) + Counted(since, {"update"})
              + Counted(since, {"transition"}) + Counted(since, {"delete"})
<1>1. ASSUME NEW A, NEW B, IsFiniteSet(A), IsFiniteSet(B)
      PROVE  /\ IsFiniteSet(A \cup B) /\ Cardinality(A \cup B) \in Nat
             /\ Cardinality(A) \in Nat /\ Cardinality(B) \in Nat
             /\ Cardinality(A \cup B) <= Cardinality(A) + Cardinality(B)
  <2>1. /\ IsFiniteSet(A \cup B)
        /\ Cardinality(A \cup B) = Cardinality(A) + Cardinality(B) - Cardinality(A \cap B)
    BY <1>1, FS_Union
  <2>2. A \cap B \subseteq A
    OBVIOUS
  <2>3. Cardinality(A \cap B) \in Nat
    BY <1>1, <2>2, SubsetCard
  <2>4. Cardinality(A) \in Nat /\ Cardinality(B) \in Nat /\ Cardinality(A \cup B) \in Nat
    BY <1>1, <2>1, FS_CardinalityType
  <2>. QED
    BY <2>1, <2>3, <2>4
<1>2. PICK all, c, u, t, d :
          /\ all = Matching(since, Actions)
          /\ c = Matching(since, {"create"}) /\ u = Matching(since, {"update"})
          /\ t = Matching(since, {"transition"}) /\ d = Matching(since, {"delete"})
  OBVIOUS
<1>3. /\ IsFiniteSet(c) /\ IsFiniteSet(u) /\ IsFiniteSet(t) /\ IsFiniteSet(d)
      /\ Counted(since, Actions) = Cardinality(all)
      /\ Counted(since, {"create"}) = Cardinality(c)
      /\ Counted(since, {"update"}) = Cardinality(u)
      /\ Counted(since, {"transition"}) = Cardinality(t)
      /\ Counted(since, {"delete"}) = Cardinality(d)
  BY <1>2, CountedIsNat
<1>4. all = (c \cup u) \cup (t \cup d)
  BY <1>2 DEF Matching, Actions
<1>5. /\ IsFiniteSet(c \cup u) /\ Cardinality(c \cup u) \in Nat
      /\ Cardinality(c) \in Nat /\ Cardinality(u) \in Nat
      /\ Cardinality(c \cup u) <= Cardinality(c) + Cardinality(u)
  BY <1>1, <1>3
<1>6. /\ IsFiniteSet(t \cup d) /\ Cardinality(t \cup d) \in Nat
      /\ Cardinality(t) \in Nat /\ Cardinality(d) \in Nat
      /\ Cardinality(t \cup d) <= Cardinality(t) + Cardinality(d)
  BY <1>1, <1>3
<1>7. /\ Cardinality(all) \in Nat
      /\ Cardinality(all) <= Cardinality(c \cup u) + Cardinality(t \cup d)
  BY <1>1, <1>4, <1>5, <1>6
<1>. QED
  BY <1>3, <1>5, <1>6, <1>7

LEMMA SummaryStep ==
    ASSUME IsFiniteSet(Records), SummaryInv, [TrailNext]_trailVars
    PROVE  SummaryInv'
<1>1. ServiceTypeOK /\ Times
  BY DEF SummaryInv
<1>2. ServiceTypeOK' /\ Times'
  <2>1. ASSUME NEW r \in Requests, Serve(r) PROVE ServiceTypeOK' /\ Times'
    <3>1. [Next]_serviceVars
      BY <2>1 DEF Serve, Next
    <3>2. ServiceTypeOK'
      BY <1>1, <3>1, ServiceTypeStep
    <3>. QED
      BY <1>1, <2>1, <3>2, ServedTimes
  <2>2. CASE /\ UNCHANGED <<rows, trail, inflight, stamp, times>>
             /\ now' = now \/ now' = now + 1
    <3>1. ServiceTypeOK'
      BY <1>1, <2>2, ServiceTypeStep DEF serviceVars
    <3>2. Times'
      BY <1>1, <2>2 DEF Times
    <3>. QED
      BY <3>1, <3>2
  <2>. QED
    BY <2>1, <2>2 DEF TrailNext, Tick, Summarize, CountTotal, CountTransitions, GroupByAction,
       Summarized, RunQuery, trailVars
<1>3. ASSUME NEW since, NEW actions
      PROVE  /\ Counted(since, actions) \in Nat /\ Counted(since, actions)' \in Nat
             /\ Counted(since, actions) <= Counted(since, actions)'
  BY <1>1, <1>2, LogGrows
<1>4. PICK s, s2 : s = summary /\ s2 = summary'
  OBVIOUS
<1>5. /\ s.stage \in {"total", "transitions"} =>
             s.total \in Nat /\ s.total <= Counted(s.since, Actions)
      /\ s.stage = "transitions" =>
             s.transitions \in Nat /\ s.transitions <= Counted(s.since, {"transition"})
      /\ s.stage = "actions" =>
             /\ s.total <= s.actions["create"] + s.actions["update"]
                           + s.actions["transition"] + s.actions["delete"]
             /\ s.transitions <= s.actions["transition"]
  BY <1>4 DEF SummaryInv, SummaryNested
<1>. DEFINE Goal ==
        /\ s2.stage \in {"total", "transitions"} =>
               s2.total \in Nat /\ s2.total <= Counted(s2.since, Actions)'
        /\ s2.stage = "transitions" =>
               s2.transitions \in Nat /\ s2.transitions <= Counted(s2.since, {"transition"})'
        /\ s2.stage = "actions" =>
               /\ s2.total <= s2.actions["create"] + s2.actions["update"]
                              + s2.actions["transition"] + s2.actions["delete"]
               /\ s2.transitions <= s2.actions["transition"]
<1>6. CASE s2 = s
  <2>1. ASSUME s2.stage \in {"total", "transitions"}
        PROVE  s2.total \in Nat /\ s2.total <= Counted(s2.since, Actions)'
    BY <1>3, <1>5, <1>6, <2>1
  <2>2. ASSUME s2.stage = "transitions"
        PROVE  s2.transitions \in Nat /\ s2.transitions <= Counted(s2.since, {"transition"})'
    BY <1>3, <1>5, <1>6, <2>2
  <2>3. Goal
    BY <1>5, <1>6, <2>1, <2>2
  <2>. QED
    BY <1>2, <1>4, <2>3 DEF SummaryInv, SummaryNested
<1>7. CASE CountTotal
  <2>1. PICK v, c : v = WindowStart /\ c = Counted(WindowStart, Actions)
    OBVIOUS
  <2>2. s2 = [stage |-> "total", since |-> v, total |-> c]
    BY <1>4, <1>7, <2>1 DEF CountTotal, RunQuery
  <2>3. c \in Nat /\ c <= Counted(v, Actions)'
    BY <1>3, <2>1
  <2>4. Goal
    BY <2>2, <2>3
  <2>. QED
    BY <1>2, <1>4, <2>4 DEF SummaryInv, SummaryNested
<1>8. CASE CountTransitions
  <2>1. PICK c : c = Counted(s.since, {"transition"})
    OBVIOUS
  <2>2. /\ s.stage = "total"
        /\ s2 = [stage |-> "transitions", since |-> s.since, total |-> s.total, transitions |-> c]
    BY <1>4, <1>8, <2>1 DEF CountTransitions, RunQuery
  <2>3. c \in Nat /\ c <= Counted(s.since, {"transition"})'
    BY <1>3, <2>1
  <2>4. s.total \in Nat /\ s.total <= Counted(s.since, Actions)'
    BY <1>3, <1>5, <2>2
  <2>5. Goal
    BY <2>2, <2>3, <2>4
  <2>. QED
    BY <1>2, <1>4, <2>5 DEF SummaryInv, SummaryNested
<1>9. CASE GroupByAction
  <2>1. PICK g : g = [a \in Actions |-> Counted(s.since, {a})]
    OBVIOUS
  <2>2. /\ s.stage = "transitions"
        /\ s2 = [stage |-> "actions", since |-> s.since, total |-> s.total,
                 transitions |-> s.transitions, actions |-> g]
    BY <1>4, <1>9, <2>1 DEF GroupByAction, RunQuery
  <2>3. /\ g["create"] = Counted(s.since, {"create"}) /\ g["update"] = Counted(s.since, {"update"})
        /\ g["transition"] = Counted(s.since, {"transition"})
        /\ g["delete"] = Counted(s.since, {"delete"})
    BY <2>1 DEF Actions
  <2>4. /\ g["create"] \in Nat /\ g["update"] \in Nat
        /\ g["transition"] \in Nat /\ g["delete"] \in Nat
    BY <1>3, <2>3
  <2>5. Counted(s.since, Actions) <= g["create"] + g["update"] + g["transition"] + g["delete"]
    BY <1>1, <2>3, CountedByAction
  <2>6. /\ s.total \in Nat /\ s.total <= Counted(s.since, Actions)
        /\ s.transitions <= g["transition"]
    BY <1>5, <2>2, <2>3
  <2>7. Counted(s.since, Actions) \in Nat
    BY <1>3
  <2>8. s.total <= g["create"] + g["update"] + g["transition"] + g["delete"]
    BY <2>4, <2>5, <2>6, <2>7
  <2>9. Goal
    BY <2>2, <2>6, <2>8
  <2>. QED
    BY <1>2, <1>4, <2>9 DEF SummaryInv, SummaryNested
<1>10. CASE Summarized
  <2>1. s2 = NoSummary
    BY <1>4, <1>10 DEF Summarized, RunQuery
  <2>2. s2.stage = "none"
    BY <2>1 DEF NoSummary
  <2>3. Goal
    BY <2>2
  <2>. QED
    BY <1>2, <1>4, <2>3 DEF SummaryInv, SummaryNested
<1>. QED
  BY <1>4, <1>6, <1>7, <1>8, <1>9, <1>10 DEF TrailNext, Serve, Tick, Summarize, trailVars

\* However much is written between its queries, a summary is nested: its groups
\* add up to the total or more, whatever clients send, for any window.
THEOREM SummariesNested == ASSUME IsFiniteSet(Records) PROVE TrailSpec => []SummaryNested
<1>1. TrailInit => SummaryInv
  <2>. SUFFICES ASSUME TrailInit PROVE SummaryInv
    OBVIOUS
  <2>1. ServiceTypeOK
    BY ServiceTypeInit DEF TrailInit
  <2>2. Times
    BY DEF TrailInit, Times, Init, LedgerInit
  <2>3. summary.stage = "none"
    BY DEF TrailInit, NoSummary
  <2>. QED
    BY <2>1, <2>2, <2>3 DEF SummaryInv, SummaryNested
<1>2. SummaryInv /\ [TrailNext]_trailVars => SummaryInv'
  BY SummaryStep
<1>3. SummaryInv => SummaryNested
  BY DEF SummaryInv
<1>. QED
  BY <1>1, <1>2, <1>3, PTL DEF TrailSpec
=============================================================================
