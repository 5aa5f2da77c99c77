----------------------------- MODULE RateLimiter -----------------------------
(***************************************************************************)
(* The rate limiter of the API: a counter in Redis for each client, route  *)
(* and minute, shared by the server processes; and in each process a map   *)
(* of counters of its own, used whenever Redis fails to answer (always, in *)
(* a process that has no Redis).                                           *)
(*                                                                         *)
(* The clock is read twice: by increment, for the name of the counter in   *)
(* Redis, and by incrementLocal, inside the lock.  All counts above Limit  *)
(* are alike, so a count stops at Limit + 1.                               *)
(***************************************************************************)
EXTENDS Naturals, FiniteSets

CONSTANTS
    Servers,        \* server processes
    Keys,           \* client address and route
    Requests,       \* requests that can be in the limiter at once
    Limit,          \* requests of a key that are let through in a minute
    Capacity,       \* tracked keys from which a process cleans its map (512)
    Horizon,        \* bound: the last minute
    MaxStarts       \* bound: starts of processes, the first of each included

ASSUME LimitAssumption ==
    /\ IsFiniteSet(Servers) /\ IsFiniteSet(Requests)
    /\ Limit \in Nat \ {0} /\ Capacity \in Nat \ {0}
    /\ Horizon \in Nat
    /\ MaxStarts \in Nat /\ MaxStarts >= Cardinality(Servers)

VARIABLES
    minute,         \* the clock, in minutes
    redis,          \* redis[k][w]: the counter of key k for minute w, 0 if none
    local,          \* local[s]: the map of process s, from tracked keys to buckets
    inflight,       \* inflight[r]: where request r is in the limiter
    starts,         \* history: how many starts of processes there have been
    arrived,        \* history: arrived[k][w], requests of key k in minute w
    admitted        \* history: admitted[k][w], let through on a counter of minute w

vars == <<minute, redis, local, inflight, starts, arrived, admitted>>

history == <<starts, arrived, admitted>>
-----------------------------------------------------------------------------
Minutes == 0..Horizon

Top == Limit + 1

Plus1(n) == IF n < Top THEN n + 1 ELSE Top

Bucket == [window : Minutes, count : 1..Top]

Idle == [stage |-> "idle"]

Request == [stage  : {"redis", "local"},
            server : Servers, key : Keys, window : Minutes]

Verdict == [stage  : {"verdict"},
            server : Servers, key : Keys, window : Minutes, count : 1..Top]

Init ==
    /\ minute = 0
    /\ redis = [k \in Keys |-> [w \in Minutes |-> 0]]
    /\ local = [s \in Servers |-> [k \in {} |-> {}]]
    /\ inflight = [r \in Requests |-> Idle]
    /\ starts = Cardinality(Servers)
    /\ arrived = [k \in Keys |-> [w \in Minutes |-> 0]]
    /\ admitted = [k \in Keys |-> [w \in Minutes |-> 0]]

Goto(r, q) == inflight' = [inflight EXCEPT ![r] = q]
-----------------------------------------------------------------------------
(* Counting in Redis                                                       *)

\* The request enters the limiter, and reads the clock for the counter's name.
Arrive(r, s, k) ==
    /\ inflight[r] = Idle
    /\ Goto(r, [stage |-> "redis", server |-> s, key |-> k, window |-> minute])
    /\ arrived' = [arrived EXCEPT ![k][minute] = Plus1(@)]
    /\ UNCHANGED <<minute, redis, local, starts, admitted>>

\* INCR and EXPIRE in one transaction of Redis.
Counted(q) == [redis EXCEPT ![q.key][q.window] = Plus1(@)]

\* The transaction is executed; its answer arrives, or is lost.
CountInRedis(r) ==
    /\ inflight[r].stage = "redis"
    /\ redis' = Counted(inflight[r])
    /\ LET q == inflight[r] IN
       \/ Goto(r, [stage |-> "verdict", server |-> q.server, key |-> q.key,
                   window |-> q.window, count |-> redis'[q.key][q.window]])
       \/ Goto(r, [q EXCEPT !.stage = "local"])
    /\ UNCHANGED <<minute, local, history>>

\* Redis is disabled, down, or does not answer in time, having done nothing.
RedisFails(r) ==
    /\ inflight[r].stage = "redis"
    /\ Goto(r, [inflight[r] EXCEPT !.stage = "local"])
    /\ UNCHANGED <<minute, redis, local, history>>
-----------------------------------------------------------------------------
(* Counting in the process                                                 *)

Tracked(s) == DOMAIN local[s]

Uncleaned(s) == Tracked(s)      \* mutant of Kept

\* Mutant of Kept: a full map is cleaned of the buckets of this minute, too.
KeptNone(s) == IF Cardinality(Tracked(s)) < Capacity THEN Tracked(s) ELSE {}

\* cleanupLocal: the keys it leaves in the map.
Kept(s) ==
    IF Cardinality(Tracked(s)) < Capacity THEN Tracked(s)
    ELSE {k \in Tracked(s) : local[s][k].window >= minute}

FilledEmpty(s, k) == [window |-> minute, count |-> 0]    \* mutant of Filled

\* The bucket of k after one more request.
Filled(s, k) ==
    IF k \in Kept(s) /\ local[s][k].window = minute
    THEN [window |-> minute, count |-> Plus1(local[s][k].count)]
    ELSE [window |-> minute, count |-> 1]

\* incrementLocal, under its lock.
CountLocally(r) ==
    /\ inflight[r].stage = "local"
    /\ LET q == inflight[r]
           s == q.server
       IN /\ local' = [local EXCEPT ![s] =
                          [k \in Kept(s) \cup {q.key} |->
                              IF k = q.key THEN Filled(s, k) ELSE local[s][k]]]
          /\ Goto(r, [stage |-> "verdict", server |-> s, key |-> q.key, window |-> minute,
                      count |-> Filled(s, q.key).count])
    /\ UNCHANGED <<minute, redis, history>>
-----------------------------------------------------------------------------
(* The verdict, the clock, and processes that start again                  *)

AdmitsFewer(count) == count < Limit     \* mutant of Admits

Admits(count) == count <= Limit

\* The number of admissions that are told apart; above it they are too many.
TooMany == Limit * (1 + MaxStarts) + 1

Decide(r) ==
    /\ inflight[r].stage = "verdict"
    /\ LET q == inflight[r] IN
       admitted' = IF Admits(q.count) /\ admitted[q.key][q.window] < TooMany
                   THEN [admitted EXCEPT ![q.key][q.window] = @ + 1]
                   ELSE admitted
    /\ Goto(r, Idle)
    /\ UNCHANGED <<minute, redis, local, starts, arrived>>

\* The process stops, with the requests it serves, and is started again.
Restart(s) ==
    /\ starts < MaxStarts
    /\ starts' = starts + 1
    /\ local' = [local EXCEPT ![s] = [k \in {} |-> {}]]
    /\ inflight' = [r \in Requests |->
                       IF inflight[r] # Idle /\ inflight[r].server = s THEN Idle
                       ELSE inflight[r]]
    /\ UNCHANGED <<minute, redis, arrived, admitted>>

\* The client of Redis gives up after seconds, so no request spends a whole
\* minute in the limiter.  A counter of Redis goes two minutes after its last
\* increment, when no request can name it any more.
Tick ==
    /\ minute < Horizon
    /\ \A r \in Requests : inflight[r] # Idle => inflight[r].window = minute
    /\ minute' = minute + 1
    /\ redis' = [k \in Keys |-> [w \in Minutes |-> IF w + 2 <= minute' THEN 0 ELSE redis[k][w]]]
    /\ UNCHANGED <<local, inflight, history>>
-----------------------------------------------------------------------------
RequestStep(r) ==
    \/ \E s \in Servers, k \in Keys : Arrive(r, s, k)
    \/ CountInRedis(r) \/ RedisFails(r) \/ CountLocally(r) \/ Decide(r)

Next == (\E r \in Requests : RequestStep(r)) \/ (\E s \in Servers : Restart(s)) \/ Tick

Spec == Init /\ [][Next]_vars
-----------------------------------------------------------------------------
(* The properties                                                          *)

TypeOK ==
    /\ minute \in Minutes
    /\ redis \in [Keys -> [Minutes -> 0..Top]]
    /\ \A s \in Servers : Tracked(s) \subseteq Keys /\ \A k \in Tracked(s) : local[s][k] \in Bucket
    /\ inflight \in [Requests -> {Idle} \cup Request \cup Verdict]
    /\ starts \in Cardinality(Servers)..MaxStarts
    /\ arrived \in [Keys -> [Minutes -> 0..Top]]
    /\ admitted \in [Keys -> [Minutes -> 0..TooMany]]

\* What Redis failing costs: as many requests of a key are let through in a
\* minute as the limit, once for Redis and once for each process for each of
\* its starts, and not more, wherever requests fall back, in whatever order
\* their answers come, and whatever the map is cleaned of (Middleware).
WithinLimit ==
    \A k \in Keys, w \in Minutes : admitted[k][w] <= Limit * (1 + starts)

\* A client that sends a key no more than Limit requests in any two minutes in
\* a row is refused nothing, also when an answer of Redis is lost and a request
\* is counted twice, and when a request is counted in the minute after its own.
RefusedForCause ==
    \A r \in Requests :
        inflight[r].stage = "verdict" /\ ~Admits(inflight[r].count)
        => LET q == inflight[r] IN
           arrived[q.key][q.window]
               + (IF q.window = 0 THEN 0 ELSE arrived[q.key][q.window - 1]) > Limit

\* The map of a process holds Capacity keys at most, unless so many are used in
\* one minute: no bucket of an earlier minute is kept in a fuller map
\* (cleanupLocal runs before the key is added, and counts all buckets).
MapBounded ==
    \A s \in Servers :
        Cardinality(Tracked(s)) > Capacity
        => \A j, k \in Tracked(s) : local[s][j].window = local[s][k].window
=============================================================================
