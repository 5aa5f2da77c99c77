-------------------------- MODULE RateLimiterProofs --------------------------
(***************************************************************************)
(* Theorems about RateLimiter, for any finite set of processes, any sets   *)
(* of keys and requests, any limit and any capacity of the maps.           *)
(***************************************************************************)
EXTENDS RateLimiter, FiniteSetTheorems, TLAPS

LEMMA Numbers ==
    /\ Limit \in Nat /\ Limit >= 1 /\ Top \in Nat /\ Top = Limit + 1
    /\ Capacity \in Nat /\ Capacity >= 1
    /\ 0 \in Minutes /\ Minutes \subseteq Nat
    /\ \A n \in 0..Top : Plus1(n) \in 1..Top
BY LimitAssumption DEF Top, Minutes, Plus1

LEMMA StartsNumber == MaxStarts \in Nat /\ Cardinality(Servers) \in 0..MaxStarts
<1>1. Cardinality(Servers) \in Nat
  BY LimitAssumption, FS_CardinalityType
<1>. QED
  BY <1>1, LimitAssumption

LEMMA TooManyIsNat == TooMany \in Nat
<1>1. Limit \in Nat /\ MaxStarts \in Nat
  BY LimitAssumption
<1>2. ASSUME NEW a \in Nat, NEW b \in Nat PROVE a * (1 + b) + 1 \in Nat
  BY SMT
<1>. QED
  BY <1>1, <1>2 DEF TooMany
-----------------------------------------------------------------------------
(* The maps of the processes                                               *)

\* What the bound on the maps rests on: a map is finite, and has no bucket of
\* a minute to come.
MapInv ==
    /\ minute \in Nat
    /\ DOMAIN local = Servers
    /\ \A s \in Servers :
        /\ IsFiniteSet(Tracked(s))
        /\ \A k \in Tracked(s) : local[s][k].window \in Nat /\ local[s][k].window <= minute

\* What CountLocally leaves in the map of a process.
LEMMA CountedMap ==
    ASSUME NEW s \in Servers, NEW k, MapInv,
           NEW map, map = [j \in Kept(s) \cup {k} |->
                              IF j = k THEN Filled(s, j) ELSE local[s][j]]
    PROVE  /\ IsFiniteSet(DOMAIN map)
           /\ \A j \in DOMAIN map : map[j].window \in Nat /\ map[j].window <= minute
           /\ Cardinality(DOMAIN map) > Capacity =>
                  \A j \in DOMAIN map : map[j].window = minute
<1>1. DOMAIN map = Kept(s) \cup {k} /\ minute \in Nat
  BY DEF MapInv
<1>2. Kept(s) \subseteq Tracked(s) /\ IsFiniteSet(Tracked(s))
  BY DEF Kept, MapInv
<1>3. IsFiniteSet(Kept(s)) /\ IsFiniteSet(Kept(s) \cup {k})
  BY <1>2, FS_Subset, FS_AddElement
<1>4. \A j \in DOMAIN map : map[j].window = minute \/ (j \in Kept(s) /\ map[j] = local[s][j])
  <2>1. Filled(s, k).window = minute
    BY DEF Filled
  <2>. QED
    BY <1>1, <2>1
<1>5. \A j \in DOMAIN map : map[j].window \in Nat /\ map[j].window <= minute
  BY <1>1, <1>2, <1>4 DEF MapInv
<1>6. CASE Cardinality(Tracked(s)) < Capacity
  <2>1. Kept(s) = Tracked(s)
    BY <1>6 DEF Kept
  <2>2. Cardinality(Tracked(s)) \in Nat
    BY <1>2, FS_CardinalityType
  <2>3. Cardinality(Tracked(s) \cup {k}) <= Cardinality(Tracked(s)) + 1
    BY <1>2, <2>2, FS_AddElement
  <2>4. Cardinality(Tracked(s) \cup {k}) \in Nat
    BY <1>3, <2>1, FS_CardinalityType
  <2>5. ~(Cardinality(DOMAIN map) > Capacity)
    BY <1>1, <1>6, <2>1, <2>2, <2>3, <2>4, Numbers
  <2>. QED
    BY <1>1, <1>3, <1>5, <2>5
<1>7. CASE ~(Cardinality(Tracked(s)) < Capacity)
  <2>1. \A j \in Kept(s) : j \in Tracked(s) /\ local[s][j].window >= minute
    BY <1>7 DEF Kept
  <2>2. ASSUME NEW j \in Kept(s) PROVE local[s][j].window = minute
    <3>1. local[s][j].window \in Nat /\ local[s][j].window <= minute
      BY <2>1 DEF MapInv
    <3>. QED
      BY <1>1, <2>1, <3>1
  <2>3. \A j \in DOMAIN map : map[j].window = minute
    BY <1>4, <2>2
  <2>. QED
    BY <1>1, <1>3, <1>5, <2>3
<1>. QED
  BY <1>6, <1>7

LEMMA MapInit == Init => MapInv /\ MapBounded
<1>. SUFFICES ASSUME Init PROVE MapInv /\ MapBounded
  OBVIOUS
<1>1. minute = 0 /\ DOMAIN local = Servers /\ \A s \in Servers : Tracked(s) = {}
  BY DEF Init, Tracked
<1>2. IsFiniteSet({}) /\ Cardinality({}) = 0
  BY FS_EmptySet
<1>3. MapInv
  BY <1>1, <1>2 DEF MapInv
<1>4. MapBounded
  BY <1>1 DEF MapBounded
<1>. QED
  BY <1>3, <1>4

LEMMA MapStep == MapInv /\ MapBounded /\ [Next]_vars => (MapInv /\ MapBounded)'
<1>. SUFFICES ASSUME MapInv, MapBounded, [Next]_vars PROVE MapInv' /\ MapBounded'
  OBVIOUS
<1>. USE DEF Tracked
<1>1. ASSUME DOMAIN local' = Servers, \A s \in Servers : local'[s] = local[s],
             minute' = minute \/ minute' = minute + 1
      PROVE  MapInv' /\ MapBounded'
  <2>1. MapInv'
    BY <1>1 DEF MapInv
  <2>2. MapBounded'
    BY <1>1 DEF MapBounded
  <2>. QED
    BY <2>1, <2>2
<1>2. ASSUME NEW r \in Requests, CountLocally(r) PROVE MapInv' /\ MapBounded'
  <2>1. PICK s0, k0 : s0 = inflight[r].server /\ k0 = inflight[r].key
    OBVIOUS
  <2>2. PICK map : map = [j \in Kept(s0) \cup {k0} |->
                             IF j = k0 THEN Filled(s0, j) ELSE local[s0][j]]
    OBVIOUS
  <2>3. local' = [local EXCEPT ![s0] = map] /\ minute' = minute
    BY <1>2, <2>1, <2>2 DEF CountLocally
  <2>4. CASE s0 \notin Servers
    <3>1. DOMAIN local' = Servers /\ \A s \in Servers : local'[s] = local[s]
      BY <2>3, <2>4 DEF MapInv
    <3>. QED
      BY <1>1, <2>3, <3>1
  <2>5. CASE s0 \in Servers
    <3>1. /\ IsFiniteSet(DOMAIN map)
          /\ \A j \in DOMAIN map : map[j].window \in Nat /\ map[j].window <= minute
          /\ Cardinality(DOMAIN map) > Capacity => \A j \in DOMAIN map : map[j].window = minute
      BY <2>5, <2>2, CountedMap
    <3>2. DOMAIN local' = Servers /\ local'[s0] = map
      BY <2>3, <2>5 DEF MapInv
    <3>3. \A s \in Servers : s # s0 => local'[s] = local[s]
      BY <2>3 DEF MapInv
    <3>4. MapInv'
      BY <2>3, <3>1, <3>2, <3>3 DEF MapInv
    <3>5. MapBounded'
      BY <3>1, <3>2, <3>3 DEF MapBounded
    <3>. QED
      BY <3>4, <3>5
  <2>. QED
    BY <2>4, <2>5
<1>3. ASSUME NEW t \in Servers, Restart(t) PROVE MapInv' /\ MapBounded'
  <2>1. /\ minute' = minute /\ DOMAIN local' = Servers
        /\ \A s \in Servers : local'[s] = local[s] \/ DOMAIN local'[s] = {}
    BY <1>3 DEF Restart, MapInv
  <2>2. IsFiniteSet({}) /\ Cardinality({}) = 0
    BY FS_EmptySet
  <2>3. MapInv'
    BY <2>1, <2>2 DEF MapInv
  <2>4. MapBounded'
    BY <2>1 DEF MapBounded
  <2>. QED
    BY <2>3, <2>4
<1>4. ASSUME NEW r \in Requests, RequestStep(r) PROVE MapInv' /\ MapBounded'
  <2>1. CountLocally(r) \/ (UNCHANGED local /\ minute' = minute)
    BY <1>4 DEF RequestStep, Arrive, CountInRedis, RedisFails, Decide
  <2>. QED
    BY <1>1, <1>2, <2>1 DEF MapInv
<1>5. CASE Tick
  BY <1>1, <1>5 DEF Tick, history, MapInv
<1>6. CASE UNCHANGED vars
  BY <1>1, <1>6 DEF vars, MapInv
<1>. QED
  BY <1>3, <1>4, <1>5, <1>6 DEF Next

\* A map that is longer than its capacity holds buckets of one minute only:
\* what cleanupLocal bounds, for any number of keys and any capacity.
THEOREM MapsBounded == Spec => []MapBounded
BY MapInit, MapStep, PTL DEF Spec
-----------------------------------------------------------------------------
(* Type correctness                                                        *)

\* A request is idle, or has the fields of its stage.
LEMMA RequestFields ==
    ASSUME NEW q \in {Idle} \cup Request \cup Verdict
    PROVE  /\ q.stage \in {"redis", "local"} => q \in Request
           /\ q.stage = "verdict" => q \in Verdict
BY DEF Idle, Request, Verdict

LEMMA TypeInit == Init => TypeOK
<1>. SUFFICES ASSUME Init PROVE TypeOK
  OBVIOUS
<1>1. 0 \in 0..Top /\ 0 \in 0..TooMany
  BY Numbers, TooManyIsNat
<1>2. starts \in Cardinality(Servers)..MaxStarts
  BY StartsNumber DEF Init
<1>. QED
  BY <1>1, <1>2, Numbers DEF Init, TypeOK, Tracked

\* Counting a request in the map of its process leaves buckets in the maps.
LEMMA TypeOfCountedMap ==
    ASSUME NEW s \in Servers, NEW k \in Keys, TypeOK
    PROVE  /\ Filled(s, k) \in Bucket
           /\ Kept(s) \cup {k} \subseteq Keys
           /\ \A j \in Kept(s) : local[s][j] \in Bucket
<1>1. Kept(s) \subseteq Tracked(s)
  BY DEF Kept
<1>2. Tracked(s) \subseteq Keys /\ \A j \in Tracked(s) : local[s][j] \in Bucket
  BY DEF TypeOK
<1>3. minute \in Minutes /\ 1 \in 1..Top
  BY Numbers DEF TypeOK
<1>4. CASE k \in Kept(s) /\ local[s][k].window = minute
  <2>1. local[s][k].count \in 1..Top
    BY <1>1, <1>2, <1>4 DEF Bucket
  <2>2. Plus1(local[s][k].count) \in 1..Top
    BY <2>1, Numbers
  <2>. QED
    BY <1>1, <1>2, <1>3, <1>4, <2>2 DEF Filled, Bucket
<1>5. CASE ~(k \in Kept(s) /\ local[s][k].window = minute)
  BY <1>1, <1>2, <1>3, <1>5 DEF Filled, Bucket
<1>. QED
  BY <1>4, <1>5

LEMMA TypeStep == TypeOK /\ [Next]_vars => TypeOK'
<1>. SUFFICES ASSUME TypeOK, [Next]_vars PROVE TypeOK'
  OBVIOUS
<1>1. ASSUME NEW r \in Requests, NEW s \in Servers, NEW k \in Keys, Arrive(r, s, k)
      PROVE  TypeOK'
  <2>1. inflight' \in [Requests -> {Idle} \cup Request \cup Verdict]
    BY <1>1 DEF Arrive, Goto, TypeOK, Request
  <2>2. arrived' \in [Keys -> [Minutes -> 0..Top]]
    <3>1. arrived[k][minute] \in 0..Top
      BY DEF TypeOK
    <3>2. Plus1(arrived[k][minute]) \in 0..Top
      BY <3>1, Numbers
    <3>. QED
      BY <1>1, <3>2 DEF Arrive, TypeOK
  <2>. QED
    BY <1>1, <2>1, <2>2 DEF Arrive, TypeOK, Tracked
<1>2. ASSUME NEW r \in Requests, CountInRedis(r) PROVE TypeOK'
  <2>1. PICK q : q = inflight[r]
    OBVIOUS
  <2>2. q \in Request /\ q.key \in Keys /\ q.window \in Minutes /\ q.server \in Servers
    BY <1>2, <2>1, RequestFields DEF CountInRedis, TypeOK, Request
  <2>3. Plus1(redis[q.key][q.window]) \in 1..Top
    <3>1. redis[q.key][q.window] \in 0..Top
      BY <2>2 DEF TypeOK
    <3>. QED
      BY <3>1, Numbers
  <2>4. redis' = [redis EXCEPT ![q.key][q.window] = Plus1(redis[q.key][q.window])]
    BY <1>2, <2>1 DEF CountInRedis, Counted
  <2>5. redis' \in [Keys -> [Minutes -> 0..Top]] /\ redis'[q.key][q.window] \in 1..Top
    BY <2>2, <2>3, <2>4 DEF TypeOK
  <2>6. inflight' \in [Requests -> {Idle} \cup Request \cup Verdict]
    <3>1. PICK n : n = redis'[q.key][q.window]
      OBVIOUS
    <3>2. [stage |-> "verdict", server |-> q.server, key |-> q.key, window |-> q.window,
           count |-> n] \in Verdict
      BY <2>2, <2>5, <3>1 DEF Verdict
    <3>3. [q EXCEPT !.stage = "local"] \in Request
      BY <2>2 DEF Request
    <3>. QED
      BY <1>2, <2>1, <3>1, <3>2, <3>3 DEF CountInRedis, Goto, TypeOK
  <2>. QED
    BY <1>2, <2>5, <2>6 DEF CountInRedis, history, TypeOK, Tracked
<1>3. ASSUME NEW r \in Requests, RedisFails(r) PROVE TypeOK'
  <2>1. PICK q : q = inflight[r]
    OBVIOUS
  <2>2. q \in Request
    BY <1>3, <2>1, RequestFields DEF RedisFails, TypeOK
  <2>3. [q EXCEPT !.stage = "local"] \in Request
    BY <2>2 DEF Request
  <2>4. inflight' \in [Requests -> {Idle} \cup Request \cup Verdict]
    BY <1>3, <2>1, <2>3 DEF RedisFails, Goto, TypeOK
  <2>. QED
    BY <1>3, <2>4 DEF RedisFails, history, TypeOK, Tracked
<1>4. ASSUME NEW r \in Requests, CountLocally(r) PROVE TypeOK'
  <2>1. PICK q : q = inflight[r]
    OBVIOUS
  <2>2. q.key \in Keys /\ q.server \in Servers
    BY <1>4, <2>1, RequestFields DEF CountLocally, TypeOK, Request
  <2>3. /\ Filled(q.server, q.key) \in Bucket
        /\ Kept(q.server) \cup {q.key} \subseteq Keys
        /\ \A j \in Kept(q.server) : local[q.server][j] \in Bucket
    BY <2>2, TypeOfCountedMap
  <2>4. PICK map : map = [k \in Kept(q.server) \cup {q.key} |->
                             IF k = q.key THEN Filled(q.server, k) ELSE local[q.server][k]]
    OBVIOUS
  <2>5. local' = [local EXCEPT ![q.server] = map]
    BY <1>4, <2>1, <2>4 DEF CountLocally
  <2>6. DOMAIN map \subseteq Keys /\ \A k \in DOMAIN map : map[k] \in Bucket
    BY <2>3, <2>4
  <2>7. \A s \in Servers : local'[s] = map \/ local'[s] = local[s]
    BY <2>2, <2>5 DEF TypeOK
  <2>8. inflight' \in [Requests -> {Idle} \cup Request \cup Verdict]
    <3>1. PICK n : n = Filled(q.server, q.key).count
      OBVIOUS
    <3>2. n \in 1..Top /\ minute \in Minutes
      BY <2>3, <3>1 DEF Bucket, TypeOK
    <3>3. [stage |-> "verdict", server |-> q.server, key |-> q.key, window |-> minute,
           count |-> n] \in Verdict
      BY <2>2, <3>2 DEF Verdict
    <3>. QED
      BY <1>4, <2>1, <3>1, <3>3 DEF CountLocally, Goto, TypeOK
  <2>. QED
    BY <1>4, <2>6, <2>7, <2>8 DEF CountLocally, history, TypeOK, Tracked
<1>5. ASSUME NEW r \in Requests, Decide(r) PROVE TypeOK'
  <2>1. PICK q : q = inflight[r]
    OBVIOUS
  <2>2. q.key \in Keys /\ q.window \in Minutes
    BY <1>5, <2>1, RequestFields DEF Decide, TypeOK, Verdict
  <2>3. admitted[q.key][q.window] \in 0..TooMany
    BY <2>2 DEF TypeOK
  <2>4. admitted[q.key][q.window] < TooMany => admitted[q.key][q.window] + 1 \in 0..TooMany
    BY <2>3, TooManyIsNat
  <2>5. admitted' \in [Keys -> [Minutes -> 0..TooMany]]
    BY <1>5, <2>1, <2>2, <2>4 DEF Decide, TypeOK
  <2>6. inflight' \in [Requests -> {Idle} \cup Request \cup Verdict]
    BY <1>5 DEF Decide, Goto, TypeOK
  <2>. QED
    BY <1>5, <2>5, <2>6 DEF Decide, TypeOK, Tracked
<1>6. ASSUME NEW s \in Servers, Restart(s) PROVE TypeOK'
  <2>1. starts' \in Cardinality(Servers)..MaxStarts
    BY <1>6, StartsNumber DEF Restart, TypeOK
  <2>2. \A t \in Servers : local'[t] = local[t] \/ DOMAIN local'[t] = {}
    BY <1>6 DEF Restart, TypeOK
  <2>3. inflight' \in [Requests -> {Idle} \cup Request \cup Verdict]
    BY <1>6 DEF Restart, TypeOK
  <2>. QED
    BY <1>6, <2>1, <2>2, <2>3 DEF Restart, TypeOK, Tracked
<1>7. CASE Tick
  <2>1. minute' \in Minutes
    BY <1>7, LimitAssumption DEF Tick, TypeOK, Minutes
  <2>2. 0 \in 0..Top
    BY Numbers
  <2>3. redis' \in [Keys -> [Minutes -> 0..Top]]
    BY <1>7, <2>2 DEF Tick, TypeOK
  <2>. QED
    BY <1>7, <2>1, <2>3 DEF Tick, history, TypeOK, Tracked
<1>8. CASE UNCHANGED vars
  BY <1>8 DEF vars, TypeOK, Tracked
<1>. QED
  BY <1>1, <1>2, <1>3, <1>4, <1>5, <1>6, <1>7, <1>8 DEF Next, RequestStep

\* Every variable has its type, for any finite set of processes and any limit.
THEOREM TypeCorrect == Spec => []TypeOK
BY TypeInit, TypeStep, PTL DEF Spec
-----------------------------------------------------------------------------
(* Refusals                                                                *)

LEMMA SubsetCard ==
    ASSUME NEW S, NEW T, IsFiniteSet(S), T \subseteq S
    PROVE  /\ IsFiniteSet(T) /\ Cardinality(T) \in Nat /\ Cardinality(S) \in Nat
           /\ Cardinality(T) <= Cardinality(S)
BY FS_Subset, FS_CardinalityType

LEMMA AddedCard ==
    ASSUME NEW S, NEW T, NEW x, IsFiniteSet(S), T \subseteq S \cup {x}
    PROVE  /\ IsFiniteSet(T) /\ Cardinality(T) \in Nat /\ Cardinality(S) \in Nat
           /\ Cardinality(T) <= Cardinality(S) + 1
<1>1. IsFiniteSet(S \cup {x}) /\ Cardinality(S) \in Nat
  BY FS_AddElement, FS_CardinalityType
<1>2. Cardinality(S \cup {x}) <= Cardinality(S) + 1
  BY <1>1, FS_AddElement
<1>3. /\ IsFiniteSet(T) /\ Cardinality(T) \in Nat /\ Cardinality(S \cup {x}) \in Nat
      /\ Cardinality(T) <= Cardinality(S \cup {x})
  BY <1>1, SubsetCard
<1>. QED
  BY <1>1, <1>2, <1>3

LEMMA RemovedCard ==
    ASSUME NEW S, NEW T, NEW x \in S, IsFiniteSet(S), T \subseteq S \ {x}
    PROVE  /\ IsFiniteSet(T) /\ Cardinality(T) \in Nat /\ Cardinality(S) \in Nat
           /\ Cardinality(T) + 1 <= Cardinality(S)
<1>1. IsFiniteSet(S \ {x}) /\ Cardinality(S) \in Nat
  BY FS_RemoveElement, FS_CardinalityType
<1>2. Cardinality(S \ {x}) = Cardinality(S) - 1
  BY FS_RemoveElement
<1>3. /\ IsFiniteSet(T) /\ Cardinality(T) \in Nat /\ Cardinality(S \ {x}) \in Nat
      /\ Cardinality(T) <= Cardinality(S \ {x})
  BY <1>1, SubsetCard
<1>. QED
  BY <1>1, <1>2, <1>3

\* Where a request of key k and minute w is, and the requests that are there.
CanCount(q, k, w) ==
    q.stage \in {"redis", "local"} /\ q.key = k /\ (q.window = w \/ q.window + 1 = w)

AsksRedis(q, k, w) == q.stage = "redis" /\ q.key = k /\ q.window = w

Pend(fl, k, w) == {r \in Requests : CanCount(fl[r], k, w)}

AtRedis(fl, k, w) == {r \in Requests : AsksRedis(fl[r], k, w)}

\* The requests of k in minute w and the one before.
Sent(arr, k, w) == arr[k][w] + (IF w = 0 THEN 0 ELSE arr[k][w - 1])

\* A count of n has its cause in a requests.
Caused(n, a) == n <= a \/ a > Limit

\* A request is counted in its own minute or the next.
Windows == \A r \in Requests :
    inflight[r] # Idle => inflight[r].window = minute \/ inflight[r].window + 1 = minute

RedisCause(rd, fl, arr) == \A k \in Keys, w \in Minutes :
    Caused(rd[k][w] + Cardinality(AtRedis(fl, k, w)), arr[k][w])

PendCause(fl, arr) == \A k \in Keys, w \in Minutes :
    Caused(Cardinality(Pend(fl, k, w)), Sent(arr, k, w))

LocalCause(lo, fl, arr) == \A s \in Servers : \A k \in DOMAIN lo[s] :
    Caused(lo[s][k].count + Cardinality(Pend(fl, k, lo[s][k].window)),
           Sent(arr, k, lo[s][k].window))

Refusals(fl, arr) == \A r \in Requests :
    fl[r].stage = "verdict" /\ fl[r].count > Limit
    => Sent(arr, fl[r].key, fl[r].window) > Limit

\* Every count, with the requests that may still add to it, has its cause.
CauseInv ==
    /\ TypeOK /\ MapInv /\ Windows
    /\ RedisCause(redis, inflight, arrived)
    /\ PendCause(inflight, arrived)
    /\ LocalCause(local, inflight, arrived)
    /\ Refusals(inflight, arrived)

Flights == [Requests -> {Idle} \cup Request \cup Verdict]

Counts == [Keys -> [Minutes -> 0..Top]]

LEMMA SentNumber ==
    ASSUME NEW arr \in Counts, NEW k \in Keys, NEW w \in Minutes
    PROVE  /\ arr[k][w] \in Nat /\ Sent(arr, k, w) \in Nat /\ arr[k][w] <= Sent(arr, k, w)
<1>1. arr[k][w] \in Nat
  BY Numbers DEF Counts
<1>2. CASE w = 0
  BY <1>1, <1>2 DEF Sent
<1>3. CASE w # 0
  <2>1. w - 1 \in Minutes
    BY <1>3, LimitAssumption DEF Minutes
  <2>2. arr[k][w - 1] \in Nat
    BY <2>1, Numbers DEF Counts
  <2>. QED
    BY <1>1, <1>3, <2>2 DEF Sent
<1>. QED
  BY <1>2, <1>3

LEMMA FlightSets ==
    ASSUME NEW fl, NEW k, NEW w
    PROVE  /\ IsFiniteSet(Pend(fl, k, w)) /\ Cardinality(Pend(fl, k, w)) \in Nat
           /\ IsFiniteSet(AtRedis(fl, k, w)) /\ Cardinality(AtRedis(fl, k, w)) \in Nat
<1>1. Pend(fl, k, w) \subseteq Requests /\ AtRedis(fl, k, w) \subseteq Requests
  BY DEF Pend, AtRedis
<1>. QED
  BY <1>1, SubsetCard, LimitAssumption

\* Such steps keep the causes of all counts that have not grown.
LEMMA QuietPending ==
    ASSUME NEW fl, NEW gl, NEW k, NEW w,
           \A r \in Requests : CanCount(gl[r], k, w) => CanCount(fl[r], k, w)
    PROVE  /\ Cardinality(Pend(gl, k, w)) \in Nat /\ Cardinality(Pend(fl, k, w)) \in Nat
           /\ Cardinality(Pend(gl, k, w)) <= Cardinality(Pend(fl, k, w))
<1>1. Pend(gl, k, w) \subseteq Pend(fl, k, w)
  BY DEF Pend
<1>. QED
  BY <1>1, FlightSets, SubsetCard

LEMMA QuietPend ==
    ASSUME NEW fl, NEW gl, NEW arr \in Counts, PendCause(fl, arr),
           \A r \in Requests, k \in Keys, w \in Minutes :
               CanCount(gl[r], k, w) => CanCount(fl[r], k, w)
    PROVE  PendCause(gl, arr)
<1>1. ASSUME NEW k \in Keys, NEW w \in Minutes
      PROVE  Caused(Cardinality(Pend(gl, k, w)), Sent(arr, k, w))
  <2>1. /\ Cardinality(Pend(gl, k, w)) \in Nat /\ Cardinality(Pend(fl, k, w)) \in Nat
        /\ Cardinality(Pend(gl, k, w)) <= Cardinality(Pend(fl, k, w))
    BY QuietPending
  <2>2. Caused(Cardinality(Pend(fl, k, w)), Sent(arr, k, w))
    BY DEF PendCause
  <2>. QED
    BY <2>1, <2>2, SentNumber, Numbers DEF Caused
<1>. QED
  BY <1>1 DEF PendCause

LEMMA QuietLocal ==
    ASSUME NEW fl, NEW gl, NEW lo, NEW lo2, NEW arr \in Counts, LocalCause(lo, fl, arr),
           \A s \in Servers : \A k \in DOMAIN lo[s] : k \in Keys /\ lo[s][k] \in Bucket,
           \A r \in Requests, k \in Keys, w \in Minutes :
               CanCount(gl[r], k, w) => CanCount(fl[r], k, w),
           \A s \in Servers : \A k \in DOMAIN lo2[s] :
               k \in DOMAIN lo[s] /\ lo2[s][k] = lo[s][k]
    PROVE  LocalCause(lo2, gl, arr)
<1>1. ASSUME NEW s \in Servers, NEW k \in DOMAIN lo2[s]
      PROVE  Caused(lo2[s][k].count + Cardinality(Pend(gl, k, lo2[s][k].window)),
                    Sent(arr, k, lo2[s][k].window))
  <2>1. PICK n, w : n = lo2[s][k].count /\ w = lo2[s][k].window
    OBVIOUS
  <2>2. k \in Keys /\ w \in Minutes /\ n \in Nat
    BY <2>1, Numbers DEF Bucket
  <2>3. Caused(n + Cardinality(Pend(fl, k, w)), Sent(arr, k, w))
    BY <2>1 DEF LocalCause
  <2>4. /\ Cardinality(Pend(gl, k, w)) \in Nat /\ Cardinality(Pend(fl, k, w)) \in Nat
        /\ Cardinality(Pend(gl, k, w)) <= Cardinality(Pend(fl, k, w))
    BY <2>2, QuietPending
  <2>5. Caused(n + Cardinality(Pend(gl, k, w)), Sent(arr, k, w))
    BY <2>2, <2>3, <2>4, SentNumber, Numbers DEF Caused
  <2>. QED
    BY <2>1, <2>5
<1>. QED
  BY <1>1 DEF LocalCause

LEMMA QuietRedis ==
    ASSUME NEW fl, NEW gl, NEW rd \in Counts, NEW rd2 \in Counts, NEW arr \in Counts,
           RedisCause(rd, fl, arr),
           \A r \in Requests, k \in Keys, w \in Minutes :
               AsksRedis(gl[r], k, w) => AsksRedis(fl[r], k, w),
           \A k \in Keys, w \in Minutes : rd2[k][w] <= rd[k][w]
    PROVE  RedisCause(rd2, gl, arr)
<1>1. ASSUME NEW k \in Keys, NEW w \in Minutes
      PROVE  Caused(rd2[k][w] + Cardinality(AtRedis(gl, k, w)), arr[k][w])
  <2>1. AtRedis(gl, k, w) \subseteq AtRedis(fl, k, w)
    BY DEF AtRedis
  <2>2. /\ Cardinality(AtRedis(gl, k, w)) \in Nat /\ Cardinality(AtRedis(fl, k, w)) \in Nat
        /\ Cardinality(AtRedis(gl, k, w)) <= Cardinality(AtRedis(fl, k, w))
    BY <2>1, FlightSets, SubsetCard
  <2>3. rd[k][w] \in Nat /\ rd2[k][w] \in Nat /\ rd2[k][w] <= rd[k][w] /\ arr[k][w] \in Nat
    BY SentNumber
  <2>4. Caused(rd[k][w] + Cardinality(AtRedis(fl, k, w)), arr[k][w])
    BY DEF RedisCause
  <2>. QED
    BY <2>2, <2>3, <2>4, Numbers DEF Caused
<1>. QED
  BY <1>1 DEF RedisCause

\* What one more request of k0 in minute m makes of the numbers sent.
LEMMA OneMoreSent ==
    ASSUME NEW arr \in Counts, NEW k0 \in Keys, NEW m \in Minutes, NEW ar2 \in Counts,
           ar2 = [arr EXCEPT ![k0][m] = Plus1(arr[k0][m])],
           NEW k \in Keys, NEW w \in Minutes
    PROVE  /\ arr[k][w] \in Nat /\ ar2[k][w] \in Nat
           /\ Sent(arr, k, w) \in Nat /\ Sent(ar2, k, w) \in Nat
           /\ arr[k][w] <= ar2[k][w] /\ Sent(arr, k, w) <= Sent(ar2, k, w)
           /\ k = k0 /\ w = m => arr[k][w] + 1 <= ar2[k][w] \/ ar2[k][w] > Limit
           /\ k = k0 /\ (w = m \/ w = m + 1) =>
                  Sent(arr, k, w) + 1 <= Sent(ar2, k, w) \/ Sent(ar2, k, w) > Limit
<1>1. ASSUME NEW v \in Minutes
      PROVE  /\ arr[k][v] \in Nat /\ ar2[k][v] \in Nat /\ arr[k][v] <= ar2[k][v]
             /\ k = k0 /\ v = m => arr[k][v] + 1 <= ar2[k][v] \/ ar2[k][v] > Limit
  <2>1. arr[k][v] \in 0..Top /\ arr[k0] \in [Minutes -> 0..Top]
    BY DEF Counts
  <2>2. CASE k = k0 /\ v = m
    <3>1. ar2[k][v] = Plus1(arr[k][v])
      BY <2>1, <2>2 DEF Counts
    <3>. QED
      BY <2>1, <3>1, Numbers DEF Plus1
  <2>3. CASE ~(k = k0 /\ v = m)
    <3>1. ar2[k][v] = arr[k][v]
      BY <2>1, <2>3 DEF Counts
    <3>. QED
      BY <2>1, <2>3, <3>1, Numbers
  <2>. QED
    BY <2>2, <2>3
<1>2. /\ arr[k][w] \in Nat /\ ar2[k][w] \in Nat /\ arr[k][w] <= ar2[k][w]
      /\ k = k0 /\ w = m => arr[k][w] + 1 <= ar2[k][w] \/ ar2[k][w] > Limit
  BY <1>1
<1>3. m \in Nat /\ w \in Nat /\ Limit \in Nat
  BY Numbers
<1>4. CASE w = 0
  BY <1>2, <1>3, <1>4 DEF Sent
<1>5. CASE w # 0
  <2>1. w - 1 \in Minutes
    BY <1>5, LimitAssumption DEF Minutes
  <2>2. PICK v \in Minutes : v = w - 1
    BY <2>1
  <2>3. /\ arr[k][v] \in Nat /\ ar2[k][v] \in Nat /\ arr[k][v] <= ar2[k][v]
        /\ k = k0 /\ v = m => arr[k][v] + 1 <= ar2[k][v] \/ ar2[k][v] > Limit
    BY <1>1
  <2>4. Sent(arr, k, w) = arr[k][w] + arr[k][v] /\ Sent(ar2, k, w) = ar2[k][w] + ar2[k][v]
    BY <1>5, <2>2 DEF Sent
  <2>5. w = m + 1 => v = m
    BY <1>3, <2>2
  <2>. QED
    BY <1>2, <1>3, <2>3, <2>4, <2>5
<1>. QED
  BY <1>4, <1>5

LEMMA WindowStep == TypeOK /\ Windows /\ [Next]_vars => Windows'
<1>. SUFFICES ASSUME TypeOK, Windows, [Next]_vars PROVE Windows'
  OBVIOUS
<1>0. minute \in Nat /\ inflight \in Flights
  BY Numbers DEF TypeOK, Flights
<1>1. ASSUME NEW r \in Requests, RequestStep(r) PROVE Windows'
  <2>1. PICK q : q = inflight[r]
    OBVIOUS
  <2>. DEFINE Fits(n) == n = Idle \/ n.window = minute \/ (q # Idle /\ n.window = q.window)
  <2>2. PICK q2 : inflight' = [inflight EXCEPT ![r] = q2] /\ minute' = minute /\ Fits(q2)
    <3>1. ASSUME NEW s \in Servers, NEW k \in Keys, Arrive(r, s, k)
          PROVE  \E n : inflight' = [inflight EXCEPT ![r] = n] /\ minute' = minute /\ Fits(n)
      <4>1. PICK n : n = [stage |-> "redis", server |-> s, key |-> k, window |-> minute]
        OBVIOUS
      <4>2. inflight' = [inflight EXCEPT ![r] = n] /\ minute' = minute
        BY <3>1, <4>1 DEF Arrive, Goto
      <4>3. n.window = minute
        BY <4>1
      <4>. QED
        BY <4>2, <4>3
    <3>2. ASSUME q \in Request PROVE q # Idle /\ [q EXCEPT !.stage = "local"].window = q.window
      BY <3>2 DEF Request, Idle
    <3>3. q.stage = "redis" => q \in Request
      BY <1>0, <2>1, RequestFields DEF Flights
    <3>4. ASSUME CountInRedis(r)
          PROVE  \E n : inflight' = [inflight EXCEPT ![r] = n] /\ minute' = minute /\ Fits(n)
      <4>1. PICK c : c = redis'[q.key][q.window]
        OBVIOUS
      <4>2. PICK n : n = [stage |-> "verdict", server |-> q.server, key |-> q.key,
                          window |-> q.window, count |-> c]
        OBVIOUS
      <4>3. PICK m : m = [q EXCEPT !.stage = "local"]
        OBVIOUS
      <4>4. /\ q.stage = "redis" /\ minute' = minute
            /\ \/ inflight' = [inflight EXCEPT ![r] = n]
               \/ inflight' = [inflight EXCEPT ![r] = m]
        BY <2>1, <3>4, <4>1, <4>2, <4>3 DEF CountInRedis, Goto
      <4>5. Fits(n) /\ Fits(m)
        BY <3>2, <3>3, <4>2, <4>3, <4>4
      <4>. QED
        BY <4>4, <4>5
    <3>5. ASSUME RedisFails(r)
          PROVE  \E n : inflight' = [inflight EXCEPT ![r] = n] /\ minute' = minute /\ Fits(n)
      <4>1. PICK m : m = [q EXCEPT !.stage = "local"]
        OBVIOUS
      <4>2. q.stage = "redis" /\ minute' = minute /\ inflight' = [inflight EXCEPT ![r] = m]
        BY <2>1, <3>5, <4>1 DEF RedisFails, Goto
      <4>. QED
        BY <3>2, <3>3, <4>1, <4>2
    <3>6. ASSUME CountLocally(r)
          PROVE  \E n : inflight' = [inflight EXCEPT ![r] = n] /\ minute' = minute /\ Fits(n)
      <4>1. PICK c : c = Filled(q.server, q.key).count
        OBVIOUS
      <4>2. PICK n : n = [stage |-> "verdict", server |-> q.server, key |-> q.key,
                          window |-> minute, count |-> c]
        OBVIOUS
      <4>3. minute' = minute /\ inflight' = [inflight EXCEPT ![r] = n]
        BY <2>1, <3>6, <4>1, <4>2 DEF CountLocally, Goto
      <4>4. n.window = minute
        BY <4>2
      <4>5. Fits(n)
        BY <4>4
      <4>. QED
        BY <4>3, <4>5
    <3>7. ASSUME Decide(r)
          PROVE  \E n : inflight' = [inflight EXCEPT ![r] = n] /\ minute' = minute /\ Fits(n)
      BY <3>7 DEF Decide, Goto
    <3>. QED
      BY <1>1, <3>1, <3>4, <3>5, <3>6, <3>7 DEF RequestStep
  <2>3. \A t \in Requests : inflight'[t] = IF t = r THEN q2 ELSE inflight[t]
    BY <1>0, <2>2 DEF Flights
  <2>. QED
    BY <2>1, <2>2, <2>3 DEF Windows
<1>2. ASSUME NEW s \in Servers, Restart(s) PROVE Windows'
  BY <1>2 DEF Restart, Windows
<1>3. CASE Tick
  BY <1>0, <1>3 DEF Tick, history, Windows
<1>4. CASE UNCHANGED vars
  BY <1>4 DEF vars, Windows
<1>. QED
  BY <1>1, <1>2, <1>3, <1>4 DEF Next

LEMMA TypeFacts ==
    TypeOK => /\ redis \in Counts /\ arrived \in Counts /\ inflight \in Flights
              /\ minute \in Minutes /\ minute \in Nat
              /\ \A s \in Servers : \A k \in DOMAIN local[s] :
                     k \in Keys /\ local[s][k] \in Bucket
<1>1. TypeOK => \A s \in Servers : \A k \in DOMAIN local[s] : k \in Keys /\ local[s][k] \in Bucket
  BY DEF TypeOK, Tracked
<1>2. TypeOK => minute \in Nat
  BY Numbers DEF TypeOK
<1>. QED
  BY <1>1, <1>2 DEF TypeOK, Counts, Flights

LEMMA CauseArrive ==
    ASSUME CauseInv, NEW r \in Requests, NEW s \in Servers, NEW k0 \in Keys, Arrive(r, s, k0),
           TypeOK'
    PROVE  /\ RedisCause(redis, inflight, arrived)' /\ PendCause(inflight, arrived)'
           /\ LocalCause(local, inflight, arrived)' /\ Refusals(inflight, arrived)'
<1>. DEFINE q2 == [stage |-> "redis", server |-> s, key |-> k0, window |-> minute]
<1>0. PICK fl, gl, arr, ar2 :
          fl = inflight /\ gl = inflight' /\ arr = arrived /\ ar2 = arrived'
  OBVIOUS
<1>1. /\ redis \in Counts /\ arr \in Counts /\ ar2 \in Counts
      /\ fl \in Flights /\ gl \in Flights /\ minute \in Minutes /\ minute \in Nat
  BY <1>0, TypeFacts DEF CauseInv, TypeOK, Counts, Flights
<1>2. /\ gl = [fl EXCEPT ![r] = q2] /\ fl[r] = Idle
      /\ redis' = redis /\ local' = local
      /\ ar2 = [arr EXCEPT ![k0][minute] = Plus1(arr[k0][minute])]
  BY <1>0 DEF Arrive, Goto
<1>3. \A t \in Requests : gl[t] = IF t = r THEN q2 ELSE fl[t]
  BY <1>1, <1>2 DEF Flights
<1>4. ASSUME NEW k \in Keys, NEW w \in Minutes
      PROVE  /\ arr[k][w] \in Nat /\ ar2[k][w] \in Nat
             /\ Sent(arr, k, w) \in Nat /\ Sent(ar2, k, w) \in Nat
             /\ arr[k][w] <= ar2[k][w] /\ Sent(arr, k, w) <= Sent(ar2, k, w)
             /\ k = k0 /\ w = minute => arr[k][w] + 1 <= ar2[k][w] \/ ar2[k][w] > Limit
             /\ k = k0 /\ (w = minute \/ w = minute + 1) =>
                    Sent(arr, k, w) + 1 <= Sent(ar2, k, w) \/ Sent(ar2, k, w) > Limit
  BY <1>1, <1>2, OneMoreSent
<1>5. ASSUME NEW k \in Keys, NEW w \in Minutes
      PROVE  /\ Cardinality(Pend(fl, k, w)) \in Nat /\ Cardinality(Pend(gl, k, w)) \in Nat
             /\ \/ Cardinality(Pend(gl, k, w)) <= Cardinality(Pend(fl, k, w))
                \/ /\ Cardinality(Pend(gl, k, w)) <= Cardinality(Pend(fl, k, w)) + 1
                   /\ k = k0 /\ (w = minute \/ w = minute + 1)
  <2>1. CASE CanCount(q2, k, w)
    <3>1. k = k0 /\ (w = minute \/ w = minute + 1)
      BY <2>1 DEF CanCount
    <3>2. Pend(gl, k, w) \subseteq Pend(fl, k, w) \cup {r}
      BY <1>3 DEF Pend
    <3>. QED
      BY <3>1, <3>2, FlightSets, AddedCard
  <2>2. CASE ~CanCount(q2, k, w)
    <3>1. Pend(gl, k, w) \subseteq Pend(fl, k, w)
      BY <1>3, <2>2 DEF Pend
    <3>. QED
      BY <3>1, FlightSets, SubsetCard
  <2>. QED
    BY <2>1, <2>2
<1>6. ASSUME NEW k \in Keys, NEW w \in Minutes
      PROVE  /\ Cardinality(AtRedis(fl, k, w)) \in Nat /\ Cardinality(AtRedis(gl, k, w)) \in Nat
             /\ \/ Cardinality(AtRedis(gl, k, w)) <= Cardinality(AtRedis(fl, k, w))
                \/ /\ Cardinality(AtRedis(gl, k, w)) <= Cardinality(AtRedis(fl, k, w)) + 1
                   /\ k = k0 /\ w = minute
  <2>1. CASE AsksRedis(q2, k, w)
    <3>1. k = k0 /\ w = minute
      BY <2>1 DEF AsksRedis
    <3>2. AtRedis(gl, k, w) \subseteq AtRedis(fl, k, w) \cup {r}
      BY <1>3 DEF AtRedis
    <3>. QED
      BY <3>1, <3>2, FlightSets, AddedCard
  <2>2. CASE ~AsksRedis(q2, k, w)
    <3>1. AtRedis(gl, k, w) \subseteq AtRedis(fl, k, w)
      BY <1>3, <2>2 DEF AtRedis
    <3>. QED
      BY <3>1, FlightSets, SubsetCard
  <2>. QED
    BY <2>1, <2>2
<1>7. RedisCause(redis, gl, ar2)
  <2>1. ASSUME NEW k \in Keys, NEW w \in Minutes
        PROVE  Caused(redis[k][w] + Cardinality(AtRedis(gl, k, w)), ar2[k][w])
    <3>1. Caused(redis[k][w] + Cardinality(AtRedis(fl, k, w)), arr[k][w])
      BY <1>0 DEF CauseInv, RedisCause
    <3>2. redis[k][w] \in Nat
      BY <1>1, SentNumber
    <3>. QED
      BY <1>4, <1>6, <3>1, <3>2, Numbers DEF Caused
  <2>. QED
    BY <2>1 DEF RedisCause
<1>8. PendCause(gl, ar2)
  <2>1. ASSUME NEW k \in Keys, NEW w \in Minutes
        PROVE  Caused(Cardinality(Pend(gl, k, w)), Sent(ar2, k, w))
    <3>1. Caused(Cardinality(Pend(fl, k, w)), Sent(arr, k, w))
      BY <1>0 DEF CauseInv, PendCause
    <3>. QED
      BY <1>4, <1>5, <3>1, Numbers DEF Caused
  <2>. QED
    BY <2>1 DEF PendCause
<1>9. LocalCause(local, gl, ar2)
  <2>1. ASSUME NEW t \in Servers, NEW k \in DOMAIN local[t]
        PROVE  Caused(local[t][k].count + Cardinality(Pend(gl, k, local[t][k].window)),
                      Sent(ar2, k, local[t][k].window))
    <3>1. PICK n, w : n = local[t][k].count /\ w = local[t][k].window
      OBVIOUS
    <3>2. k \in Keys /\ w \in Minutes /\ n \in Nat
      BY <3>1, TypeFacts, Numbers DEF CauseInv, Bucket
    <3>3. Caused(n + Cardinality(Pend(fl, k, w)), Sent(arr, k, w))
      BY <1>0, <3>1 DEF CauseInv, LocalCause
    <3>4. Caused(n + Cardinality(Pend(gl, k, w)), Sent(ar2, k, w))
      BY <1>4, <1>5, <3>2, <3>3, Numbers DEF Caused
    <3>. QED
      BY <3>1, <3>4
  <2>. QED
    BY <2>1 DEF LocalCause
<1>10. Refusals(gl, ar2)
  <2>1. ASSUME NEW t \in Requests, gl[t].stage = "verdict", gl[t].count > Limit
        PROVE  Sent(ar2, gl[t].key, gl[t].window) > Limit
    <3>1. t # r /\ gl[t] = fl[t]
      BY <1>3, <2>1
    <3>2. Sent(arr, fl[t].key, fl[t].window) > Limit
      BY <1>0, <2>1, <3>1 DEF CauseInv, Refusals
    <3>3. PICK k, w : k = fl[t].key /\ w = fl[t].window
      OBVIOUS
    <3>4. k \in Keys /\ w \in Minutes
      BY <1>1, <2>1, <3>1, <3>3, RequestFields DEF Flights, Verdict
    <3>5. Sent(ar2, k, w) > Limit
      BY <1>4, <3>2, <3>3, <3>4, Numbers
    <3>. QED
      BY <3>1, <3>3, <3>5
  <2>. QED
    BY <2>1 DEF Refusals
<1>. QED
  BY <1>0, <1>2, <1>7, <1>8, <1>9, <1>10

\* An answer of Redis, or the lack of one: the request leaves the stage "redis".
LEMMA CauseRedis ==
    ASSUME CauseInv, NEW r \in Requests, CountInRedis(r), TypeOK'
    PROVE  /\ RedisCause(redis, inflight, arrived)' /\ PendCause(inflight, arrived)'
           /\ LocalCause(local, inflight, arrived)' /\ Refusals(inflight, arrived)'
<1>0. PICK fl, gl, arr, rd, rd2, q, n :
          /\ fl = inflight /\ gl = inflight' /\ arr = arrived
          /\ rd = redis /\ rd2 = redis' /\ q = inflight[r]
          /\ n = redis'[inflight[r].key][inflight[r].window]
  OBVIOUS
<1>1. /\ rd \in Counts /\ rd2 \in Counts /\ arr \in Counts /\ fl \in Flights /\ gl \in Flights
      /\ \A s \in Servers : \A k \in DOMAIN local[s] : k \in Keys /\ local[s][k] \in Bucket
  BY <1>0, TypeFacts DEF CauseInv, TypeOK, Counts, Flights
<1>2. /\ q.stage = "redis" /\ q \in Request /\ q.key \in Keys /\ q.window \in Minutes
      /\ fl[r] = q
  BY <1>0, <1>1, RequestFields DEF CountInRedis, Flights, Request
<1>3. PICK ver, loc :
          /\ ver = [stage |-> "verdict", server |-> q.server, key |-> q.key,
                    window |-> q.window, count |-> n]
          /\ loc = [q EXCEPT !.stage = "local"]
  OBVIOUS
<1>4. /\ rd2 = [rd EXCEPT ![q.key][q.window] = Plus1(rd[q.key][q.window])]
      /\ gl = [fl EXCEPT ![r] = ver] \/ gl = [fl EXCEPT ![r] = loc]
      /\ arrived' = arr /\ local' = local
  BY <1>0, <1>3 DEF CountInRedis, Counted, Goto, history
<1>5. loc.stage = "local" /\ loc.key = q.key /\ loc.window = q.window /\ ver.stage = "verdict"
      /\ ver.key = q.key /\ ver.window = q.window /\ ver.count = n
  BY <1>2, <1>3 DEF Request
<1>6. \A t \in Requests : IF t = r THEN gl[t] = ver \/ gl[t] = loc ELSE gl[t] = fl[t]
  BY <1>1, <1>4 DEF Flights
<1>7. \A t \in Requests, k \in Keys, w \in Minutes : CanCount(gl[t], k, w) => CanCount(fl[t], k, w)
  BY <1>2, <1>5, <1>6 DEF CanCount
<1>8. PendCause(gl, arr) /\ LocalCause(local, gl, arr)
  <2>1. PendCause(fl, arr) /\ LocalCause(local, fl, arr)
    BY <1>0 DEF CauseInv
  <2>2. PendCause(gl, arr)
    BY <1>1, <1>7, <2>1, QuietPend
  <2>3. LocalCause(local, gl, arr)
    BY <1>1, <1>7, <2>1, QuietLocal
  <2>. QED
    BY <2>2, <2>3
<1>9. ASSUME NEW k \in Keys, NEW w \in Minutes
      PROVE  Caused(rd2[k][w] + Cardinality(AtRedis(gl, k, w)), arr[k][w])
  <2>1. /\ Caused(rd[k][w] + Cardinality(AtRedis(fl, k, w)), arr[k][w])
        /\ rd[k][w] \in Nat /\ arr[k][w] \in Nat /\ rd[k][w] \in 0..Top
        /\ rd[q.key][q.window] \in 0..Top
    BY <1>0, <1>1, <1>2, SentNumber DEF CauseInv, RedisCause, Counts
  <2>2. CASE k = q.key /\ w = q.window
    <3>1. r \in AtRedis(fl, k, w) /\ AtRedis(gl, k, w) \subseteq AtRedis(fl, k, w) \ {r}
      BY <1>2, <1>5, <1>6, <2>2 DEF AtRedis, AsksRedis
    <3>2. /\ Cardinality(AtRedis(gl, k, w)) \in Nat /\ Cardinality(AtRedis(fl, k, w)) \in Nat
          /\ Cardinality(AtRedis(gl, k, w)) + 1 <= Cardinality(AtRedis(fl, k, w))
      BY <3>1, FlightSets, RemovedCard
    <3>3. rd2[k][w] = Plus1(rd[k][w])
      BY <1>1, <1>4, <2>2 DEF Counts
    <3>4. rd2[k][w] \in Nat /\ rd2[k][w] <= rd[k][w] + 1
      BY <2>1, <3>3, Numbers DEF Plus1
    <3>. QED
      BY <2>1, <3>2, <3>4, Numbers DEF Caused
  <2>3. CASE ~(k = q.key /\ w = q.window)
    <3>1. AtRedis(gl, k, w) \subseteq AtRedis(fl, k, w)
      BY <1>2, <1>5, <1>6 DEF AtRedis, AsksRedis
    <3>2. /\ Cardinality(AtRedis(gl, k, w)) \in Nat /\ Cardinality(AtRedis(fl, k, w)) \in Nat
          /\ Cardinality(AtRedis(gl, k, w)) <= Cardinality(AtRedis(fl, k, w))
      BY <3>1, FlightSets, SubsetCard
    <3>3. rd2[k][w] = rd[k][w]
      BY <1>1, <1>4, <2>3 DEF Counts
    <3>. QED
      BY <2>1, <3>2, <3>3, Numbers DEF Caused
  <2>. QED
    BY <2>2, <2>3
<1>10. RedisCause(rd2, gl, arr)
  BY <1>9 DEF RedisCause
<1>11. ASSUME n > Limit PROVE Sent(arr, q.key, q.window) > Limit
  <2>1. Caused(n + Cardinality(AtRedis(gl, q.key, q.window)), arr[q.key][q.window])
    BY <1>0, <1>2, <1>9
  <2>2. n \in Nat
    BY <1>0, <1>1, <1>2, SentNumber
  <2>3. Cardinality(AtRedis(gl, q.key, q.window)) \in Nat
    BY FlightSets
  <2>4. /\ arr[q.key][q.window] \in Nat /\ Sent(arr, q.key, q.window) \in Nat
        /\ arr[q.key][q.window] <= Sent(arr, q.key, q.window)
    BY <1>1, <1>2, SentNumber
  <2>. QED
    BY <1>11, <2>1, <2>2, <2>3, <2>4, Numbers DEF Caused
<1>12. Refusals(gl, arr)
  <2>1. ASSUME NEW t \in Requests, gl[t].stage = "verdict", gl[t].count > Limit
        PROVE  Sent(arr, gl[t].key, gl[t].window) > Limit
    <3>1. CASE t = r
      BY <1>5, <1>6, <1>11, <2>1, <3>1
    <3>2. CASE t # r
      BY <1>0, <1>6, <2>1, <3>2 DEF CauseInv, Refusals
    <3>. QED
      BY <3>1, <3>2
  <2>. QED
    BY <2>1 DEF Refusals
<1>. QED
  BY <1>0, <1>4, <1>8, <1>10, <1>12

\* The bucket that a request is counted in, in a map whose counts have causes.
LEMMA FilledBucket ==
    ASSUME TypeOK, NEW s \in Servers, NEW k
    PROVE  /\ Filled(s, k).window = minute
           /\ \/ /\ Filled(s, k).count = 1
                 /\ ~(k \in DOMAIN local[s] /\ local[s][k].window = minute)
              \/ /\ k \in DOMAIN local[s] /\ local[s][k].window = minute
                 /\ local[s][k].count \in 1..Top
                 /\ Filled(s, k).count = Plus1(local[s][k].count)
<1>1. Kept(s) \subseteq DOMAIN local[s]
  BY DEF Kept, Tracked
<1>2. \A j \in DOMAIN local[s] : local[s][j].count \in 1..Top
  BY TypeFacts DEF Bucket
<1>3. k \in DOMAIN local[s] /\ local[s][k].window = minute => k \in Kept(s)
  BY TypeFacts DEF Kept, Tracked
<1>4. CASE k \in Kept(s) /\ local[s][k].window = minute
  BY <1>1, <1>2, <1>4 DEF Filled
<1>5. CASE ~(k \in Kept(s) /\ local[s][k].window = minute)
  BY <1>3, <1>5 DEF Filled
<1>. QED
  BY <1>4, <1>5

LEMMA CauseLocal ==
    ASSUME CauseInv, NEW r \in Requests, CountLocally(r), TypeOK'
    PROVE  /\ RedisCause(redis, inflight, arrived)' /\ PendCause(inflight, arrived)'
           /\ LocalCause(local, inflight, arrived)' /\ Refusals(inflight, arrived)'
<1>0. PICK fl, gl, arr, m, s0, k0, v, q, b :
          /\ fl = inflight /\ gl = inflight' /\ arr = arrived /\ m = minute /\ q = inflight[r]
          /\ s0 = inflight[r].server /\ k0 = inflight[r].key /\ v = inflight[r].window
          /\ b = Filled(s0, k0)
  OBVIOUS
<1>1. /\ redis \in Counts /\ arr \in Counts /\ fl \in Flights /\ gl \in Flights
      /\ \A s \in Servers : \A k \in DOMAIN local[s] : k \in Keys /\ local[s][k] \in Bucket
      /\ m \in Minutes /\ m \in Nat
  BY <1>0, TypeFacts DEF CauseInv, TypeOK, Counts, Flights
<1>2. q.stage = "local" /\ q \in Request
  BY <1>0, <1>1, RequestFields DEF CountLocally, Flights
<1>3. s0 \in Servers /\ k0 \in Keys /\ v \in Minutes /\ q.key = k0 /\ q.window = v
  BY <1>0, <1>2 DEF Request
<1>4. PICK map, ver :
          /\ map = [j \in Kept(s0) \cup {k0} |-> IF j = k0 THEN Filled(s0, j) ELSE local[s0][j]]
          /\ ver = [stage |-> "verdict", server |-> s0, key |-> k0, window |-> m,
                    count |-> Filled(s0, k0).count]
  OBVIOUS
<1>5. /\ local' = [local EXCEPT ![s0] = map] /\ gl = [fl EXCEPT ![r] = ver]
      /\ redis' = redis /\ arrived' = arr
  BY <1>0, <1>4 DEF CountLocally, Goto, history
<1>6. /\ ver.stage = "verdict" /\ ver.key = k0 /\ ver.window = m /\ ver.count = b.count
      /\ map[k0] = b /\ DOMAIN map = Kept(s0) \cup {k0}
      /\ \A j \in Kept(s0) : j # k0 => map[j] = local[s0][j]
  BY <1>0, <1>4
<1>7. \A t \in Requests : gl[t] = IF t = r THEN ver ELSE fl[t]
  BY <1>1, <1>5 DEF Flights
<1>8. /\ \A t \in Requests, k \in Keys, w \in Minutes : CanCount(gl[t], k, w) => CanCount(fl[t], k, w)
      /\ \A t \in Requests, k \in Keys, w \in Minutes : AsksRedis(gl[t], k, w) => AsksRedis(fl[t], k, w)
  BY <1>6, <1>7 DEF CanCount, AsksRedis
<1>9. /\ RedisCause(redis, fl, arr) /\ PendCause(fl, arr)
      /\ LocalCause(local, fl, arr) /\ Refusals(fl, arr)
  BY <1>0 DEF CauseInv
<1>10. PendCause(gl, arr)
  BY <1>1, <1>8, <1>9, QuietPend
<1>11. RedisCause(redis, gl, arr)
  <2>1. ASSUME NEW k \in Keys, NEW w \in Minutes PROVE redis[k][w] <= redis[k][w]
    <3>1. redis[k][w] \in Nat
      BY <1>1, SentNumber
    <3>. QED
      BY <3>1
  <2>. QED
    BY <1>1, <1>8, <1>9, <2>1, QuietRedis
<1>12. /\ Cardinality(Pend(gl, k0, m)) \in Nat /\ Cardinality(Pend(fl, k0, m)) \in Nat
       /\ Cardinality(Pend(gl, k0, m)) + 1 <= Cardinality(Pend(fl, k0, m))
  <2>1. v = m \/ v + 1 = m
    BY <1>0, <1>2 DEF CauseInv, Windows, Request, Idle
  <2>2. r \in Pend(fl, k0, m)
    BY <1>0, <1>2, <1>3, <2>1 DEF Pend, CanCount
  <2>3. Pend(gl, k0, m) \subseteq Pend(fl, k0, m) \ {r}
    BY <1>6, <1>7 DEF Pend, CanCount
  <2>. QED
    BY <2>2, <2>3, FlightSets, RemovedCard
<1>13. b.window = m /\ b.count \in Nat /\ Caused(b.count + Cardinality(Pend(gl, k0, m)), Sent(arr, k0, m))
  <2>1. /\ b.window = m
        /\ \/ b.count = 1
           \/ /\ k0 \in DOMAIN local[s0] /\ local[s0][k0].window = m
              /\ local[s0][k0].count \in 1..Top
              /\ b.count = Plus1(local[s0][k0].count)
    BY <1>0, <1>3, FilledBucket DEF CauseInv
  <2>2. Sent(arr, k0, m) \in Nat
    BY <1>1, <1>3, SentNumber
  <2>3. CASE b.count = 1
    <3>1. Caused(Cardinality(Pend(fl, k0, m)), Sent(arr, k0, m))
      BY <1>1, <1>3, <1>9 DEF PendCause
    <3>2. Caused(1 + Cardinality(Pend(gl, k0, m)), Sent(arr, k0, m))
      BY <1>12, <2>2, <3>1, Numbers DEF Caused
    <3>. QED
      BY <2>1, <2>3, <3>2
  <2>4. CASE /\ k0 \in DOMAIN local[s0] /\ local[s0][k0].window = m
             /\ local[s0][k0].count \in 1..Top
             /\ b.count = Plus1(local[s0][k0].count)
    <3>1. Caused(local[s0][k0].count + Cardinality(Pend(fl, k0, m)), Sent(arr, k0, m))
      BY <1>3, <1>9, <2>4 DEF LocalCause
    <3>2. PICK n, n2 : n = local[s0][k0].count /\ n2 = b.count
      OBVIOUS
    <3>3. n \in Nat /\ n2 \in Nat /\ n2 <= n + 1
      BY <2>4, <3>2, Numbers DEF Plus1
    <3>4. Caused(n2 + Cardinality(Pend(gl, k0, m)), Sent(arr, k0, m))
      BY <1>12, <2>2, <3>1, <3>2, <3>3, Numbers DEF Caused
    <3>. QED
      BY <2>1, <3>2, <3>3, <3>4
  <2>. QED
    BY <2>1, <2>3, <2>4
<1>14. LocalCause(local', gl, arr)
  <2>1. ASSUME NEW s \in Servers, NEW k \in DOMAIN local'[s]
        PROVE  Caused(local'[s][k].count + Cardinality(Pend(gl, k, local'[s][k].window)),
                      Sent(arr, k, local'[s][k].window))
    <3>1. CASE s = s0 /\ k = k0
      <4>1. local'[s][k] = b
        BY <1>3, <1>5, <1>6, <3>1 DEF CauseInv, MapInv
      <4>. QED
        BY <1>13, <3>1, <4>1
    <3>2. CASE ~(s = s0 /\ k = k0)
      <4>1. k \in DOMAIN local[s] /\ local'[s][k] = local[s][k]
        <5>1. CASE s = s0
          <6>1. local'[s] = map
            BY <1>3, <1>5, <5>1 DEF CauseInv, MapInv
          <6>2. k \in Kept(s0) /\ k # k0
            BY <1>6, <2>1, <3>2, <5>1, <6>1
          <6>3. Kept(s0) \subseteq DOMAIN local[s0]
            BY DEF Kept, Tracked
          <6>. QED
            BY <1>6, <5>1, <6>1, <6>2, <6>3
        <5>2. CASE s # s0
          BY <1>5, <2>1, <5>2 DEF CauseInv, MapInv
        <5>. QED
          BY <5>1, <5>2
      <4>2. PICK n, w : n = local[s][k].count /\ w = local[s][k].window
        OBVIOUS
      <4>3. k \in Keys /\ w \in Minutes /\ n \in Nat
        BY <1>1, <4>1, <4>2, Numbers DEF Bucket
      <4>4. Caused(n + Cardinality(Pend(fl, k, w)), Sent(arr, k, w))
        BY <1>9, <4>1, <4>2 DEF LocalCause
      <4>5. /\ Cardinality(Pend(gl, k, w)) \in Nat /\ Cardinality(Pend(fl, k, w)) \in Nat
            /\ Cardinality(Pend(gl, k, w)) <= Cardinality(Pend(fl, k, w))
        BY <1>8, <4>3, QuietPending
      <4>6. Caused(n + Cardinality(Pend(gl, k, w)), Sent(arr, k, w))
        BY <1>1, <4>3, <4>4, <4>5, SentNumber, Numbers DEF Caused
      <4>. QED
        BY <4>1, <4>2, <4>6
    <3>. QED
      BY <3>1, <3>2
  <2>. QED
    BY <2>1 DEF LocalCause
<1>15. Refusals(gl, arr)
  <2>1. ASSUME NEW t \in Requests, gl[t].stage = "verdict", gl[t].count > Limit
        PROVE  Sent(arr, gl[t].key, gl[t].window) > Limit
    <3>1. CASE t = r
      <4>1. gl[t].key = k0 /\ gl[t].window = m /\ b.count > Limit
        BY <1>6, <1>7, <2>1, <3>1
      <4>2. Sent(arr, k0, m) \in Nat
        BY <1>1, <1>3, SentNumber
      <4>3. PICK n : n = b.count
        OBVIOUS
      <4>4. Sent(arr, k0, m) > Limit
        BY <1>12, <1>13, <4>1, <4>2, <4>3, Numbers DEF Caused
      <4>. QED
        BY <4>1, <4>4
    <3>2. CASE t # r
      BY <1>7, <1>9, <2>1, <3>2 DEF Refusals
    <3>. QED
      BY <3>1, <3>2
  <2>. QED
    BY <2>1 DEF Refusals
<1>. QED
  BY <1>0, <1>5, <1>10, <1>11, <1>14, <1>15

\* The other steps count nothing.
LEMMA CauseOther ==
    ASSUME CauseInv, TypeOK', arrived' = arrived,
           \A k \in Keys, w \in Minutes : redis'[k][w] <= redis[k][w],
           \A s \in Servers : \A k \in DOMAIN local'[s] :
               k \in DOMAIN local[s] /\ local'[s][k] = local[s][k],
           \A r \in Requests :
               \/ inflight'[r] = inflight[r] \/ inflight'[r] = Idle
               \/ /\ inflight[r].stage = "redis" /\ inflight'[r].stage = "local"
                  /\ inflight'[r].key = inflight[r].key
                  /\ inflight'[r].window = inflight[r].window
    PROVE  /\ RedisCause(redis, inflight, arrived)' /\ PendCause(inflight, arrived)'
           /\ LocalCause(local, inflight, arrived)' /\ Refusals(inflight, arrived)'
<1>0. PICK fl, gl, arr, lo, lo2, rd, rd2 :
          /\ fl = inflight /\ gl = inflight' /\ arr = arrived /\ lo = local /\ lo2 = local'
          /\ rd = redis /\ rd2 = redis'
  OBVIOUS
<1>1. /\ rd \in Counts /\ rd2 \in Counts /\ arr \in Counts
      /\ \A s \in Servers : \A k \in DOMAIN lo[s] : k \in Keys /\ lo[s][k] \in Bucket
  BY <1>0, TypeFacts DEF CauseInv, TypeOK, Counts
<1>2. /\ \A k \in Keys, w \in Minutes : rd2[k][w] <= rd[k][w]
      /\ \A s \in Servers : \A k \in DOMAIN lo2[s] :
             k \in DOMAIN lo[s] /\ lo2[s][k] = lo[s][k]
  BY <1>0
<1>3. \A r \in Requests :
          \/ gl[r] = fl[r] \/ gl[r] = Idle
          \/ /\ fl[r].stage = "redis" /\ gl[r].stage = "local"
             /\ gl[r].key = fl[r].key /\ gl[r].window = fl[r].window
  BY <1>0
<1>4. Idle.stage = "idle"
  BY DEF Idle
<1>5. /\ \A t \in Requests, k \in Keys, w \in Minutes : CanCount(gl[t], k, w) => CanCount(fl[t], k, w)
      /\ \A t \in Requests, k \in Keys, w \in Minutes : AsksRedis(gl[t], k, w) => AsksRedis(fl[t], k, w)
  BY <1>3, <1>4 DEF CanCount, AsksRedis
<1>6. /\ RedisCause(rd, fl, arr) /\ PendCause(fl, arr)
      /\ LocalCause(lo, fl, arr) /\ Refusals(fl, arr)
  BY <1>0 DEF CauseInv
<1>7. PendCause(gl, arr)
  BY <1>1, <1>5, <1>6, QuietPend
<1>8. LocalCause(lo2, gl, arr)
  BY <1>1, <1>2, <1>5, <1>6, QuietLocal
<1>9. RedisCause(rd2, gl, arr)
  BY <1>1, <1>2, <1>5, <1>6, QuietRedis
<1>10. Refusals(gl, arr)
  BY <1>3, <1>4, <1>6 DEF Refusals
<1>. QED
  BY <1>0, <1>7, <1>8, <1>9, <1>10

LEMMA CauseInit == Init => CauseInv
<1>. SUFFICES ASSUME Init PROVE CauseInv
  OBVIOUS
<1>1. /\ \A r \in Requests : inflight[r] = Idle
      /\ \A k \in Keys, w \in Minutes : redis[k][w] = 0 /\ arrived[k][w] = 0
      /\ \A s \in Servers : DOMAIN local[s] = {}
  BY DEF Init
<1>2. Idle.stage = "idle"
  BY DEF Idle
<1>3. ASSUME NEW k, NEW w PROVE Pend(inflight, k, w) = {} /\ AtRedis(inflight, k, w) = {}
  BY <1>1, <1>2 DEF Pend, AtRedis, CanCount, AsksRedis
<1>4. Cardinality({}) = 0
  BY FS_EmptySet
<1>5. TypeOK /\ MapInv /\ arrived \in Counts
  BY TypeInit, MapInit, TypeFacts
<1>6. RedisCause(redis, inflight, arrived)
  <2>1. ASSUME NEW k \in Keys, NEW w \in Minutes
        PROVE  Caused(redis[k][w] + Cardinality(AtRedis(inflight, k, w)), arrived[k][w])
    <3>1. Cardinality(AtRedis(inflight, k, w)) = 0
      BY <1>3, <1>4
    <3>. QED
      BY <1>1, <3>1 DEF Caused
  <2>. QED
    BY <2>1 DEF RedisCause
<1>7. PendCause(inflight, arrived)
  BY <1>3, <1>4, <1>5, SentNumber DEF PendCause, Caused
<1>8. LocalCause(local, inflight, arrived) /\ Refusals(inflight, arrived) /\ Windows
  BY <1>1, <1>2 DEF LocalCause, Refusals, Windows
<1>. QED
  BY <1>5, <1>6, <1>7, <1>8 DEF CauseInv

LEMMA CauseStep == CauseInv /\ MapBounded /\ [Next]_vars => CauseInv'
<1>. SUFFICES ASSUME CauseInv, MapBounded, [Next]_vars PROVE CauseInv'
  OBVIOUS
<1>. DEFINE Causes == /\ RedisCause(redis, inflight, arrived)' /\ PendCause(inflight, arrived)'
                     /\ LocalCause(local, inflight, arrived)' /\ Refusals(inflight, arrived)'
<1>0. TypeOK /\ MapInv /\ Windows /\ TypeOK' /\ MapInv' /\ Windows'
  BY TypeStep, MapStep, WindowStep DEF CauseInv
<1>. SUFFICES Causes
  BY <1>0 DEF CauseInv
<1>1. ASSUME NEW k \in Keys, NEW w \in Minutes PROVE redis[k][w] \in Nat /\ redis[k][w] <= redis[k][w]
  <2>1. redis[k][w] \in Nat
    BY <1>0, TypeFacts, SentNumber
  <2>. QED
    BY <2>1
<1>2. inflight \in Flights /\ DOMAIN local = Servers /\ redis \in Counts
  BY <1>0, TypeFacts DEF MapInv
<1>3. ASSUME NEW r \in Requests, NEW s \in Servers, NEW k \in Keys, Arrive(r, s, k) PROVE Causes
  BY <1>0, <1>3, CauseArrive
<1>4. ASSUME NEW r \in Requests, CountInRedis(r) PROVE Causes
  BY <1>0, <1>4, CauseRedis
<1>5. ASSUME NEW r \in Requests, CountLocally(r) PROVE Causes
  BY <1>0, <1>5, CauseLocal
<1>6. ASSUME NEW r \in Requests, RedisFails(r) PROVE Causes
  <2>1. PICK q, m : q = inflight[r] /\ m = [q EXCEPT !.stage = "local"]
    OBVIOUS
  <2>2. inflight' = [inflight EXCEPT ![r] = m] /\ q.stage = "redis"
    BY <1>6, <2>1 DEF RedisFails, Goto
  <2>3. q \in Request
    BY <1>2, <2>1, <2>2, RequestFields DEF Flights
  <2>4. m.stage = "local" /\ m.key = q.key /\ m.window = q.window
    BY <2>1, <2>3 DEF Request
  <2>5. \A t \in Requests :
            \/ inflight'[t] = inflight[t] \/ inflight'[t] = Idle
            \/ /\ inflight[t].stage = "redis" /\ inflight'[t].stage = "local"
               /\ inflight'[t].key = inflight[t].key
               /\ inflight'[t].window = inflight[t].window
    BY <1>2, <2>1, <2>2, <2>4 DEF Flights
  <2>6. redis' = redis /\ local' = local /\ arrived' = arrived
    BY <1>6 DEF RedisFails, history
  <2>. QED
    BY <1>0, <1>1, <2>5, <2>6, CauseOther
<1>7. ASSUME NEW r \in Requests, Decide(r) PROVE Causes
  <2>1. \A t \in Requests : inflight'[t] = inflight[t] \/ inflight'[t] = Idle
    BY <1>2, <1>7 DEF Decide, Goto, Flights
  <2>2. redis' = redis /\ local' = local /\ arrived' = arrived
    BY <1>7 DEF Decide
  <2>. QED
    BY <1>0, <1>1, <2>1, <2>2, CauseOther
<1>8. ASSUME NEW s \in Servers, Restart(s) PROVE Causes
  <2>1. \A t \in Requests : inflight'[t] = inflight[t] \/ inflight'[t] = Idle
    BY <1>8 DEF Restart
  <2>2. redis' = redis /\ arrived' = arrived
    BY <1>8 DEF Restart
  <2>3. \A t \in Servers : \A k \in DOMAIN local'[t] :
            k \in DOMAIN local[t] /\ local'[t][k] = local[t][k]
    BY <1>2, <1>8 DEF Restart
  <2>. QED
    BY <1>0, <1>1, <2>1, <2>2, <2>3, CauseOther
<1>9. CASE Tick
  <2>1. inflight' = inflight /\ local' = local /\ arrived' = arrived
    BY <1>9 DEF Tick, history
  <2>2. \A k \in Keys, w \in Minutes : redis'[k][w] = 0 \/ redis'[k][w] = redis[k][w]
    BY <1>9 DEF Tick
  <2>3. ASSUME NEW k \in Keys, NEW w \in Minutes PROVE redis'[k][w] <= redis[k][w]
    BY <1>1, <2>2
  <2>. QED
    BY <1>0, <2>1, <2>3, CauseOther
<1>10. CASE UNCHANGED vars
  <2>1. inflight' = inflight /\ local' = local /\ arrived' = arrived /\ redis' = redis
    BY <1>10 DEF vars
  <2>. QED
    BY <1>0, <1>1, <2>1, CauseOther
<1>. QED
  BY <1>3, <1>4, <1>5, <1>6, <1>7, <1>8, <1>9, <1>10 DEF Next, RequestStep

LEMMA CauseRefuses == CauseInv => RefusedForCause
<1>. SUFFICES ASSUME CauseInv, NEW r \in Requests,
                     inflight[r].stage = "verdict", ~Admits(inflight[r].count)
              PROVE  Sent(arrived, inflight[r].key, inflight[r].window) > Limit
  BY DEF RefusedForCause, Sent
<1>1. inflight[r] \in Verdict
  BY RequestFields, TypeFacts DEF CauseInv, Flights
<1>2. PICK n : n = inflight[r].count
  OBVIOUS
<1>3. n \in Nat
  BY <1>1, <1>2, Numbers DEF Verdict
<1>4. n > Limit
  BY <1>2, <1>3, Numbers DEF Admits
<1>. QED
  BY <1>2, <1>4 DEF CauseInv, Refusals

\* A client that keeps to the limit over any two minutes is never refused by
\* the middleware, for any processes, keys, requests and limit.
THEOREM OnlyRefusedForCause == Spec => []RefusedForCause
<1>1. Init => CauseInv /\ MapBounded
  BY CauseInit, MapInit
<1>2. CauseInv /\ MapBounded /\ [Next]_vars => (CauseInv /\ MapBounded)'
  <2>1. CauseInv => MapInv
    BY DEF CauseInv
  <2>. QED
    BY <2>1, CauseStep, MapStep
<1>. QED
  BY <1>1, <1>2, CauseRefuses, PTL DEF Spec
-----------------------------------------------------------------------------
(* The bound on what is let through                                        *)

\* A request that is to be let through on a counter of k for minute w.
Wins(q, k, w) == q.stage = "verdict" /\ q.key = k /\ q.window = w /\ q.count <= Limit

Winners(fl, k, w) == {r \in Requests : Wins(fl[r], k, w)}

\* The counts of k for minute w that Redis may still answer, and that the
\* processes may still reach, with which a request is let through.
RedisRoom(rd, m, k, w) == {i \in 1..Limit : w + 1 >= m /\ i > rd[k][w]}

LocalRoom(lo, m, k, w) ==
    {p \in Servers \X (1..Limit) :
        /\ w >= m
        /\ k \in DOMAIN lo[p[1]] /\ lo[p[1]][k].window = w => p[2] > lo[p[1]][k].count}

Room(ad, fl, rd, lo, m, k, w) ==
    ad[k][w] + Cardinality(Winners(fl, k, w))
             + Cardinality(RedisRoom(rd, m, k, w)) + Cardinality(LocalRoom(lo, m, k, w))

Allowance(n) == Limit * (1 + n)

WithinAllowance(ad, fl, rd, lo, m, n) ==
    \A k \in Keys, w \in Minutes : Room(ad, fl, rd, lo, m, k, w) <= Allowance(n)

\* What was let through, is to be let through and still may be is within the
\* allowance: Limit for Redis and Limit for each start of a process.
RoomInv ==
    /\ TypeOK /\ MapInv /\ MapBounded /\ Windows
    /\ WithinAllowance(admitted, inflight, redis, local, minute, starts)

LEMMA AllowanceNumbers ==
    ASSUME NEW n \in Nat
    PROVE  /\ Allowance(n) \in Nat /\ Allowance(n + 1) = Allowance(n) + Limit
<1>1. ASSUME NEW a \in Nat, NEW b \in Nat
      PROVE  a * (1 + b) \in Nat /\ a * (1 + (b + 1)) = a * (1 + b) + a
  BY SMT
<1>2. Limit \in Nat
  BY Numbers
<1>. QED
  BY <1>1, <1>2 DEF Allowance

LEMMA RoomSets ==
    ASSUME NEW fl, NEW rd, NEW lo, NEW m, NEW k, NEW w
    PROVE  /\ IsFiniteSet(Winners(fl, k, w)) /\ Cardinality(Winners(fl, k, w)) \in Nat
           /\ IsFiniteSet(RedisRoom(rd, m, k, w)) /\ Cardinality(RedisRoom(rd, m, k, w)) \in Nat
           /\ IsFiniteSet(LocalRoom(lo, m, k, w)) /\ Cardinality(LocalRoom(lo, m, k, w)) \in Nat
<1>1. IsFiniteSet(1..Limit)
  BY Numbers, FS_Interval
<1>2. IsFiniteSet(Servers \X (1..Limit))
  BY <1>1, FS_Product, LimitAssumption
<1>3. Winners(fl, k, w) \subseteq Requests
  BY DEF Winners
<1>4. RedisRoom(rd, m, k, w) \subseteq 1..Limit
  BY DEF RedisRoom
<1>5. LocalRoom(lo, m, k, w) \subseteq Servers \X (1..Limit)
  BY DEF LocalRoom
<1>6. IsFiniteSet(Winners(fl, k, w)) /\ Cardinality(Winners(fl, k, w)) \in Nat
  BY <1>3, SubsetCard, LimitAssumption
<1>7. IsFiniteSet(RedisRoom(rd, m, k, w)) /\ Cardinality(RedisRoom(rd, m, k, w)) \in Nat
  BY <1>1, <1>4, SubsetCard
<1>8. IsFiniteSet(LocalRoom(lo, m, k, w)) /\ Cardinality(LocalRoom(lo, m, k, w)) \in Nat
  BY <1>2, <1>5, SubsetCard
<1>. QED
  BY <1>6, <1>7, <1>8

\* A step that makes no room for k in minute w.
LEMMA RoomShrinks ==
    ASSUME NEW ad, NEW fl, NEW rd, NEW lo, NEW m, NEW ad2, NEW gl, NEW rd2, NEW lo2, NEW m2,
           NEW k, NEW w, NEW a \in Nat,
           ad[k][w] \in Nat, ad2[k][w] = ad[k][w],
           Winners(gl, k, w) \subseteq Winners(fl, k, w),
           RedisRoom(rd2, m2, k, w) \subseteq RedisRoom(rd, m, k, w),
           LocalRoom(lo2, m2, k, w) \subseteq LocalRoom(lo, m, k, w),
           Room(ad, fl, rd, lo, m, k, w) <= a
    PROVE  Room(ad2, gl, rd2, lo2, m2, k, w) <= a
<1>1. /\ Cardinality(Winners(fl, k, w)) \in Nat /\ Cardinality(Winners(gl, k, w)) \in Nat
      /\ Cardinality(Winners(gl, k, w)) <= Cardinality(Winners(fl, k, w))
  BY RoomSets, SubsetCard
<1>2. /\ Cardinality(RedisRoom(rd, m, k, w)) \in Nat /\ Cardinality(RedisRoom(rd2, m2, k, w)) \in Nat
      /\ Cardinality(RedisRoom(rd2, m2, k, w)) <= Cardinality(RedisRoom(rd, m, k, w))
  BY RoomSets, SubsetCard
<1>3. /\ Cardinality(LocalRoom(lo, m, k, w)) \in Nat /\ Cardinality(LocalRoom(lo2, m2, k, w)) \in Nat
      /\ Cardinality(LocalRoom(lo2, m2, k, w)) <= Cardinality(LocalRoom(lo, m, k, w))
  BY RoomSets, SubsetCard
<1>. QED
  BY <1>1, <1>2, <1>3 DEF Room

\* Steps that admit nobody, and leave no more winners, counts to reach, or time.
LEMMA RoomOther ==
    ASSUME RoomInv, TypeOK', admitted' = admitted, starts' = starts,
           \A r \in Requests : inflight'[r] = inflight[r] \/ inflight'[r].stage # "verdict",
           \A k \in Keys, w \in Minutes :
               /\ RedisRoom(redis', minute', k, w) \subseteq RedisRoom(redis, minute, k, w)
               /\ LocalRoom(local', minute', k, w) \subseteq LocalRoom(local, minute, k, w)
    PROVE  WithinAllowance(admitted, inflight, redis, local, minute, starts)'
<1>0. PICK ad, fl, gl, rd, rd2, lo, lo2, m, m2, n :
          /\ ad = admitted /\ fl = inflight /\ gl = inflight' /\ rd = redis /\ rd2 = redis'
          /\ lo = local /\ lo2 = local' /\ m = minute /\ m2 = minute' /\ n = starts
  OBVIOUS
<1>1. ASSUME NEW k \in Keys, NEW w \in Minutes PROVE Room(ad, gl, rd2, lo2, m2, k, w) <= Allowance(n)
  <2>1. Winners(gl, k, w) \subseteq Winners(fl, k, w)
    BY <1>0 DEF Winners, Wins
  <2>2. /\ RedisRoom(rd2, m2, k, w) \subseteq RedisRoom(rd, m, k, w)
        /\ LocalRoom(lo2, m2, k, w) \subseteq LocalRoom(lo, m, k, w)
    BY <1>0
  <2>3. Room(ad, fl, rd, lo, m, k, w) <= Allowance(n)
    BY <1>0 DEF RoomInv, WithinAllowance
  <2>4. ad[k][w] \in Nat /\ n \in Nat
    BY <1>0, TooManyIsNat, StartsNumber DEF RoomInv, TypeOK
  <2>. QED
    BY <2>1, <2>2, <2>3, <2>4, AllowanceNumbers, RoomShrinks
<1>2. WithinAllowance(ad, gl, rd2, lo2, m2, n)
  BY <1>1 DEF WithinAllowance
<1>. QED
  BY <1>0, <1>2

\* A winner takes one of the counts that Redis had left.
LEMMA RoomRedis ==
    ASSUME RoomInv, NEW r \in Requests, CountInRedis(r), TypeOK'
    PROVE  WithinAllowance(admitted, inflight, redis, local, minute, starts)'
<1>0. PICK ad, fl, gl, rd, rd2, lo, m, q, n, st :
          /\ ad = admitted /\ fl = inflight /\ gl = inflight' /\ rd = redis /\ rd2 = redis'
          /\ lo = local /\ m = minute /\ q = inflight[r] /\ st = starts
          /\ n = redis'[inflight[r].key][inflight[r].window]
  OBVIOUS
<1>1. rd \in Counts /\ fl \in Flights /\ gl \in Flights /\ m \in Nat
  BY <1>0, TypeFacts DEF RoomInv, TypeOK, Counts, Flights
<1>2. /\ q.stage = "redis" /\ q \in Request /\ q.key \in Keys /\ q.window \in Minutes
      /\ fl[r] = q /\ q # Idle
  BY <1>0, <1>1, RequestFields DEF CountInRedis, Flights, Request, Idle
<1>3. PICK ver, loc :
          /\ ver = [stage |-> "verdict", server |-> q.server, key |-> q.key,
                    window |-> q.window, count |-> n]
          /\ loc = [q EXCEPT !.stage = "local"]
  OBVIOUS
<1>4. /\ rd2 = [rd EXCEPT ![q.key][q.window] = Plus1(rd[q.key][q.window])]
      /\ gl = [fl EXCEPT ![r] = ver] \/ gl = [fl EXCEPT ![r] = loc]
      /\ local' = lo /\ minute' = m /\ admitted' = ad /\ starts' = st
  BY <1>0, <1>3 DEF CountInRedis, Counted, Goto, history
<1>5. /\ loc.stage = "local"
      /\ ver.key = q.key /\ ver.window = q.window /\ ver.count = n
  BY <1>2, <1>3 DEF Request
<1>6. \A t \in Requests : IF t = r THEN gl[t] = ver \/ gl[t] = loc ELSE gl[t] = fl[t]
  BY <1>1, <1>4 DEF Flights
<1>7. n = Plus1(rd[q.key][q.window]) /\ rd[q.key][q.window] \in 0..Top
  BY <1>0, <1>1, <1>2, <1>4 DEF Counts
<1>8. m = q.window \/ m = q.window + 1
  BY <1>0, <1>2 DEF RoomInv, Windows
<1>9. ASSUME NEW k \in Keys, NEW w \in Minutes PROVE Room(ad, gl, rd2, lo, m, k, w) <= Allowance(st)
  <2>1. rd[k][w] \in Nat /\ rd2[k][w] \in Nat /\ rd[k][w] <= rd2[k][w] /\ w \in Nat
    <3>1. rd[k][w] \in 0..Top
      BY <1>1 DEF Counts
    <3>2. CASE k = q.key /\ w = q.window
      <4>1. rd2[k][w] = Plus1(rd[k][w])
        BY <1>0, <1>7, <3>2
      <4>. QED
        BY <3>1, <4>1, Numbers DEF Plus1
    <3>3. CASE ~(k = q.key /\ w = q.window)
      <4>1. rd2[k][w] = rd[k][w]
        BY <1>1, <1>4, <3>3 DEF Counts
      <4>. QED
        BY <3>1, <4>1, Numbers
    <3>. QED
      BY <3>2, <3>3
  <2>2. RedisRoom(rd2, m, k, w) \subseteq RedisRoom(rd, m, k, w)
    BY <2>1, Numbers DEF RedisRoom
  <2>3. /\ Room(ad, fl, rd, lo, m, k, w) <= Allowance(st)
        /\ ad[k][w] \in Nat /\ st \in Nat
    BY <1>0, TooManyIsNat, StartsNumber DEF RoomInv, WithinAllowance, TypeOK
  <2>4. Allowance(st) \in Nat
    BY <2>3, AllowanceNumbers
  <2>5. CASE k = q.key /\ w = q.window /\ n <= Limit
    <3>1. n \in 1..Limit /\ n > rd[k][w] /\ rd2[k][w] = n /\ w + 1 >= m
      <4>1. PICK c : c = rd[k][w]
        OBVIOUS
      <4>2. n = Plus1(c) /\ c \in 0..Top /\ n <= Limit
        BY <1>7, <2>5, <4>1
      <4>3. n \in 1..Limit /\ n > c
        BY <4>2, Numbers DEF Plus1
      <4>4. rd2[k][w] = n
        BY <1>0, <2>5
      <4>5. w + 1 >= m
        BY <1>1, <1>8, <2>1, <2>5
      <4>. QED
        BY <4>1, <4>3, <4>4, <4>5
    <3>2. n \in RedisRoom(rd, m, k, w)
      BY <3>1 DEF RedisRoom
    <3>3. n \notin RedisRoom(rd2, m, k, w)
      BY <3>1, <2>1 DEF RedisRoom
    <3>4. Winners(gl, k, w) \subseteq Winners(fl, k, w) \cup {r}
      BY <1>6 DEF Winners
    <3>5. /\ Cardinality(RedisRoom(rd, m, k, w)) \in Nat
          /\ Cardinality(RedisRoom(rd2, m, k, w)) \in Nat
          /\ Cardinality(RedisRoom(rd2, m, k, w)) + 1 <= Cardinality(RedisRoom(rd, m, k, w))
          /\ Cardinality(LocalRoom(lo, m, k, w)) \in Nat
      <4>1. RedisRoom(rd2, m, k, w) \subseteq RedisRoom(rd, m, k, w) \ {n}
        BY <2>2, <3>3
      <4>. QED
        BY <3>2, <4>1, RoomSets, RemovedCard
    <3>6. /\ Cardinality(Winners(fl, k, w)) \in Nat /\ Cardinality(Winners(gl, k, w)) \in Nat
          /\ Cardinality(Winners(gl, k, w)) <= Cardinality(Winners(fl, k, w)) + 1
      BY <3>4, RoomSets, AddedCard
    <3>. QED
      BY <2>3, <2>4, <3>5, <3>6 DEF Room
  <2>6. CASE ~(k = q.key /\ w = q.window /\ n <= Limit)
    <3>1. Winners(gl, k, w) \subseteq Winners(fl, k, w)
      BY <1>5, <1>6, <2>6 DEF Winners, Wins
    <3>. QED
      BY <2>2, <2>3, <2>4, <3>1, RoomShrinks
  <2>. QED
    BY <2>5, <2>6
<1>10. WithinAllowance(ad, gl, rd2, lo, m, st)
  BY <1>9 DEF WithinAllowance
<1>. QED
  BY <1>0, <1>4, <1>10

\* An admission takes its winner.
LEMMA RoomDecide ==
    ASSUME RoomInv, NEW r \in Requests, Decide(r), TypeOK'
    PROVE  WithinAllowance(admitted, inflight, redis, local, minute, starts)'
<1>0. PICK ad, ad2, fl, gl, rd, lo, m, q, st :
          /\ ad = admitted /\ ad2 = admitted' /\ fl = inflight /\ gl = inflight' /\ rd = redis
          /\ lo = local /\ m = minute /\ q = inflight[r] /\ st = starts
  OBVIOUS
<1>1. /\ fl \in Flights /\ gl \in Flights /\ ad \in [Keys -> [Minutes -> 0..TooMany]]
      /\ ad2 \in [Keys -> [Minutes -> 0..TooMany]]
  BY <1>0, TypeFacts DEF RoomInv, TypeOK, Flights
<1>2. q.stage = "verdict" /\ q \in Verdict /\ q.key \in Keys /\ q.window \in Minutes /\ fl[r] = q
  BY <1>0, <1>1, RequestFields DEF Decide, Flights, Verdict
<1>3. /\ ad2 = ad \/ (q.count <= Limit /\ ad2 = [ad EXCEPT ![q.key][q.window] = ad[q.key][q.window] + 1])
      /\ gl = [fl EXCEPT ![r] = Idle]
      /\ redis' = rd /\ local' = lo /\ minute' = m /\ starts' = st
  BY <1>0 DEF Decide, Goto, Admits
<1>4. \A t \in Requests : gl[t] = IF t = r THEN Idle ELSE fl[t]
  BY <1>1, <1>3 DEF Flights
<1>5. Idle.stage = "idle"
  BY DEF Idle
<1>6. ASSUME NEW k \in Keys, NEW w \in Minutes PROVE Room(ad2, gl, rd, lo, m, k, w) <= Allowance(st)
  <2>1. Winners(gl, k, w) \subseteq Winners(fl, k, w) /\ r \notin Winners(gl, k, w)
    BY <1>4, <1>5 DEF Winners, Wins
  <2>2. /\ Room(ad, fl, rd, lo, m, k, w) <= Allowance(st)
        /\ st \in Nat
    BY <1>0, StartsNumber DEF RoomInv, WithinAllowance, TypeOK
  <2>3. Allowance(st) \in Nat /\ ad[k][w] \in Nat
    BY <1>1, <2>2, AllowanceNumbers, TooManyIsNat
  <2>4. CASE ad2[k][w] = ad[k][w]
    BY <2>1, <2>2, <2>3, <2>4, RoomShrinks
  <2>5. CASE ad2[k][w] # ad[k][w]
    <3>1. k = q.key /\ w = q.window /\ q.count <= Limit /\ ad2[k][w] = ad[k][w] + 1
      BY <1>1, <1>2, <1>3, <2>5
    <3>2. r \in Winners(fl, k, w)
      BY <1>2, <3>1 DEF Winners, Wins
    <3>3. Winners(gl, k, w) \subseteq Winners(fl, k, w) \ {r}
      BY <2>1
    <3>4. /\ Cardinality(Winners(fl, k, w)) \in Nat /\ Cardinality(Winners(gl, k, w)) \in Nat
          /\ Cardinality(Winners(gl, k, w)) + 1 <= Cardinality(Winners(fl, k, w))
      BY <3>2, <3>3, RoomSets, RemovedCard
    <3>5. Cardinality(RedisRoom(rd, m, k, w)) \in Nat /\ Cardinality(LocalRoom(lo, m, k, w)) \in Nat
      BY RoomSets
    <3>. QED
      BY <2>2, <2>3, <3>1, <3>4, <3>5 DEF Room
  <2>. QED
    BY <2>4, <2>5
<1>7. WithinAllowance(ad2, gl, rd, lo, m, st)
  BY <1>6 DEF WithinAllowance
<1>. QED
  BY <1>0, <1>3, <1>7

\* A winner takes one of the counts that its process had left.
LEMMA RoomLocal ==
    ASSUME RoomInv, NEW r \in Requests, CountLocally(r), TypeOK'
    PROVE  WithinAllowance(admitted, inflight, redis, local, minute, starts)'
<1>0. PICK ad, fl, gl, rd, lo, lo2, m, q, s0, k0, b, st :
          /\ ad = admitted /\ fl = inflight /\ gl = inflight' /\ rd = redis
          /\ lo = local /\ lo2 = local' /\ m = minute /\ q = inflight[r] /\ st = starts
          /\ s0 = inflight[r].server /\ k0 = inflight[r].key /\ b = Filled(s0, k0)
  OBVIOUS
<1>1. fl \in Flights /\ gl \in Flights /\ m \in Minutes /\ m \in Nat
  BY <1>0, TypeFacts DEF RoomInv, TypeOK, Flights
<1>2. q.stage = "local" /\ q \in Request
  BY <1>0, <1>1, RequestFields DEF CountLocally, Flights
<1>3. s0 \in Servers /\ k0 \in Keys
  BY <1>0, <1>2 DEF Request
<1>4. PICK map, ver :
          /\ map = [j \in Kept(s0) \cup {k0} |-> IF j = k0 THEN Filled(s0, j) ELSE local[s0][j]]
          /\ ver = [stage |-> "verdict", server |-> s0, key |-> k0, window |-> m,
                    count |-> Filled(s0, k0).count]
  OBVIOUS
<1>5. /\ lo2 = [lo EXCEPT ![s0] = map] /\ gl = [fl EXCEPT ![r] = ver]
      /\ redis' = rd /\ minute' = m /\ admitted' = ad /\ starts' = st
  BY <1>0, <1>4 DEF CountLocally, Goto, history
<1>6. /\ ver.key = k0 /\ ver.window = m /\ ver.count = b.count
      /\ map[k0] = b /\ k0 \in DOMAIN map
  BY <1>0, <1>4
<1>7. \A t \in Requests : gl[t] = IF t = r THEN ver ELSE fl[t]
  BY <1>1, <1>5 DEF Flights
<1>8. lo2[s0] = map /\ \A s \in Servers : s # s0 => lo2[s] = lo[s]
  BY <1>0, <1>3, <1>5 DEF RoomInv, MapInv
<1>9. \A j \in DOMAIN lo[s0] : j # k0 /\ lo[s0][j].window >= m => j \in DOMAIN map /\ map[j] = lo[s0][j]
  <2>1. \A j \in DOMAIN lo[s0] : lo[s0][j].window >= m => j \in Kept(s0)
    BY <1>0 DEF Kept, Tracked
  <2>. QED
    BY <1>0, <1>4, <2>1
<1>10. /\ b.window = m /\ b.count \in Nat /\ b.count >= 1
       /\ k0 \in DOMAIN lo[s0] /\ lo[s0][k0].window = m => lo[s0][k0].count \in Nat
       /\ k0 \in DOMAIN lo[s0] /\ lo[s0][k0].window = m /\ b.count <= Limit => b.count > lo[s0][k0].count
       /\ k0 \in DOMAIN lo[s0] /\ lo[s0][k0].window = m => b.count >= lo[s0][k0].count
  <2>1. /\ b.window = m
        /\ \/ /\ b.count = 1
              /\ ~(k0 \in DOMAIN lo[s0] /\ lo[s0][k0].window = m)
           \/ /\ k0 \in DOMAIN lo[s0] /\ lo[s0][k0].window = m
              /\ lo[s0][k0].count \in 1..Top
              /\ b.count = Plus1(lo[s0][k0].count)
    BY <1>0, <1>3, FilledBucket DEF RoomInv
  <2>2. PICK c, d : c = b.count /\ d = lo[s0][k0].count
    OBVIOUS
  <2>3. ASSUME c = Plus1(d), d \in 1..Top
        PROVE  c \in Nat /\ d \in Nat /\ c >= 1 /\ (c <= Limit => c > d) /\ c >= d
    BY <2>3, Numbers DEF Plus1
  <2>. QED
    BY <2>1, <2>2, <2>3
<1>11. k0 \in DOMAIN lo[s0] => lo[s0][k0].window \in Nat /\ lo[s0][k0].window <= m
  BY <1>0, <1>3 DEF RoomInv, MapInv, Tracked
<1>12. ASSUME NEW k \in Keys, NEW w \in Minutes
       PROVE  /\ LocalRoom(lo2, m, k, w) \subseteq LocalRoom(lo, m, k, w)
              /\ k = k0 /\ w = m /\ b.count <= Limit =>
                     /\ <<s0, b.count>> \in LocalRoom(lo, m, k, w)
                     /\ <<s0, b.count>> \notin LocalRoom(lo2, m, k, w)
  <2>1. w \in Nat
    BY Numbers
  <2>2. ASSUME NEW p \in LocalRoom(lo2, m, k, w) PROVE p \in LocalRoom(lo, m, k, w)
    <3>1. /\ p \in Servers \X (1..Limit) /\ p[1] \in Servers /\ p[2] \in 1..Limit /\ w >= m
          /\ k \in DOMAIN lo2[p[1]] /\ lo2[p[1]][k].window = w => p[2] > lo2[p[1]][k].count
      BY DEF LocalRoom
    <3>2. ASSUME k \in DOMAIN lo[p[1]], lo[p[1]][k].window = w PROVE p[2] > lo[p[1]][k].count
      <4>1. CASE p[1] # s0
        BY <1>8, <3>1, <3>2, <4>1
      <4>2. CASE p[1] = s0 /\ k # k0
        BY <1>8, <1>9, <3>1, <3>2, <4>2
      <4>3. CASE p[1] = s0 /\ k = k0
        <5>1. w = m
          BY <1>1, <1>11, <2>1, <3>1, <3>2, <4>3
        <5>2. PICK x, c, d : x = p[2] /\ c = b.count /\ d = lo[s0][k0].count
          OBVIOUS
        <5>3. x > c
          BY <1>6, <1>8, <1>10, <3>1, <4>3, <5>1, <5>2
        <5>4. c >= d /\ c \in Nat /\ d \in Nat
          BY <1>10, <3>2, <4>3, <5>1, <5>2
        <5>5. x \in Nat
          BY <3>1, <5>2, Numbers
        <5>6. x > d
          BY <5>3, <5>4, <5>5
        <5>. QED
          BY <4>3, <5>2, <5>6
      <4>. QED
        BY <4>1, <4>2, <4>3
    <3>. QED
      BY <3>1, <3>2 DEF LocalRoom
  <2>3. ASSUME k = k0, w = m, b.count <= Limit
        PROVE  /\ <<s0, b.count>> \in LocalRoom(lo, m, k, w)
               /\ <<s0, b.count>> \notin LocalRoom(lo2, m, k, w)
    <3>1. PICK p : p = <<s0, b.count>>
      OBVIOUS
    <3>2. p[1] = s0 /\ p[2] = b.count
      BY <3>1
    <3>3. b.count \in 1..Limit
      BY <1>10, <2>3, Numbers
    <3>4. p \in Servers \X (1..Limit)
      BY <1>3, <3>1, <3>3
    <3>5. w >= m
      BY <1>1, <2>3
    <3>6. k \in DOMAIN lo[p[1]] /\ lo[p[1]][k].window = w => p[2] > lo[p[1]][k].count
      BY <1>10, <2>3, <3>2
    <3>7. p \in LocalRoom(lo, m, k, w)
      BY <3>4, <3>5, <3>6 DEF LocalRoom
    <3>8. /\ k \in DOMAIN lo2[p[1]] /\ lo2[p[1]][k].window = w
          /\ lo2[p[1]][k].count = b.count
      BY <1>6, <1>8, <1>10, <2>3, <3>2
    <3>9. ~(p[2] > lo2[p[1]][k].count)
      BY <1>10, <3>2, <3>8
    <3>10. p \notin LocalRoom(lo2, m, k, w)
      BY <3>8, <3>9 DEF LocalRoom
    <3>. QED
      BY <3>1, <3>7, <3>10
  <2>. QED
    BY <2>2, <2>3
<1>13. ASSUME NEW k \in Keys, NEW w \in Minutes PROVE Room(ad, gl, rd, lo2, m, k, w) <= Allowance(st)
  <2>1. LocalRoom(lo2, m, k, w) \subseteq LocalRoom(lo, m, k, w)
    BY <1>12
  <2>2. /\ Room(ad, fl, rd, lo, m, k, w) <= Allowance(st)
        /\ ad[k][w] \in Nat /\ st \in Nat
    BY <1>0, TooManyIsNat, StartsNumber DEF RoomInv, WithinAllowance, TypeOK
  <2>3. Allowance(st) \in Nat
    BY <2>2, AllowanceNumbers
  <2>4. CASE k = k0 /\ w = m /\ b.count <= Limit
    <3>1. PICK p : p = <<s0, b.count>>
      OBVIOUS
    <3>2. p \in LocalRoom(lo, m, k, w) /\ p \notin LocalRoom(lo2, m, k, w)
      BY <1>12, <2>4, <3>1
    <3>3. LocalRoom(lo2, m, k, w) \subseteq LocalRoom(lo, m, k, w) \ {p}
      BY <2>1, <3>2
    <3>4. /\ Cardinality(LocalRoom(lo, m, k, w)) \in Nat
          /\ Cardinality(LocalRoom(lo2, m, k, w)) \in Nat
          /\ Cardinality(LocalRoom(lo2, m, k, w)) + 1 <= Cardinality(LocalRoom(lo, m, k, w))
      BY <3>2, <3>3, RoomSets, RemovedCard
    <3>5. Cardinality(RedisRoom(rd, m, k, w)) \in Nat
      BY RoomSets
    <3>6. Winners(gl, k, w) \subseteq Winners(fl, k, w) \cup {r}
      BY <1>7 DEF Winners
    <3>7. /\ Cardinality(Winners(fl, k, w)) \in Nat /\ Cardinality(Winners(gl, k, w)) \in Nat
          /\ Cardinality(Winners(gl, k, w)) <= Cardinality(Winners(fl, k, w)) + 1
      BY <3>6, RoomSets, AddedCard
    <3>. QED
      BY <2>2, <2>3, <3>4, <3>5, <3>7 DEF Room
  <2>5. CASE ~(k = k0 /\ w = m /\ b.count <= Limit)
    <3>1. Winners(gl, k, w) \subseteq Winners(fl, k, w)
      BY <1>6, <1>7, <2>5 DEF Winners, Wins
    <3>. QED
      BY <2>1, <2>2, <2>3, <3>1, RoomShrinks
  <2>. QED
    BY <2>4, <2>5
<1>14. WithinAllowance(ad, gl, rd, lo2, m, st)
  BY <1>13 DEF WithinAllowance
<1>. QED
  BY <1>0, <1>5, <1>14

\* A process that starts again can reach Limit counts once more.
LEMMA RoomRestart ==
    ASSUME RoomInv, NEW s0 \in Servers, Restart(s0), TypeOK'
    PROVE  WithinAllowance(admitted, inflight, redis, local, minute, starts)'
<1>0. PICK ad, fl, gl, rd, lo, lo2, m, st :
          /\ ad = admitted /\ fl = inflight /\ gl = inflight' /\ rd = redis
          /\ lo = local /\ lo2 = local' /\ m = minute /\ st = starts
  OBVIOUS
<1>1. /\ redis' = rd /\ minute' = m /\ admitted' = ad /\ starts' = st + 1
      /\ \A t \in Requests : gl[t] = Idle \/ gl[t] = fl[t]
      /\ \A s \in Servers : s # s0 => lo2[s] = lo[s]
  BY <1>0 DEF Restart, RoomInv, MapInv
<1>2. Idle.stage = "idle"
  BY DEF Idle
<1>3. PICK N : N = {s0} \X (1..Limit)
  OBVIOUS
<1>4. IsFiniteSet(N) /\ Cardinality(N) = Limit
  <2>1. IsFiniteSet({s0}) /\ Cardinality({s0}) = 1
    BY FS_Singleton
  <2>2. IsFiniteSet(1..Limit) /\ Cardinality(1..Limit) = Limit
    BY Numbers, FS_Interval
  <2>3. IsFiniteSet(N) /\ Cardinality(N) = 1 * Limit
    BY <1>3, <2>1, <2>2, FS_Product
  <2>. QED
    BY <2>3, Numbers
<1>5. ASSUME NEW k \in Keys, NEW w \in Minutes
      PROVE  Room(ad, gl, rd, lo2, m, k, w) <= Allowance(st + 1)
  <2>1. /\ Room(ad, fl, rd, lo, m, k, w) <= Allowance(st)
        /\ ad[k][w] \in Nat /\ st \in Nat
    BY <1>0, TooManyIsNat, StartsNumber DEF RoomInv, WithinAllowance, TypeOK
  <2>2. Allowance(st) \in Nat /\ Allowance(st + 1) = Allowance(st) + Limit
    BY <2>1, AllowanceNumbers
  <2>3. Winners(gl, k, w) \subseteq Winners(fl, k, w)
    BY <1>1, <1>2 DEF Winners, Wins
  <2>4. /\ Cardinality(Winners(fl, k, w)) \in Nat /\ Cardinality(Winners(gl, k, w)) \in Nat
        /\ Cardinality(Winners(gl, k, w)) <= Cardinality(Winners(fl, k, w))
    BY <2>3, RoomSets, SubsetCard
  <2>5. LocalRoom(lo2, m, k, w) \subseteq LocalRoom(lo, m, k, w) \cup N
    <3>1. ASSUME NEW p \in LocalRoom(lo2, m, k, w), p \notin N PROVE p \in LocalRoom(lo, m, k, w)
      <4>1. /\ p \in Servers \X (1..Limit) /\ p[1] \in Servers /\ w >= m
            /\ k \in DOMAIN lo2[p[1]] /\ lo2[p[1]][k].window = w => p[2] > lo2[p[1]][k].count
        BY DEF LocalRoom
      <4>2. p[1] # s0
        BY <1>3, <3>1, <4>1
      <4>3. lo2[p[1]] = lo[p[1]]
        BY <1>1, <4>1, <4>2
      <4>. QED
        BY <4>1, <4>3 DEF LocalRoom
    <3>. QED
      BY <3>1
  <2>6. PICK L, L2 : L = LocalRoom(lo, m, k, w) /\ L2 = LocalRoom(lo2, m, k, w)
    OBVIOUS
  <2>7. /\ Cardinality(L2) \in Nat /\ Cardinality(L) \in Nat
        /\ Cardinality(L2) <= Cardinality(L) + Limit
    <3>1. IsFiniteSet(L)
      BY <2>6, RoomSets
    <3>2. /\ IsFiniteSet(L \cup N) /\ IsFiniteSet(L \cap N)
          /\ Cardinality(L \cup N) = Cardinality(L) + Cardinality(N) - Cardinality(L \cap N)
      <4>1. L \cap N \subseteq N
        OBVIOUS
      <4>2. IsFiniteSet(L \cap N)
        BY <1>4, <4>1, SubsetCard
      <4>. QED
        BY <1>4, <3>1, <4>2, FS_Union
    <3>3. Cardinality(L) \in Nat /\ Cardinality(L \cup N) \in Nat /\ Cardinality(L \cap N) \in Nat
      BY <3>1, <3>2, FS_CardinalityType
    <3>4. Cardinality(L2) \in Nat /\ Cardinality(L2) <= Cardinality(L \cup N)
      BY <2>5, <2>6, <3>2, SubsetCard
    <3>. QED
      BY <1>4, <3>2, <3>3, <3>4, Numbers
  <2>8. Cardinality(RedisRoom(rd, m, k, w)) \in Nat
    BY RoomSets
  <2>. QED
    BY <2>1, <2>2, <2>4, <2>6, <2>7, <2>8, Numbers DEF Room
<1>6. WithinAllowance(ad, gl, rd, lo2, m, st + 1)
  BY <1>5 DEF WithinAllowance
<1>. QED
  BY <1>0, <1>1, <1>6

LEMMA RoomInit == Init => RoomInv
<1>. SUFFICES ASSUME Init PROVE RoomInv
  OBVIOUS
<1>1. TypeOK /\ MapInv /\ MapBounded /\ Windows
  BY TypeInit, MapInit, CauseInit DEF CauseInv
<1>2. /\ \A r \in Requests : inflight[r] = Idle
      /\ \A k \in Keys, w \in Minutes : admitted[k][w] = 0
      /\ starts = Cardinality(Servers)
  BY DEF Init
<1>3. Idle.stage = "idle"
  BY DEF Idle
<1>4. IsFiniteSet(1..Limit) /\ Cardinality(1..Limit) = Limit
  BY Numbers, FS_Interval
<1>5. /\ IsFiniteSet(Servers \X (1..Limit))
      /\ Cardinality(Servers \X (1..Limit)) = Cardinality(Servers) * Limit
  BY <1>4, FS_Product, LimitAssumption
<1>6. Allowance(starts) = Limit + Cardinality(Servers) * Limit
  <2>1. ASSUME NEW a \in Nat, NEW b \in Nat PROVE a * (1 + b) = a + b * a
    BY SMT
  <2>. QED
    BY <1>2, <2>1, Numbers, StartsNumber DEF Allowance
<1>7. ASSUME NEW k \in Keys, NEW w \in Minutes
      PROVE  Room(admitted, inflight, redis, local, minute, k, w) <= Allowance(starts)
  <2>1. Cardinality(Winners(inflight, k, w)) = 0
    <3>1. Winners(inflight, k, w) = {}
      BY <1>2, <1>3 DEF Winners, Wins
    <3>. QED
      BY <3>1, FS_EmptySet
  <2>2. PICK R, L : R = RedisRoom(redis, minute, k, w) /\ L = LocalRoom(local, minute, k, w)
    OBVIOUS
  <2>3. R \subseteq 1..Limit /\ L \subseteq Servers \X (1..Limit)
    BY <2>2 DEF RedisRoom, LocalRoom
  <2>4. Cardinality(R) \in Nat /\ Cardinality(R) <= Limit
    BY <1>4, <2>3, SubsetCard
  <2>5. /\ Cardinality(L) \in Nat /\ Cardinality(Servers \X (1..Limit)) \in Nat
        /\ Cardinality(L) <= Cardinality(Servers \X (1..Limit))
    BY <1>5, <2>3, SubsetCard
  <2>6. admitted[k][w] = 0
    BY <1>2
  <2>7. PICK n : n = Cardinality(Servers) * Limit
    OBVIOUS
  <2>8. n \in Nat /\ Cardinality(L) <= n /\ Allowance(starts) = Limit + n
    BY <1>5, <1>6, <2>5, <2>7
  <2>9. 0 + 0 + Cardinality(R) + Cardinality(L) <= Allowance(starts)
    BY <2>4, <2>5, <2>8, Numbers
  <2>. QED
    BY <2>1, <2>2, <2>6, <2>9 DEF Room
<1>. QED
  BY <1>1, <1>7 DEF RoomInv, WithinAllowance

LEMMA RoomStep == RoomInv /\ [Next]_vars => RoomInv'
<1>. SUFFICES ASSUME RoomInv, [Next]_vars PROVE RoomInv'
  OBVIOUS
<1>. DEFINE Within == WithinAllowance(admitted, inflight, redis, local, minute, starts)'
<1>0. TypeOK /\ Windows /\ TypeOK' /\ MapInv' /\ MapBounded' /\ Windows'
  BY TypeStep, MapStep, WindowStep DEF RoomInv
<1>. SUFFICES Within
  BY <1>0 DEF RoomInv
<1>1. inflight \in Flights /\ minute \in Nat /\ redis \in Counts
  BY <1>0, TypeFacts
<1>2. ASSUME NEW r \in Requests, NEW s \in Servers, NEW k \in Keys, Arrive(r, s, k) PROVE Within
  <2>1. PICK q2 : q2 = [stage |-> "redis", server |-> s, key |-> k, window |-> minute]
    OBVIOUS
  <2>2. /\ inflight' = [inflight EXCEPT ![r] = q2]
        /\ redis' = redis /\ local' = local /\ minute' = minute /\ starts' = starts
        /\ admitted' = admitted
    BY <1>2, <2>1 DEF Arrive, Goto
  <2>3. q2.stage # "verdict"
    BY <2>1
  <2>4. \A t \in Requests : inflight'[t] = inflight[t] \/ inflight'[t].stage # "verdict"
    BY <1>1, <2>2, <2>3 DEF Flights
  <2>. QED
    BY <1>0, <2>2, <2>4, RoomOther
<1>3. ASSUME NEW r \in Requests, CountInRedis(r) PROVE Within
  BY <1>0, <1>3, RoomRedis
<1>4. ASSUME NEW r \in Requests, CountLocally(r) PROVE Within
  BY <1>0, <1>4, RoomLocal
<1>5. ASSUME NEW r \in Requests, Decide(r) PROVE Within
  BY <1>0, <1>5, RoomDecide
<1>6. ASSUME NEW s \in Servers, Restart(s) PROVE Within
  BY <1>0, <1>6, RoomRestart
<1>7. ASSUME NEW r \in Requests, RedisFails(r) PROVE Within
  <2>1. PICK q, n : q = inflight[r] /\ n = [q EXCEPT !.stage = "local"]
    OBVIOUS
  <2>2. /\ inflight' = [inflight EXCEPT ![r] = n] /\ q.stage = "redis"
        /\ redis' = redis /\ local' = local /\ minute' = minute /\ starts' = starts
        /\ admitted' = admitted
    BY <1>7, <2>1 DEF RedisFails, Goto, history
  <2>3. q \in Request
    BY <1>1, <2>1, <2>2, RequestFields DEF Flights
  <2>4. n.stage # "verdict"
    BY <2>1, <2>3 DEF Request
  <2>5. \A t \in Requests : inflight'[t] = inflight[t] \/ inflight'[t].stage # "verdict"
    BY <1>1, <2>2, <2>4 DEF Flights
  <2>. QED
    BY <1>0, <2>2, <2>5, RoomOther
<1>8. CASE Tick
  <2>1. /\ inflight' = inflight /\ local' = local /\ admitted' = admitted /\ starts' = starts
        /\ minute' = minute + 1
        /\ redis' = [k \in Keys |-> [w \in Minutes |-> IF w + 2 <= minute' THEN 0 ELSE redis[k][w]]]
    BY <1>8 DEF Tick, history
  <2>2. ASSUME NEW k \in Keys, NEW w \in Minutes
        PROVE  /\ RedisRoom(redis', minute', k, w) \subseteq RedisRoom(redis, minute, k, w)
               /\ LocalRoom(local', minute', k, w) \subseteq LocalRoom(local, minute, k, w)
    <3>1. PICK m, m2, rd, rd2, lo : /\ m = minute /\ m2 = minute' /\ rd = redis /\ rd2 = redis'
                                    /\ lo = local
      OBVIOUS
    <3>2. m \in Nat /\ m2 = m + 1 /\ w \in Nat
      BY <1>1, <2>1, <3>1, Numbers
    <3>3. w + 1 >= m2 => rd2[k][w] = rd[k][w]
      BY <2>1, <3>1, <3>2
    <3>4. RedisRoom(rd2, m2, k, w) \subseteq RedisRoom(rd, m, k, w)
      BY <3>2, <3>3 DEF RedisRoom
    <3>5. LocalRoom(lo, m2, k, w) \subseteq LocalRoom(lo, m, k, w)
      BY <3>2 DEF LocalRoom
    <3>. QED
      BY <2>1, <3>1, <3>4, <3>5
  <2>. QED
    BY <1>0, <2>1, <2>2, RoomOther
<1>9. CASE UNCHANGED vars
  BY <1>0, <1>9, RoomOther DEF vars
<1>. QED
  BY <1>2, <1>3, <1>4, <1>5, <1>6, <1>7, <1>8, <1>9 DEF Next, RequestStep

LEMMA RoomBounds == RoomInv => WithinLimit
<1>. SUFFICES ASSUME RoomInv, NEW k \in Keys, NEW w \in Minutes
              PROVE  admitted[k][w] <= Limit * (1 + starts)
  BY DEF WithinLimit
<1>1. PICK a : a = Allowance(starts)
  OBVIOUS
<1>2. starts \in Nat /\ admitted[k][w] \in Nat
  BY StartsNumber, TooManyIsNat DEF RoomInv, TypeOK
<1>3. a \in Nat
  BY <1>1, <1>2, AllowanceNumbers
<1>4. Room(admitted, inflight, redis, local, minute, k, w) <= a
  BY <1>1 DEF RoomInv, WithinAllowance
<1>5. /\ Cardinality(Winners(inflight, k, w)) \in Nat
      /\ Cardinality(RedisRoom(redis, minute, k, w)) \in Nat
      /\ Cardinality(LocalRoom(local, minute, k, w)) \in Nat
  BY RoomSets
<1>6. admitted[k][w] <= a
  BY <1>2, <1>3, <1>4, <1>5 DEF Room
<1>. QED
  BY <1>1, <1>6 DEF Allowance

\* What the middleware lets through of a key in a minute is within the limit,
\* once for Redis (increment) and once for each start of a process
\* (incrementLocal), whatever Redis does and however the requests overlap.
THEOREM AdmitsWithinLimit == Spec => []WithinLimit
BY RoomInit, RoomStep, RoomBounds, PTL DEF Spec
=============================================================================
