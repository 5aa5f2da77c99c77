---------------------------- MODULE WorkbenchProofs ----------------------------
(***************************************************************************)
(* Theorems about Workbench, for any records, graph and sizes of pages and *)
(* any number of calls under way.                                          *)
(***************************************************************************)
EXTENDS Workbench, FiniteSetTheorems, SequenceTheorems, TLAPS

Walk == [spoiled : BOOLEAN, seen : SUBSET Records, touched : SUBSET Records,
         overlapped : BOOLEAN, own : [Records -> Nat]]

Targets == {e[2] : e \in TRANSITIONS[Key]}

Closings == {"nothing", "transition", "create"}

Positive == Nat \ {0}

SentLoad == [kind : {"load"}, stage : {"sent"}, page : Positive, size : Positive,
             closes : Closings]

CountedLoad == [kind : {"load"}, stage : {"counted"}, page : Positive, size : Positive,
                closes : Closings, total : Nat]

AnsweredLoad == [kind : {"load"}, stage : {"answered"}, size : Positive, closes : Closings,
                 total : Nat, items : Seq(Item)]

Confirmed == [kind : {"transition"}, stage : {"sent"}, item : Item, target : Targets]

Creating == [kind : {"create"}, stage : {"sent"}]

Done == [kind : {"change"}, stage : {"done"}, closes : {"transition", "create"}]

Call == {Idle} \cup SentLoad \cup CountedLoad \cup AnsweredLoad
        \cup Confirmed \cup Creating \cup Done

Types ==
    /\ row \in [Records -> [status : RowStatuses, version : Nat]]
    /\ list \in Seq(Records)
    /\ \A i, j \in 1..Len(list) : list[i] = list[j] => i = j
    /\ changes \in Nat
    /\ store \in [items : Seq(Item), total : Nat, size : Positive, loading : BOOLEAN,
                  error : BOOLEAN]
    /\ page \in Positive
    /\ pending = Closed \/ pending \in [kind : {"transition"}, item : Item, target : Targets]
    /\ showCreate \in BOOLEAN
    /\ calls \in [Calls -> Call]
    /\ walk \in Walk

\* What an item says of a record is not ahead of the table rw, and true of the
\* version it names.
Fits(item, rw) ==
    /\ item.version <= rw[item.record].version
    /\ item.version = rw[item.record].version => item.status = rw[item.record].status

AnsweredWith(call) == IF call.kind = "load" /\ call.stage = "answered" THEN ToSet(call.items) ELSE {}

\* The items at hand: shown, in the dialog, and in calls under way.
Fitting ==
    /\ \A item \in ToSet(store.items) : Fits(item, row)
    /\ pending # Closed => Fits(pending.item, row)
    /\ \A c \in Calls :
        /\ calls[c].kind = "transition" => Fits(calls[c].item, row)
        /\ \A item \in AnsweredWith(calls[c]) : Fits(item, row)

Alone == \A c, d \in Calls : calls[c] # Idle /\ calls[d] # Idle => c = d

\* A call after which the list is shown anew, or an error.
Relists(call) == call.kind \in {"load", "change"}

OwnInv ==
    /\ \A r \in Records : walk.own[r] <= row[r].version
    /\ walk.overlapped => \A r \in Records : walk.own[r] = 0
    /\ ~walk.overlapped => Alone
    /\ \A c \in Calls : \A item \in AnsweredWith(calls[c]) : item.version >= walk.own[item.record]
    /\ ~store.error /\ (\A c \in Calls : ~Relists(calls[c])) =>
           \A item \in ToSet(store.items) : item.version >= walk.own[item.record]

\* The records of items.
Recs(items) == {items[i].record : i \in DOMAIN items}

\* A load of the page pg that the pager is on, or of the store's own list.
Aimed(call, pg) ==
    IF call.closes = "nothing" THEN call.page = pg /\ call.size = PageSize
    ELSE call.page = 1 /\ call.size = ReloadSize

\* A load for the pager, and not after a change.
Paging(call) == call.kind = "load" /\ call.closes = "nothing"

\* The untouched records among the first n of the list ls are in seen.
SeenUpTo(n, seen, ls, touched) ==
    \A i \in 1..Len(ls) : i <= n /\ ls[i] \notin touched => ls[i] \in seen

Missed(seen, ls, touched) == \E i \in 1..Len(ls) : ls[i] \notin touched /\ ls[i] \notin seen

\* A pager at page pg that is told total and size goes on if a record was missed.
Leads(seen, ls, touched, pg, total, size) ==
    Missed(seen, ls, touched) => total > pg * PageSize /\ total > size

\* What holds of a load, while the list is ls, the walk w and the pager at pg.
Bringing(call, ls, w, pg) ==
    call.kind = "load" =>
        /\ call.stage \in {"sent", "counted"} => Aimed(call, pg)
        /\ call.stage = "counted" => call.total = Len(ls)
        /\ call.closes = "nothing" => SeenUpTo((pg - 1) * PageSize, w.seen, ls, w.touched)
        /\ call.stage = "answered" =>
            LET seen == w.seen \cup Recs(call.items)
            IN /\ SeenUpTo(pg * PageSize, seen, ls, w.touched)
               /\ Leads(seen, ls, w.touched, pg, call.total, call.size)

WalkInv ==
    ~walk.spoiled =>
        /\ Alone
        /\ \A c \in Calls : Bringing(calls[c], list, walk, page)
        /\ (\A c \in Calls : ~Paging(calls[c])) =>
               SeenUpTo(page * PageSize, walk.seen, list, walk.touched)
        /\ (\A c \in Calls : calls[c].kind # "load") =>
               Leads(walk.seen, list, walk.touched, page, store.total, store.size)
-----------------------------------------------------------------------------
(* The list and its pages                                                  *)

Distinct(s) == \A i, j \in 1..Len(s) : s[i] = s[j] => i = j

LEMMA Sizes == PageSize \in Positive /\ ReloadSize \in Positive
BY WorkbenchAssumption DEF Positive

\* A page is as long as one of PageSize rows is.
LEMMA Multiples ==
    ASSUME NEW p \in Positive, NEW s \in Positive
    PROVE  /\ (p - 1) * s \in Nat /\ p * s \in Nat
           /\ p * s = (p - 1) * s + s
BY DEF Positive

LEMMA ToSetOfSeq == ASSUME NEW S, NEW s \in Seq(S) PROVE ToSet(s) = {s[i] : i \in 1..Len(s)}
BY DEF ToSet

\* Removing a record from a list without repetitions leaves the others in order.
LEMMA Removed ==
    ASSUME NEW s \in Seq(Records), Distinct(s), NEW r \in Records
    PROVE  /\ RemoveFirst(s, r) \in Seq(Records)
           /\ r \in ToSet(s) => Len(RemoveFirst(s, r)) = Len(s) - 1
           /\ r \notin ToSet(s) => Len(RemoveFirst(s, r)) = Len(s)
           /\ Distinct(RemoveFirst(s, r))
           /\ \A i \in 1..Len(RemoveFirst(s, r)) :
                  /\ RemoveFirst(s, r)[i] # r
                  /\ \E j \in 1..Len(s) : i <= j /\ j <= i + 1 /\ RemoveFirst(s, r)[i] = s[j]
                  /\ (\A m \in 1..i : s[m] # r) => RemoveFirst(s, r)[i] = s[i]
<1>1. CASE r \notin ToSet(s)
  <2>1. RemoveFirst(s, r) = s
    BY <1>1, ToSetOfSeq DEF RemoveFirst
  <2>2. \A i \in 1..Len(s) : s[i] # r
    BY <1>1, ToSetOfSeq
  <2>. QED
    BY <1>1, <2>1, <2>2
<1>2. CASE r \in ToSet(s)
  <2>1. PICK k \in 1..Len(s) : s[k] = r
    BY <1>2, ToSetOfSeq
  <2>2. {i \in 1..Len(s) : s[i] = r} = {k}
    BY <2>1 DEF Distinct
  <2>3. SelectInSeq(s, LAMBDA v : v = r) = k
    <3>1. Min({k}) = k
      BY DEF Min
    <3>. QED
      BY <2>2, <3>1 DEF SelectInSeq
  <2>4. RemoveFirst(s, r) = SubSeq(s, 1, k - 1) \o SubSeq(s, k + 1, Len(s))
    BY <2>1, <2>3 DEF RemoveFirst, RemoveAt
  <2> DEFINE a == SubSeq(s, 1, k - 1)
             b == SubSeq(s, k + 1, Len(s))
  <2>5. /\ a \in Seq(Records) /\ Len(a) = k - 1
        /\ \A i \in 1..(k - 1) : a[i] = s[i]
    BY SubSeqProperties
  <2>6. /\ b \in Seq(Records) /\ Len(b) = Len(s) - k
        /\ \A i \in 1..(Len(s) - k) : b[i] = s[k + i]
    BY SubSeqProperties
  <2> HIDE DEF a, b
  <2>7. /\ a \o b \in Seq(Records) /\ Len(a \o b) = Len(s) - 1
        /\ \A i \in 1..(Len(s) - 1) : (a \o b)[i] = IF i < k THEN s[i] ELSE s[i + 1]
    <3>1. /\ a \o b \in Seq(Records) /\ Len(a \o b) = Len(a) + Len(b)
          /\ \A i \in 1..(Len(a) + Len(b)) :
                 (a \o b)[i] = IF i <= Len(a) THEN a[i] ELSE b[i - Len(a)]
      BY <2>5, <2>6, ConcatProperties
    <3>2. Len(s) \in Nat /\ k \in 1..Len(s)
      OBVIOUS
    <3>3. ASSUME NEW i \in 1..(Len(s) - 1)
          PROVE (a \o b)[i] = IF i < k THEN s[i] ELSE s[i + 1]
      <4>1. (a \o b)[i] = IF i <= k - 1 THEN a[i] ELSE b[i - (k - 1)]
        <5>1. i \in 1..(Len(a) + Len(b)) /\ Len(a) = k - 1
          BY <2>5, <2>6, <3>2
        <5>. QED
          BY <3>1, <5>1
      <4>2. CASE i < k
        BY <2>5, <3>2, <4>1, <4>2
      <4>3. CASE ~(i < k)
        <5>1. i - (k - 1) \in 1..(Len(s) - k) /\ k + (i - (k - 1)) = i + 1
          BY <3>2, <4>3
        <5>2. b[i - (k - 1)] = s[i + 1]
          BY <2>6, <5>1
        <5>3. ~(i <= k - 1)
          BY <3>2, <4>3
        <5>. QED
          BY <4>1, <4>3, <5>2, <5>3
      <4>. QED
        BY <4>2, <4>3
    <3>. QED
      BY <2>5, <2>6, <3>1, <3>2, <3>3
  <2>8. Distinct(a \o b)
    <3> DEFINE at(i) == IF i < k THEN i ELSE i + 1
    <3>1. SUFFICES ASSUME NEW i \in 1..(Len(s) - 1), NEW j \in 1..(Len(s) - 1),
                          (a \o b)[i] = (a \o b)[j]
                   PROVE i = j
      BY <2>7 DEF Distinct
    <3>2. at(i) \in 1..Len(s) /\ at(j) \in 1..Len(s)
      OBVIOUS
    <3>3. (a \o b)[i] = s[at(i)] /\ (a \o b)[j] = s[at(j)]
      BY <2>7
    <3>4. at(i) = at(j)
      BY <3>1, <3>2, <3>3 DEF Distinct
    <3>. QED
      BY <3>4
  <2>9. ASSUME NEW i \in 1..(Len(s) - 1)
        PROVE /\ (a \o b)[i] # r
              /\ \E j \in 1..Len(s) : i <= j /\ j <= i + 1 /\ (a \o b)[i] = s[j]
    <3>1. PICK j \in 1..Len(s) : /\ i <= j /\ j <= i + 1 /\ j # k
                                 /\ (a \o b)[i] = s[j]
      <4>1. (a \o b)[i] = IF i < k THEN s[i] ELSE s[i + 1]
        BY <2>7
      <4>2. i \in 1..Len(s) /\ i + 1 \in 1..Len(s)
        OBVIOUS
      <4>. QED
        BY <4>1, <4>2
    <3>2. s[j] # r
      BY <2>1, <3>1 DEF Distinct
    <3>. QED
      BY <3>1, <3>2
  <2>10. RemoveFirst(s, r) = a \o b
    BY <2>4 DEF a, b
  <2>11. ASSUME NEW i \in 1..(Len(s) - 1), \A m \in 1..i : s[m] # r
         PROVE (a \o b)[i] = s[i]
    <3>1. i < k
      BY <2>1, <2>11
    <3>. QED
      BY <2>7, <3>1
  <2>. QED
    BY <1>2, <2>7, <2>8, <2>9, <2>10, <2>11
<1>. QED
  BY <1>1, <1>2

\* Inserting a record into a list at place i.
WithAt(order, rest, i, r) ==
    /\ order \in Seq(Records) /\ Len(order) = Len(rest) + 1
    /\ order[i] = r
    /\ \A j \in 1..(i - 1) : order[j] = rest[j]
    /\ \A j \in (i + 1)..(Len(rest) + 1) : order[j] = rest[j - 1]

LEMMA InsertedAt ==
    ASSUME NEW rest \in Seq(Records), NEW r \in Records, NEW i \in 1..(Len(rest) + 1)
    PROVE  WithAt(InsertAt(rest, i, r), rest, i, r)
<1> DEFINE a == SubSeq(rest, 1, i - 1)
           b == SubSeq(rest, i, Len(rest))
<1>1. /\ a \in Seq(Records) /\ Len(a) = i - 1
      /\ \A j \in 1..(i - 1) : a[j] = rest[j]
  BY SubSeqProperties
<1>2. /\ b \in Seq(Records) /\ Len(b) = Len(rest) - i + 1
      /\ \A j \in 1..(Len(rest) - i + 1) : b[j] = rest[i + j - 1]
  BY SubSeqProperties
<1>3. InsertAt(rest, i, r) = a \o <<r>> \o b
  BY DEF InsertAt
<1> HIDE DEF a, b
<1>4. /\ a \o <<r>> \in Seq(Records) /\ Len(a \o <<r>>) = i
      /\ (a \o <<r>>)[i] = r
      /\ \A j \in 1..(i - 1) : (a \o <<r>>)[j] = rest[j]
  BY <1>1
<1> DEFINE c == a \o <<r>>
<1>5. c \in Seq(Records) /\ Len(c) = i /\ c[i] = r /\ \A j \in 1..(i - 1) : c[j] = rest[j]
  BY <1>4
<1> HIDE DEF c
<1>6. /\ c \o b \in Seq(Records) /\ Len(c \o b) = Len(rest) + 1
      /\ \A j \in 1..i : (c \o b)[j] = c[j]
      /\ \A j \in (i + 1)..(Len(rest) + 1) : (c \o b)[j] = b[j - i]
  <2>1. c \in Seq(Records) /\ b \in Seq(Records)
    BY <1>2, <1>5
  <2>2. Len(c) + Len(b) = Len(rest) + 1
    BY <1>2, <1>5
  <2>3. /\ c \o b \in Seq(Records) /\ Len(c \o b) = Len(c) + Len(b)
        /\ \A j \in 1..(Len(c) + Len(b)) :
               (c \o b)[j] = IF j <= Len(c) THEN c[j] ELSE b[j - Len(c)]
    BY <2>1, ConcatProperties
  <2>. QED
    BY <1>5, <2>2, <2>3
<1>7. ASSUME NEW j \in (i + 1)..(Len(rest) + 1) PROVE (c \o b)[j] = rest[j - 1]
  <2>1. j - i \in 1..(Len(rest) - i + 1)
    OBVIOUS
  <2>2. b[j - i] = rest[i + (j - i) - 1]
    BY <1>2, <2>1
  <2>. QED
    BY <1>6, <2>2
<1>8. InsertAt(rest, i, r) = c \o b
  BY <1>3 DEF c
<1>. QED
  BY <1>5, <1>6, <1>7, <1>8 DEF WithAt

\* A write moves its record towards the front and every other towards the end.
LEMMA MovedUp ==
    ASSUME list \in Seq(Records), Distinct(list), NEW r \in Records, NEW order \in Reordered(r)
    PROVE  /\ order \in Seq(Records)
           /\ Distinct(order)
           /\ r \in LiveRecords => Len(order) = Len(list)
           /\ \A j \in 1..Len(order) :
                  \/ order[j] = r
                  \/ \E i \in 1..Len(list) : i <= j /\ list[i] = order[j]
<1> DEFINE rest == RemoveFirst(list, r)
<1>1. /\ rest \in Seq(Records)
      /\ r \in ToSet(list) => Len(rest) = Len(list) - 1
      /\ r \notin ToSet(list) => Len(rest) = Len(list)
      /\ Distinct(rest)
      /\ \A i \in 1..Len(rest) :
             /\ rest[i] # r
             /\ \E j \in 1..Len(list) : i <= j /\ j <= i + 1 /\ rest[i] = list[j]
             /\ (\A m \in 1..i : list[m] # r) => rest[i] = list[i]
  BY Removed
<1>2. PICK p \in 1..(Len(list) + 1) :
          (\A k \in 1..(p - 1) : list[k] # r) /\ order = InsertAt(rest, p, r)
  BY DEF Reordered
<1> HIDE DEF rest
<1>3. p \in 1..(Len(rest) + 1)
  <2>1. CASE r \in ToSet(list)
    <3>1. PICK k \in 1..Len(list) : list[k] = r
      BY <2>1, ToSetOfSeq
    <3>2. ~(k \in 1..(p - 1))
      BY <1>2, <3>1
    <3>. QED
      BY <1>1, <2>1, <3>1, <3>2
  <2>. QED
    BY <1>1, <2>1
<1>4. /\ order \in Seq(Records) /\ Len(order) = Len(rest) + 1 /\ order[p] = r
      /\ \A j \in 1..(p - 1) : order[j] = rest[j]
      /\ \A j \in (p + 1)..(Len(rest) + 1) : order[j] = rest[j - 1]
  <2>1. rest \in Seq(Records)
    BY <1>1
  <2>2. WithAt(InsertAt(rest, p, r), rest, p, r)
    BY <1>3, <2>1, InsertedAt
  <2>. QED
    BY <1>2, <2>2 DEF WithAt
<1>5. Distinct(order)
  <2> DEFINE from(j) == IF j < p THEN j ELSE j - 1
  <2>1. ASSUME NEW j \in 1..(Len(rest) + 1), j # p
        PROVE from(j) \in 1..Len(rest) /\ order[j] = rest[from(j)] /\ order[j] # r
    <3>1. CASE j < p
      BY <1>1, <1>3, <1>4, <3>1
    <3>2. CASE j > p
      <4>1. j \in (p + 1)..(Len(rest) + 1) /\ from(j) = j - 1 /\ (j - 1) \in 1..Len(rest)
        BY <1>3, <3>2
      <4>2. order[j] = rest[j - 1]
        BY <1>4, <4>1
      <4>. QED
        BY <1>1, <4>1, <4>2
    <3>. QED
      BY <1>3, <2>1, <3>1, <3>2
  <2>2. SUFFICES ASSUME NEW i \in 1..Len(order), NEW j \in 1..Len(order), order[i] = order[j]
                 PROVE i = j
    BY DEF Distinct
  <2>3. CASE i = p \/ j = p
    BY <1>4, <2>1, <2>2, <2>3
  <2>4. CASE i # p /\ j # p
    <3>1. PICK k \in 1..Len(rest) : k = from(i) /\ order[i] = rest[k]
      BY <1>4, <2>1, <2>2, <2>4
    <3>2. PICK m \in 1..Len(rest) : m = from(j) /\ order[j] = rest[m]
      BY <1>4, <2>1, <2>2, <2>4
    <3>3. k = m
      <4>1. rest[k] = rest[m]
        BY <2>2, <3>1, <3>2
      <4>2. Distinct(rest)
        BY <1>1
      <4>. QED
        BY <4>1, <4>2 DEF Distinct
    <3>4. i \in Int /\ j \in Int /\ p \in Int
      BY <1>1, <1>4
    <3>5. from(i) = from(j)
      BY <3>1, <3>2, <3>3
    <3>. QED
      BY <2>4, <3>4, <3>5
  <2>. QED
    BY <2>3, <2>4
<1>6. ASSUME NEW j \in 1..Len(order)
      PROVE order[j] = r \/ \E i \in 1..Len(list) : i <= j /\ list[i] = order[j]
  <2>1. CASE j < p
    <3>1. j \in 1..(p - 1) /\ j \in 1..Len(rest) /\ j \in 1..Len(list)
      BY <1>2, <1>3, <2>1
    <3>2. \A m \in 1..j : list[m] # r
      BY <1>2, <3>1
    <3>3. order[j] = list[j]
      BY <1>1, <1>4, <3>1, <3>2
    <3>. QED
      BY <3>1, <3>3
  <2>2. CASE j > p
    <3>1. j \in (p + 1)..(Len(rest) + 1) /\ (j - 1) \in 1..Len(rest)
      BY <1>3, <1>4, <2>2
    <3>2. PICK i \in 1..Len(list) : i <= (j - 1) + 1 /\ rest[j - 1] = list[i]
      BY <1>1, <3>1
    <3>. QED
      BY <1>4, <3>1, <3>2
  <2>3. CASE j = p
    BY <1>4, <2>3
  <2>. QED
    BY <1>3, <2>1, <2>2, <2>3
<1>7. r \in LiveRecords => Len(order) = Len(list)
  BY <1>1, <1>4 DEF LiveRecords
<1>. QED
  BY <1>4, <1>5, <1>6, <1>7

\* What a page shows: rows as they are, and every record at its places.
LEMMA PageShows ==
    ASSUME row \in [Records -> [status : RowStatuses, version : Nat]],
           list \in Seq(Records), NEW p \in Positive, NEW size \in Positive
    PROVE  /\ Page(p, size) \in Seq(Item)
           /\ \A item \in ToSet(Page(p, size)) :
                  /\ item.record \in Records
                  /\ item.version = row[item.record].version
                  /\ item.status = row[item.record].status
           /\ \A i \in 1..Len(list) : (p - 1) * size < i /\ i <= p * size
                  => list[i] \in Recs(Page(p, size))
<1> DEFINE first == (p - 1) * size
           last == p * size
           n == Smaller(last, Len(list)) - Smaller(first, Len(list))
           shown(i) == [record |-> list[first + i], status |-> row[list[first + i]].status,
                        version |-> row[list[first + i]].version]
<1>1. first \in Nat /\ last \in Nat /\ size \in Nat /\ last = first + size /\ size > 0
  BY Multiples DEF Positive
<1>2. Page(p, size) = [i \in 1..n |-> shown(i)]
  BY DEF Page
<1> HIDE DEF first, last
<1>3. /\ n \in Nat
      /\ \A i \in 1..n : first + i \in 1..Len(list)
      /\ \A i \in 1..Len(list) : first < i /\ i <= last => i - first \in 1..n
  <2>1. Len(list) \in Nat
    OBVIOUS
  <2> DEFINE f == Smaller(first, Len(list))
             l == Smaller(last, Len(list))
  <2>2. /\ f \in Nat
        /\ first < Len(list) => f = first
        /\ Len(list) <= first => f = Len(list)
    BY <1>1, <2>1 DEF Smaller
  <2>3. /\ l \in Nat /\ l <= Len(list) /\ l <= last /\ l \in {last, Len(list)}
        /\ \A i \in 1..Len(list) : i <= last => i <= l
    BY <1>1, <2>1 DEF Smaller
  <2> HIDE DEF f, l
  <2>7. f <= l
    BY <1>1, <2>1, <2>2, <2>3
  <2>8. n = l - f
    BY DEF f, l
  <2> HIDE DEF n
  <2>4. n \in Nat
    BY <2>2, <2>3, <2>7, <2>8
  <2>5. ASSUME NEW i \in 1..n PROVE first + i \in 1..Len(list)
    <3>1. f < l
      BY <2>2, <2>3, <2>8
    <3>2. first < Len(list)
      BY <1>1, <2>1, <2>2, <2>3, <3>1
    <3>. QED
      BY <1>1, <2>1, <2>2, <2>3, <2>8, <3>2
  <2>6. ASSUME NEW i \in 1..Len(list), first < i, i <= last PROVE i - first \in 1..n
    <3>1. i <= l /\ f = first
      BY <1>1, <2>1, <2>2, <2>3, <2>6
    <3>. QED
      BY <1>1, <2>1, <2>2, <2>3, <2>6, <2>8, <3>1
  <2>. QED
    BY <2>4, <2>5, <2>6
<1>4. ASSUME NEW i \in 1..n
      PROVE shown(i) \in Item
  BY <1>3 DEF Item
<1>5. Page(p, size) \in [1..n -> Item]
  BY <1>2, <1>4
<1>6. Page(p, size) \in Seq(Item)
  BY <1>3, <1>5, SeqDef
<1>7. ASSUME NEW item \in ToSet(Page(p, size))
      PROVE /\ item.record \in Records
            /\ item.version = row[item.record].version
            /\ item.status = row[item.record].status
  <2>1. PICK i \in 1..n : item = shown(i)
    BY <1>2, <1>5 DEF ToSet
  <2>. QED
    BY <1>3, <2>1
<1>8. ASSUME NEW i \in 1..Len(list), first < i, i <= last
      PROVE list[i] \in Recs(Page(p, size))
  <2>1. i - first \in 1..n /\ first + (i - first) = i
    BY <1>1, <1>3, <1>8
  <2>2. shown(i - first).record = list[i]
    BY <2>1
  <2>3. (i - first) \in DOMAIN Page(p, size) /\ Page(p, size)[i - first] = shown(i - first)
    BY <1>2, <2>1
  <2>. QED
    BY <2>2, <2>3 DEF Recs
<1>. QED
  BY <1>6, <1>7, <1>8 DEF first, last
-----------------------------------------------------------------------------
(* Types                                                                   *)

\* What a call of each kind carries.
LEMMA CallKinds ==
    ASSUME NEW q \in Call
    PROVE  /\ q.kind = "load" /\ q.stage = "sent" => q \in SentLoad
           /\ q.kind = "load" /\ q.stage = "counted" => q \in CountedLoad
           /\ q.kind = "load" /\ q.stage = "answered" => q \in AnsweredLoad
           /\ q.kind = "load" => q \in SentLoad \cup CountedLoad \cup AnsweredLoad
           /\ q.kind = "transition" => q \in Confirmed
           /\ q.kind = "create" => q \in Creating
           /\ q.kind = "change" => q \in Done
BY DEF Call, Idle, SentLoad, CountedLoad, AnsweredLoad, Confirmed, Creating, Done

LEMMA Going ==
    ASSUME calls \in [Calls -> Call], NEW c \in Calls, NEW q \in Call, Goto(c, q)
    PROVE  /\ calls' \in [Calls -> Call]
           /\ calls'[c] = q
           /\ \A d \in Calls : d # c => calls'[d] = calls[d]
BY DEF Goto

\* How the history of a walk changes.
LEMMA WalkFields ==
    /\ Begun \in Walk /\ ~Begun.spoiled /\ ~Begun.overlapped
    /\ Begun.seen = {} /\ Begun.touched = {} /\ \A r \in Records : Begun.own[r] = 0
    /\ \A w \in Walk : /\ Spoilt(w) \in Walk /\ Spoilt(w).spoiled
                       /\ Spoilt(w).overlapped = w.overlapped /\ Spoilt(w).own = w.own
BY DEF Begun, Spoilt, Walk

LEMMA Overlaps ==
    ASSUME walk \in Walk
    PROVE  /\ Overlap \in Walk
           /\ Quiet => /\ ~Overlap.overlapped
                       /\ Overlap.spoiled = walk.spoiled /\ Overlap.seen = walk.seen
                       /\ Overlap.touched = walk.touched /\ Overlap.own = walk.own
           /\ ~Quiet => /\ Overlap.overlapped /\ Overlap.spoiled
                        /\ \A r \in Records : Overlap.own[r] = 0
BY DEF Overlap, Begun, Spoilt, Walk

LEMMA WalksOn ==
    ASSUME walk \in Walk, NEW seen \in SUBSET Records, NEW touched \in SUBSET Records
    PROVE  /\ Walked(seen, touched) \in Walk
           /\ Walked(seen, touched).spoiled = walk.spoiled
           /\ Walked(seen, touched).overlapped = walk.overlapped
           /\ Walked(seen, touched).own = walk.own
           /\ ~walk.spoiled => /\ Walked(seen, touched).seen = walk.seen \cup seen
                               /\ Walked(seen, touched).touched = walk.touched \cup touched
BY DEF Walked, Walk

LEMMA WrittenDown ==
    ASSUME walk \in Walk, NEW r \in Records, row'[r].version \in Nat
    PROVE  /\ Written(r) \in Walk
           /\ Written(r).spoiled = walk.spoiled
           /\ Written(r).overlapped = walk.overlapped
           /\ walk.overlapped => Written(r).own = walk.own
           /\ ~walk.overlapped => Written(r).own = [walk.own EXCEPT ![r] = row'[r].version]
           /\ ~walk.spoiled => /\ Written(r).seen = walk.seen
                               /\ Written(r).touched = walk.touched \cup {r}
<1> DEFINE w == Walked({}, {r})
<1>1. /\ w \in Walk /\ w.spoiled = walk.spoiled /\ w.overlapped = walk.overlapped
      /\ w.own = walk.own
      /\ ~walk.spoiled => w.seen = walk.seen \cup {} /\ w.touched = walk.touched \cup {r}
  <2>1. {} \in SUBSET Records /\ {r} \in SUBSET Records
    OBVIOUS
  <2>. QED
    BY <2>1, WalksOn, Zenon
<1>2. Written(r) = [w EXCEPT !.own[r] = IF walk.overlapped THEN @ ELSE row'[r].version]
  BY DEF Written
<1> HIDE DEF w
<1>3. CASE walk.overlapped
  <2>1. Written(r) = w
    BY <1>1, <1>2, <1>3 DEF Walk
  <2>. QED
    BY <1>1, <1>3, <2>1
<1>4. CASE ~walk.overlapped
  <2>1. Written(r) = [w EXCEPT !.own = [w.own EXCEPT ![r] = row'[r].version]]
    BY <1>1, <1>2, <1>4 DEF Walk
  <2>. QED
    BY <1>1, <1>4, <2>1 DEF Walk
<1>. QED
  BY <1>3, <1>4

LEMMA TypesInit == Init => Types
<1>. SUFFICES ASSUME Init PROVE Types
  OBVIOUS
<1>1. list \in Seq(Records) /\ \A i, j \in 1..Len(list) : list[i] = list[j] => i = j
  BY ListingAssumption DEF Init, ListingInit, IsInjective
<1>2. row \in [Records -> [status : RowStatuses, version : Nat]]
  BY ListingAssumption DEF Init, ListingInit, Absent, RowStatuses
<1>3. changes \in Nat
  BY DEF Init, ListingInit
<1>4. store \in [items : Seq(Item), total : Nat, size : Positive, loading : BOOLEAN,
                 error : BOOLEAN]
  BY Sizes DEF Init
<1>5. page \in Positive
  BY DEF Init, Positive
<1>6. calls \in [Calls -> Call]
  BY DEF Init, Call
<1>7. walk \in Walk
  BY WalkFields DEF Init
<1>. QED
  BY <1>1, <1>2, <1>3, <1>4, <1>5, <1>6, <1>7 DEF Types, Init

LEMMA LoadTypes ==
    ASSUME Types, NEW c \in Calls, NEW p \in Positive, Load(c, p), walk' \in Walk
    PROVE  Types'
<1>1. Listed(p, PageSize, "nothing") \in Call
  BY Sizes DEF Listed, Call, SentLoad, Closings
<1>2. calls' \in [Calls -> Call]
  BY <1>1, Going DEF Load, Send, Types
<1>3. store' \in [items : Seq(Item), total : Nat, size : Positive, loading : BOOLEAN,
                  error : BOOLEAN]
  BY DEF Load, StartLoading, Types
<1>. QED
  BY <1>2, <1>3 DEF Load, Types, listing

\* A step that leaves the table, the page and the dialogs alone.
LEMMA CallTypes ==
    ASSUME Types, NEW c \in Calls, NEW q \in Call, Goto(c, q), walk' \in Walk,
           UNCHANGED <<listing, page_ui>>,
           store' \in [items : Seq(Item), total : Nat, size : Positive, loading : BOOLEAN,
                       error : BOOLEAN]
    PROVE  Types'
<1>1. calls' \in [Calls -> Call]
  BY Going DEF Types
<1>. QED
  BY <1>1 DEF Types, listing, page_ui

LEMMA ClosingTypes ==
    ASSUME Types, NEW c \in Calls, Goto(c, Idle), walk' \in Walk, NEW what, Close(what),
           UNCHANGED listing,
           store' \in [items : Seq(Item), total : Nat, size : Positive, loading : BOOLEAN,
                       error : BOOLEAN]
    PROVE  Types'
<1>1. calls' \in [Calls -> Call]
  BY Going DEF Types, Call
<1>2. /\ pending' = Closed \/ pending' \in [kind : {"transition"}, item : Item, target : Targets]
      /\ showCreate' \in BOOLEAN
  BY DEF Close, Types
<1>. QED
  BY <1>1, <1>2 DEF Types, listing, Close

\* A write of a record keeps the table well-formed and raises its version.
LEMMA Writes ==
    ASSUME Types, NEW r \in Records, NEW status \in RowStatuses, Write(r, status)
    PROVE  /\ row' \in [Records -> [status : RowStatuses, version : Nat]]
           /\ row'[r].status = status /\ row'[r].version = row[r].version + 1
           /\ \A k \in Records : k # r => row'[k] = row[k]
           /\ list' \in Reordered(r) /\ changes' \in Nat
BY DEF Write, Count, Types

LEMMA Inserts ==
    ASSUME Types, NEW r \in Records, Insert(r)
    PROVE  /\ row' \in [Records -> [status : RowStatuses, version : Nat]]
           /\ row'[r].status = row[r].status /\ row'[r].version = row[r].version + 1
           /\ \A k \in Records : k # r => row'[k] = row[k]
           /\ list' \in Reordered(r) /\ changes' \in Nat
<1>1. row[r] \in [status : RowStatuses, version : Nat] /\ row[r].version = 0
  BY DEF Types, Insert
<1>2. row' = [row EXCEPT ![r] = [row[r] EXCEPT !.version = 1]]
  BY DEF Insert
<1>. QED
  BY <1>1, <1>2 DEF Insert, Count, Types

\* What happens to the table when a record is written or created.
Rewritten(r) ==
    /\ row' \in [Records -> [status : RowStatuses, version : Nat]]
    /\ row'[r].version = row[r].version + 1
    /\ \A k \in Records : k # r => row'[k] = row[k]
    /\ list' \in Reordered(r) /\ changes' \in Nat

LEMMA RewrittenTypes ==
    ASSUME Types, NEW r \in Records, Rewritten(r), walk' \in Walk,
           calls' \in [Calls -> Call], UNCHANGED <<store, page_ui>>
    PROVE  Types'
<1>1. list \in Seq(Records) /\ Distinct(list) /\ list' \in Reordered(r)
  BY DEF Types, Distinct, Rewritten
<1>2. list' \in Seq(Records) /\ Distinct(list')
  BY <1>1, MovedUp
<1>. QED
  BY <1>2 DEF Rewritten, Types, page_ui, Distinct

LEMMA TouchRewrites ==
    ASSUME Types, NEW r \in Records, Touch(r)
    PROVE  Rewritten(r) /\ r \in LiveRecords
<1>1. PICK status \in {row[r].status} \cup {e[2] : e \in {g \in Graph : g[1] = row[r].status}} :
          Write(r, status)
  BY DEF Touch
<1>2. status \in RowStatuses
  BY DEF Types, RowStatuses
<1>. QED
  BY <1>1, <1>2, Writes DEF Touch, Rewritten

LEMMA CommitTransitionRewrites ==
    ASSUME Types, NEW c \in Calls, CommitTransition(c)
    PROVE  /\ calls[c] \in Confirmed /\ calls[c].item.record \in Records
           /\ Acceptable(calls[c].item, calls[c].target)
           /\ Rewritten(calls[c].item.record)
           /\ row'[calls[c].item.record].status = calls[c].target
           /\ calls[c].item.record \in LiveRecords
           /\ walk' = Written(calls[c].item.record)
           /\ walk' \in Walk
           /\ Goto(c, [kind |-> "change", stage |-> "done", closes |-> "transition"])
           /\ UNCHANGED <<store, page_ui>>
<1>1. calls[c] \in Confirmed
  BY CallKinds DEF Types, CommitTransition
<1>2. calls[c].item \in Item /\ calls[c].item.record \in Records /\ calls[c].kind = "transition"
  BY <1>1 DEF Confirmed, Item
<1>3. Acceptable(calls[c].item, calls[c].target) /\ Write(calls[c].item.record, calls[c].target)
  BY DEF CommitTransition
<1>4. calls[c].target \in RowStatuses
  BY <1>3 DEF Acceptable, CanTransition, RowStatuses
<1>5. Rewritten(calls[c].item.record) /\ row'[calls[c].item.record].status = calls[c].target
  BY <1>2, <1>3, <1>4, Writes DEF Rewritten
<1>6. row'[calls[c].item.record].version \in Nat
  BY <1>2, <1>5 DEF Rewritten, Types
<1>7. walk' = Written(calls[c].item.record)
  BY DEF CommitTransition
<1>8. walk' \in Walk
  BY <1>2, <1>6, <1>7, WrittenDown DEF Types
<1>. QED
  BY <1>1, <1>2, <1>3, <1>5, <1>7, <1>8 DEF CommitTransition, Answered, Acceptable

LEMMA CommitCreateRewrites ==
    ASSUME Types, NEW c \in Calls, CommitCreate(c)
    PROVE  \E r \in Records :
              /\ Rewritten(r) /\ row'[r].status = row[r].status
              /\ walk' = SpoiltIf(Torn, Written(r))
              /\ Written(r) \in Walk /\ walk' \in Walk
              /\ Goto(c, [kind |-> "change", stage |-> "done", closes |-> "create"])
              /\ UNCHANGED <<store, page_ui>>
<1>1. PICK r \in Records : Insert(r) /\ walk' = SpoiltIf(Torn, Written(r))
  BY DEF CommitCreate
<1>2. Rewritten(r) /\ row'[r].status = row[r].status
  BY <1>1, Inserts DEF Rewritten
<1>3. row'[r].version \in Nat
  BY <1>2 DEF Rewritten, Types
<1>4. Written(r) \in Walk /\ walk' \in Walk
  BY <1>1, <1>3, WrittenDown, WalkFields DEF SpoiltIf, Types
<1>5. calls[c].kind = "create"
  BY DEF CommitCreate
<1>. QED
  BY <1>1, <1>2, <1>4, <1>5 DEF CommitCreate, Answered

LEMMA QueryIs ==
    ASSUME Types, NEW c \in Calls, Query(c)
    PROVE  Load(c, 1) /\ 1 \in Positive /\ walk' \in Walk /\ calls[c] = Idle
BY WalkFields, Overlaps DEF Query, Positive, Types, Load, Send

LEMMA NextPageIs ==
    ASSUME Types, NEW c \in Calls, NextPage(c)
    PROVE  /\ Load(c, page + 1) /\ page + 1 \in Positive /\ walk' = Overlap /\ walk' \in Walk
           /\ calls[c] = Idle
BY Overlaps DEF NextPage, Positive, Types, Load, Send

LEMMA PreviousPageIs ==
    ASSUME Types, NEW c \in Calls, PreviousPage(c)
    PROVE  /\ Load(c, page - 1) /\ page - 1 \in Positive /\ walk' = Overlap /\ walk' \in Walk
           /\ calls[c] = Idle
BY Overlaps DEF PreviousPage, Positive, Types, Load, Send

\* What is sent when a dialog is confirmed.
LEMMA ConfirmTransitionIs ==
    ASSUME Types, NEW c \in Calls, ConfirmTransition(c)
    PROVE  \E q \in Confirmed : Goto(c, q) /\ q.item = pending.item /\ q.kind = "transition"
<1>1. pending \in [kind : {"transition"}, item : Item, target : Targets]
  BY DEF Types, ConfirmTransition
<1> DEFINE q == [kind |-> "transition", stage |-> "sent", item |-> pending.item,
                 target |-> pending.target]
<1>2. q \in Confirmed
  BY <1>1 DEF Confirmed
<1>. QED
  BY <1>2 DEF ConfirmTransition, Send

LEMMA ConfirmTypes ==
    ASSUME Types, NEW c \in Calls, ConfirmTransition(c) \/ ConfirmCreate(c)
    PROVE  Types' /\ walk' = Overlap
<1>1. walk' = Overlap /\ walk' \in Walk /\ UNCHANGED <<listing, page_ui>>
  BY Overlaps DEF ConfirmTransition, ConfirmCreate, Types
<1>2. store' \in [items : Seq(Item), total : Nat, size : Positive, loading : BOOLEAN,
                  error : BOOLEAN]
  BY DEF ConfirmTransition, ConfirmCreate, Busy, Types
<1>3. PICK q \in Call : Goto(c, q)
  <2>1. CASE ConfirmTransition(c)
    BY <2>1, ConfirmTransitionIs DEF Call
  <2>2. CASE ConfirmCreate(c)
    BY <2>2 DEF ConfirmCreate, Send, Call, Creating
  <2>. QED
    BY <2>1, <2>2
<1>. QED
  BY <1>1, <1>2, <1>3, CallTypes

LEMMA OpenTransitionTypes ==
    ASSUME Types, NEW item \in ToSet(store.items), NEW edge \in TRANSITIONS[Key],
           OpenTransition(item, edge[2])
    PROVE  Types' /\ pending' = [kind |-> "transition", item |-> item, target |-> edge[2]]
<1>1. item \in Item
  BY ToSetOfSeq DEF Types
<1>2. edge[2] \in Targets
  BY DEF Targets
<1>3. pending' \in [kind : {"transition"}, item : Item, target : Targets]
  BY <1>1, <1>2 DEF OpenTransition
<1>. QED
  BY <1>3 DEF OpenTransition, Types, listing

LEMMA DialogTypes ==
    ASSUME Types, OpenCreate \/ Cancel
    PROVE  Types'
BY DEF Types, OpenCreate, Cancel, listing

LEMMA CountRowsIs ==
    ASSUME Types, NEW c \in Calls, CountRows(c)
    PROVE  /\ calls[c] \in SentLoad
           /\ \E q \in CountedLoad :
                 /\ Goto(c, q) /\ q.page = calls[c].page /\ q.size = calls[c].size
                 /\ q.closes = calls[c].closes /\ q.total = Len(list)
           /\ UNCHANGED <<listing, store, page_ui, walk>>
<1>1. calls[c] \in SentLoad
  BY CallKinds DEF Types, CountRows
<1> DEFINE q == [kind |-> "load", stage |-> "counted", page |-> calls[c].page,
                 size |-> calls[c].size, closes |-> calls[c].closes, total |-> Len(list)]
<1>2. q \in CountedLoad
  BY <1>1 DEF SentLoad, CountedLoad, Types
<1>. QED
  BY <1>1, <1>2 DEF CountRows

LEMMA FindRowsIs ==
    ASSUME Types, NEW c \in Calls, FindRows(c)
    PROVE  /\ calls[c] \in CountedLoad
           /\ \E q \in AnsweredLoad :
                 /\ Goto(c, q) /\ q.size = calls[c].size
                 /\ q.closes = calls[c].closes /\ q.total = calls[c].total
                 /\ q.items = Page(calls[c].page, calls[c].size)
           /\ UNCHANGED <<listing, store, page_ui, walk>>
<1>1. calls[c] \in CountedLoad
  BY CallKinds DEF Types, FindRows
<1> DEFINE q == [kind |-> "load", stage |-> "answered", size |-> calls[c].size,
                 closes |-> calls[c].closes, total |-> calls[c].total,
                 items |-> Page(calls[c].page, calls[c].size)]
<1>2. calls[c].page \in Positive /\ calls[c].size \in Positive
  BY <1>1 DEF CountedLoad
<1>3. Page(calls[c].page, calls[c].size) \in Seq(Item)
  BY <1>2, PageShows DEF Types
<1>4. q \in AnsweredLoad
  BY <1>1, <1>3 DEF CountedLoad, AnsweredLoad
<1>. QED
  BY <1>1, <1>4 DEF FindRows

LEMMA LoadedIs ==
    ASSUME Types, NEW c \in Calls, Loaded(c)
    PROVE  /\ calls[c] \in AnsweredLoad /\ Goto(c, Idle)
           /\ store' = [items |-> calls[c].items, total |-> calls[c].total,
                        size |-> calls[c].size, loading |-> FALSE, error |-> FALSE]
           /\ {item.record : item \in ToSet(calls[c].items)} = Recs(calls[c].items)
           /\ Recs(calls[c].items) \subseteq Records
           /\ walk' = Walked(Recs(calls[c].items), {}) /\ walk' \in Walk
           /\ Types'
<1>1. calls[c] \in AnsweredLoad
  BY CallKinds DEF Types, Loaded
<1>2. calls[c].items \in Seq(Item)
  BY <1>1 DEF AnsweredLoad
<1>3. {item.record : item \in ToSet(calls[c].items)} = Recs(calls[c].items)
  BY DEF Recs, ToSet
<1>4. Recs(calls[c].items) \subseteq Records
  <2>1. ASSUME NEW s \in Seq(Item) PROVE Recs(s) \subseteq Records
    <3>1. s \in [1..Len(s) -> Item] /\ DOMAIN s = 1..Len(s)
      BY LenProperties
    <3>2. \A i \in DOMAIN s : s[i].record \in Records
      BY <3>1 DEF Item
    <3>. QED
      BY <3>2 DEF Recs
  <2>. QED
    BY <1>2, <2>1
<1>5. walk' = Walked(Recs(calls[c].items), {})
  BY <1>3 DEF Loaded
<1>6. walk' \in Walk
  BY <1>4, <1>5, WalksOn DEF Types
<1>7. store' \in [items : Seq(Item), total : Nat, size : Positive, loading : BOOLEAN,
                  error : BOOLEAN]
  BY <1>1 DEF Loaded, AnsweredLoad
<1>8. Types'
  BY <1>6, <1>7, ClosingTypes DEF Loaded
<1>. QED
  BY <1>1, <1>3, <1>4, <1>5, <1>6, <1>8 DEF Loaded

LEMMA LoadFailedTypes ==
    ASSUME Types, NEW c \in Calls, LoadFailed(c)
    PROVE  Types' /\ walk' = Spoilt(walk)
<1>1. walk' = Spoilt(walk) /\ walk' \in Walk
  BY WalkFields DEF LoadFailed, Types
<1>2. store' \in [items : Seq(Item), total : Nat, size : Positive, loading : BOOLEAN,
                  error : BOOLEAN]
  BY DEF LoadFailed, Failed, Types
<1>. QED
  BY <1>1, <1>2, ClosingTypes DEF LoadFailed

LEMMA ChangedIs ==
    ASSUME Types, NEW c \in Calls, Changed(c)
    PROVE  /\ calls[c] \in Done
           /\ \E q \in SentLoad : /\ Goto(c, q) /\ q.page = 1 /\ q.size = ReloadSize
                                  /\ q.closes = calls[c].closes /\ q.closes # "nothing"
           /\ UNCHANGED <<listing, page_ui, walk>>
           /\ Types'
<1>1. calls[c] \in Done
  BY CallKinds DEF Types, Changed
<1> DEFINE q == Listed(1, ReloadSize, calls[c].closes)
<1>2. q \in SentLoad /\ q.page = 1 /\ q.size = ReloadSize /\ q.closes = calls[c].closes
  BY <1>1, Sizes DEF Listed, SentLoad, Closings, Done, Positive
<1>3. q.closes # "nothing"
  BY <1>1, <1>2 DEF Done
<1>4. store' \in [items : Seq(Item), total : Nat, size : Positive, loading : BOOLEAN,
                  error : BOOLEAN]
  BY DEF Changed, StartLoading, Types
<1>5. Goto(c, q) /\ q \in Call /\ walk' \in Walk /\ UNCHANGED <<listing, page_ui, walk>>
  BY <1>2 DEF Changed, Call, Types
<1>6. Types'
  BY <1>4, <1>5, CallTypes
<1>. QED
  BY <1>1, <1>2, <1>3, <1>5, <1>6

LEMMA ChangeFailedTypes ==
    ASSUME Types, NEW c \in Calls, ChangeFailed(c)
    PROVE  Types' /\ UNCHANGED <<listing, page_ui, walk>>
<1>1. store' \in [items : Seq(Item), total : Nat, size : Positive, loading : BOOLEAN,
                  error : BOOLEAN]
  BY DEF ChangeFailed, Failed, Types
<1>2. Goto(c, Idle) /\ Idle \in Call /\ walk' \in Walk /\ UNCHANGED <<listing, page_ui, walk>>
  BY DEF ChangeFailed, Call, Types
<1>. QED
  BY <1>1, <1>2, CallTypes

LEMMA TouchedByOthers ==
    ASSUME Types, NEW r \in Records, UNCHANGED <<store, page_ui, calls>>,
           \/ Touch(r) /\ walk' = Walked({}, {r})
           \/ Insert(r) /\ walk' = SpoiltIf(Torn, Walked({}, {r}))
    PROVE  /\ Rewritten(r) /\ walk' \in Walk /\ Types'
           /\ \/ r \in LiveRecords /\ walk' = Walked({}, {r})
              \/ walk' = SpoiltIf(Torn, Walked({}, {r}))
<1>1. Walked({}, {r}) \in Walk
  <2>1. {} \in SUBSET Records /\ {r} \in SUBSET Records /\ walk \in Walk
    BY DEF Types
  <2>. QED
    BY <2>1, WalksOn, Zenon
<1>2. walk' \in Walk
  BY <1>1, WalkFields DEF SpoiltIf
<1>3. Rewritten(r)
  BY TouchRewrites, Inserts DEF Rewritten
<1>. QED
  BY <1>2, <1>3, RewrittenTypes, TouchRewrites DEF Types

LEMMA DiscardedByOthers ==
    ASSUME Types, NEW r \in Records, UNCHANGED <<store, page_ui, calls>>,
           Discard(r), walk' = Spoilt(walk)
    PROVE  row' = row /\ walk' \in Walk /\ Types'
<1>1. /\ RemoveFirst(list, r) \in Seq(Records) /\ Distinct(RemoveFirst(list, r))
      /\ list' = RemoveFirst(list, r) /\ row' = row /\ changes' \in Nat
  <2>1. list \in Seq(Records) /\ Distinct(list) /\ changes \in Nat
    BY DEF Types, Distinct
  <2>2. list' = RemoveFirst(list, r) /\ row' = row /\ changes' = changes + 1
    BY DEF Discard, Count
  <2>. QED
    BY <2>1, <2>2, Removed
<1>2. walk' \in Walk
  BY WalkFields DEF Types
<1>. QED
  BY <1>1, <1>2 DEF Types, Distinct, page_ui

LEMMA TypesStep == ASSUME Types, [Next]_vars PROVE Types'
<1>1. ASSUME NEW c \in Calls, Query(c) \/ NextPage(c) \/ PreviousPage(c) PROVE Types'
  BY <1>1, QueryIs, NextPageIs, PreviousPageIs, LoadTypes
<1>2. ASSUME NEW c \in Calls, ConfirmTransition(c) \/ ConfirmCreate(c) PROVE Types'
  BY <1>2, ConfirmTypes
<1>3. ASSUME NEW item \in ToSet(store.items), NEW edge \in TRANSITIONS[Key],
             OpenTransition(item, edge[2])
      PROVE Types'
  BY <1>3, OpenTransitionTypes
<1>4. ASSUME OpenCreate \/ Cancel PROVE Types'
  BY <1>4, DialogTypes
<1>5. ASSUME NEW c \in Calls, CountRows(c) PROVE Types'
  <2>1. PICK q \in CountedLoad : Goto(c, q)
    BY <1>5, CountRowsIs
  <2>. QED
    BY <1>5, <2>1, CountRowsIs, CallTypes DEF Call, Types
<1>6. ASSUME NEW c \in Calls, FindRows(c) PROVE Types'
  <2>1. PICK q \in AnsweredLoad : Goto(c, q)
    BY <1>6, FindRowsIs
  <2>. QED
    BY <1>6, <2>1, FindRowsIs, CallTypes DEF Call, Types
<1>7. ASSUME NEW c \in Calls, CommitTransition(c) PROVE Types'
  <2>1. [kind |-> "change", stage |-> "done", closes |-> "transition"] \in Call
    BY DEF Call, Done
  <2>2. calls' \in [Calls -> Call]
    BY <1>7, <2>1, CommitTransitionRewrites, Going DEF Types
  <2>. QED
    BY <1>7, <2>2, CommitTransitionRewrites, RewrittenTypes
<1>8. ASSUME NEW c \in Calls, CommitCreate(c) PROVE Types'
  <2>1. [kind |-> "change", stage |-> "done", closes |-> "create"] \in Call
    BY DEF Call, Done
  <2>2. calls' \in [Calls -> Call]
    BY <1>8, <2>1, CommitCreateRewrites, Going DEF Types
  <2>. QED
    BY <1>8, <2>2, CommitCreateRewrites, RewrittenTypes
<1>9. ASSUME NEW c \in Calls, Receive(c) PROVE Types'
  BY <1>9, LoadedIs, LoadFailedTypes, ChangedIs, ChangeFailedTypes DEF Receive
<1>10. ASSUME Others PROVE Types'
  BY <1>10, TouchedByOthers, DiscardedByOthers DEF Others
<1>11. ASSUME UNCHANGED vars PROVE Types'
  BY <1>11 DEF vars, Types
<1>. QED
  BY <1>1, <1>2, <1>3, <1>4, <1>5, <1>6, <1>7, <1>8, <1>9, <1>10, <1>11
     DEF Next, User, ServerStep

\* A list without repetitions is as long as it has records.
LEMMA LengthOfDistinct ==
    ASSUME NEW s \in Seq(Records), Distinct(s) PROVE Len(s) = Cardinality(ToSet(s))
<1>1. s \in Bijection(1..Len(s), ToSet(s))
  BY ToSetOfSeq DEF Distinct, Bijection, Injection, Surjection, IsInjective
<1>2. ExistsBijection(1..Len(s), ToSet(s)) /\ Len(s) \in Nat
  BY <1>1 DEF ExistsBijection
<1>. QED
  BY <1>2, FS_NatBijection, FS_CountingElements

LEMMA TypesImply == Types => TypeOK
<1>. SUFFICES ASSUME Types PROVE TypeOK
  OBVIOUS
<1>1. LiveRecords \subseteq Records /\ ToSet(store.items) \subseteq Item
  <2>1. \A S : \A s \in Seq(S) : ToSet(s) \subseteq S
    BY DEF ToSet
  <2>2. list \in Seq(Records) /\ store.items \in Seq(Item)
    BY DEF Types
  <2>. QED
    BY <2>1, <2>2 DEF LiveRecords
<1>2. Len(list) = Cardinality(LiveRecords)
  BY LengthOfDistinct DEF Types, Distinct, LiveRecords
<1>. QED
  BY <1>1, <1>2 DEF Types, TypeOK, Positive

\* The page of any entity keeps its types; what it lists are rows that exist, each
\* of them once.
THEOREM TypeCorrect == Spec => []TypeOK
<1>. QED
  BY TypesInit, TypesStep, TypesImply, PTL DEF Spec
-----------------------------------------------------------------------------
(* The sign that something is awaited                                      *)

LEMMA NotQuiet ==
    ASSUME Types, NEW c \in Calls, NEW q \in Call, Goto(c, q), q # Idle PROVE ~Quiet'
BY Going DEF Types, Quiet

LEMMA KindsAreAwaited ==
    \A q \in SentLoad \cup CountedLoad \cup AnsweredLoad \cup Confirmed \cup Creating \cup Done :
        q \in Call /\ q # Idle
BY DEF SentLoad, CountedLoad, AnsweredLoad, Confirmed, Creating, Done, Idle, Call

LEMMA LoadIsSent ==
    ASSUME NEW c \in Calls, NEW p \in Positive, Load(c, p)
    PROVE  /\ calls[c] = Idle /\ NoDialog
           /\ \E q \in SentLoad : /\ Goto(c, q) /\ q.page = p /\ q.size = PageSize
                                  /\ q.closes = "nothing"
           /\ page' = p /\ UNCHANGED <<listing, pending, showCreate>>
           /\ store' = [store EXCEPT !.loading = TRUE, !.error = FALSE]
<1> DEFINE q == Listed(p, PageSize, "nothing")
<1>1. q \in SentLoad /\ q.page = p /\ q.size = PageSize /\ q.closes = "nothing"
  BY Sizes DEF Listed, SentLoad, Closings
<1>. QED
  BY <1>1 DEF Load, Send, StartLoading

LEMMA SpinnerStep == ASSUME Types, SpinnerEnds, [Next]_vars PROVE SpinnerEnds'
<1>1. ASSUME NEW c \in Calls, NEW p \in Positive, Load(c, p) PROVE ~Quiet'
  BY <1>1, LoadIsSent, NotQuiet, KindsAreAwaited
<1>2. ASSUME NEW c \in Calls, ConfirmTransition(c) \/ ConfirmCreate(c) PROVE ~Quiet'
  <2>1. CASE ConfirmTransition(c)
    BY <2>1, ConfirmTransitionIs, NotQuiet, KindsAreAwaited
  <2>2. CASE ConfirmCreate(c)
    <3>1. [kind |-> "create", stage |-> "sent"] \in Creating
      BY DEF Creating
    <3>. QED
      BY <2>2, <3>1, NotQuiet, KindsAreAwaited DEF ConfirmCreate, Send
  <2>. QED
    BY <1>2, <2>1, <2>2
<1>3. ASSUME UNCHANGED <<store, calls>> PROVE SpinnerEnds'
  BY <1>3 DEF SpinnerEnds, Quiet
<1>4. ASSUME NEW c \in Calls, CountRows(c) \/ FindRows(c) PROVE ~Quiet'
  <2>1. PICK q \in CountedLoad \cup AnsweredLoad : Goto(c, q)
    BY <1>4, CountRowsIs, FindRowsIs
  <2>. QED
    BY <2>1, NotQuiet, KindsAreAwaited
<1>5. ASSUME NEW c \in Calls, CommitTransition(c) \/ CommitCreate(c) PROVE ~Quiet'
  <2>1. \A k \in {"transition", "create"} : [kind |-> "change", stage |-> "done", closes |-> k] \in Done
    BY DEF Done
  <2>2. PICK q \in Done : Goto(c, q)
    BY <1>5, <2>1, CommitTransitionRewrites, CommitCreateRewrites
  <2>. QED
    BY <2>2, NotQuiet, KindsAreAwaited
<1>6. ASSUME NEW c \in Calls, Receive(c) PROVE SpinnerEnds'
  <2>1. CASE Loaded(c)
    BY <2>1 DEF Loaded, SpinnerEnds
  <2>2. CASE LoadFailed(c)
    BY <2>2 DEF LoadFailed, Failed, SpinnerEnds, Types
  <2>3. CASE Changed(c)
    BY <2>3, ChangedIs, NotQuiet, KindsAreAwaited DEF SpinnerEnds
  <2>4. CASE ChangeFailed(c)
    BY <2>4 DEF ChangeFailed, Failed, SpinnerEnds, Types
  <2>. QED
    BY <1>6, <2>1, <2>2, <2>3, <2>4 DEF Receive
<1>7. ASSUME NEW c \in Calls, Query(c) \/ NextPage(c) \/ PreviousPage(c) PROVE ~Quiet'
  BY <1>1, <1>7, QueryIs, NextPageIs, PreviousPageIs
<1>. QED
  BY <1>2, <1>3, <1>4, <1>5, <1>6, <1>7
     DEF Next, User, ServerStep, SpinnerEnds, OpenTransition, OpenCreate, Cancel, Others, vars

\* Whatever becomes of calls that overlap, whatever fails and however often a
\* dialog is confirmed, the page does not go on loading when nothing is awaited.
THEOREM SpinnerAlwaysEnds == Spec => []SpinnerEnds
<1>1. Init => SpinnerEnds
  BY DEF Init, SpinnerEnds
<1>. QED
  BY <1>1, TypesInit, TypesStep, SpinnerStep, PTL DEF Spec
-----------------------------------------------------------------------------
(* What is confirmed is what was seen                                      *)

\* What call q has at hand.
CallFits(q, rw) ==
    /\ q.kind = "transition" => Fits(q.item, rw)
    /\ \A item \in AnsweredWith(q) : Fits(item, rw)

LEMMA FitsRewritten ==
    ASSUME Types, NEW r \in Records, Rewritten(r), NEW item \in Item, Fits(item, row)
    PROVE  Fits(item, row')
<1>1. /\ item.record \in Records /\ item.version \in Nat
      /\ row[r].version \in Nat /\ row'[r].version = row[r].version + 1
  BY DEF Item, Types, Rewritten
<1>2. CASE item.record = r
  BY <1>1, <1>2 DEF Fits
<1>3. CASE item.record # r
  BY <1>1, <1>3 DEF Fits, Rewritten
<1>. QED
  BY <1>2, <1>3

LEMMA AtHand ==
    ASSUME NEW q \in Call
    PROVE  /\ q.kind = "transition" => q.item \in Item
           /\ AnsweredWith(q) \subseteq Item
<1>1. q.kind = "transition" => q.item \in Item
  BY CallKinds DEF Confirmed
<1>2. CASE q.kind = "load" /\ q.stage = "answered"
  <2>1. q.items \in Seq(Item)
    BY <1>2, CallKinds DEF AnsweredLoad
  <2>2. ToSet(q.items) \subseteq Item
    BY <2>1 DEF ToSet
  <2>. QED
    BY <1>1, <1>2, <2>2 DEF AnsweredWith
<1>3. CASE ~(q.kind = "load" /\ q.stage = "answered")
  BY <1>1, <1>3 DEF AnsweredWith
<1>. QED
  BY <1>2, <1>3

LEMMA NothingAtHand ==
    ASSUME NEW q \in {Idle} \cup SentLoad \cup CountedLoad \cup Creating \cup Done
    PROVE  q.kind # "transition" /\ AnsweredWith(q) = {} /\ \A rw : CallFits(q, rw)
BY DEF AnsweredWith, CallFits, Idle, SentLoad, CountedLoad, Creating, Done

\* A step of one call that leaves the rows as they are.
LEMMA CallsFit ==
    ASSUME Types, Fitting, NEW c \in Calls, NEW q \in Call, Goto(c, q), row' = row, CallFits(q, row)
    PROVE  \A d \in Calls : CallFits(calls'[d], row')
<1>1. TAKE d \in Calls
<1>2. CASE d = c
  BY <1>2, Going DEF Types
<1>3. CASE d # c
  <2>1. calls'[d] = calls[d]
    BY <1>3, Going DEF Types
  <2>. QED
    BY <2>1 DEF Fitting, CallFits
<1>. QED
  BY <1>2, <1>3

LEMMA ShownFits == ASSUME Fitting PROVE \A item \in ToSet(store.items) : Fits(item, row)
BY DEF Fitting

LEMMA RewrittenFitting ==
    ASSUME Types, Fitting, NEW r \in Records, Rewritten(r), UNCHANGED <<store, page_ui>>,
           \A d \in Calls : \/ calls'[d] = calls[d]
                            \/ calls'[d] \in Done
    PROVE  Fitting'
<1>1. ASSUME NEW item \in ToSet(store.items) PROVE Fits(item, row')
  <2>1. ToSet(store.items) \subseteq Item
    BY TypesImply DEF TypeOK
  <2>. QED
    BY <1>1, <2>1, FitsRewritten DEF Fitting
<1>2. pending # Closed => Fits(pending.item, row')
  BY FitsRewritten DEF Fitting, Types
<1>3. ASSUME NEW d \in Calls PROVE CallFits(calls'[d], row')
  <2>1. CASE calls'[d] = calls[d]
    <3>1. CallFits(calls[d], row) /\ calls[d] \in Call
      BY DEF Fitting, CallFits, Types
    <3>. QED
      BY <2>1, <3>1, AtHand, FitsRewritten DEF CallFits
  <2>2. CASE calls'[d] \in Done
    BY <2>2, NothingAtHand
  <2>. QED
    BY <1>3, <2>1, <2>2
<1>. QED
  BY <1>1, <1>2, <1>3 DEF Fitting, CallFits, page_ui

LEMMA FittingStep == ASSUME Types, Fitting, [Next]_vars PROVE Fitting'
<1>1. ASSUME NEW c \in Calls, NEW p \in Positive, Load(c, p) PROVE Fitting'
  <2>1. PICK q \in SentLoad : Goto(c, q)
    BY <1>1, LoadIsSent
  <2>2. \A d \in Calls : CallFits(calls'[d], row')
    BY <1>1, <2>1, NothingAtHand, KindsAreAwaited, CallsFit, LoadIsSent DEF listing
  <2>3. store'.items = store.items /\ row' = row /\ pending' = pending
    BY <1>1, LoadIsSent DEF Types, listing
  <2>. QED
    BY <2>2, <2>3 DEF Fitting, CallFits
<1>2. ASSUME NEW c \in Calls, ConfirmTransition(c) PROVE Fitting'
  <2>1. PICK q \in Confirmed : Goto(c, q) /\ q.item = pending.item /\ q.kind = "transition"
    BY <1>2, ConfirmTransitionIs
  <2>2. /\ store'.items = store.items /\ row' = row /\ pending' = pending /\ pending # Closed
    BY <1>2 DEF ConfirmTransition, Busy, Types, listing, page_ui
  <2>3. CallFits(q, row)
    BY <2>1, <2>2 DEF Fitting, CallFits, AnsweredWith
  <2>4. \A d \in Calls : CallFits(calls'[d], row')
    BY <2>1, <2>2, <2>3, KindsAreAwaited, CallsFit
  <2>. QED
    BY <2>2, <2>4 DEF Fitting, CallFits
<1>3. ASSUME NEW c \in Calls, ConfirmCreate(c) PROVE Fitting'
  <2>1. [kind |-> "create", stage |-> "sent"] \in Creating
    BY DEF Creating
  <2>2. /\ store'.items = store.items /\ row' = row /\ pending' = pending
        /\ Goto(c, [kind |-> "create", stage |-> "sent"])
    BY <1>3 DEF ConfirmCreate, Send, Busy, Types, listing, page_ui
  <2>3. \A d \in Calls : CallFits(calls'[d], row')
    BY <2>1, <2>2, KindsAreAwaited, NothingAtHand, CallsFit
  <2>. QED
    BY <2>2, <2>3 DEF Fitting, CallFits
<1>4. ASSUME NEW item \in ToSet(store.items), NEW edge \in TRANSITIONS[Key],
             OpenTransition(item, edge[2])
      PROVE Fitting'
  <2>1. pending'.item = item /\ Fits(item, row) /\ UNCHANGED <<listing, store, calls>>
    BY <1>4, OpenTransitionTypes, ShownFits DEF OpenTransition
  <2>. QED
    BY <2>1 DEF Fitting, listing
<1>5. ASSUME OpenCreate \/ Cancel PROVE Fitting'
  BY <1>5 DEF OpenCreate, Cancel, Fitting, listing
<1>6. ASSUME NEW c \in Calls, CountRows(c) PROVE Fitting'
  <2>1. PICK q \in CountedLoad : Goto(c, q)
    BY <1>6, CountRowsIs
  <2>2. UNCHANGED <<row, store, pending>>
    BY <1>6, CountRowsIs DEF listing, page_ui
  <2>3. \A d \in Calls : CallFits(calls'[d], row')
    BY <2>1, <2>2, NothingAtHand, KindsAreAwaited, CallsFit
  <2>. QED
    BY <2>2, <2>3 DEF Fitting, CallFits
<1>7. ASSUME NEW c \in Calls, FindRows(c) PROVE Fitting'
  <2>1. PICK q \in AnsweredLoad : Goto(c, q) /\ q.items = Page(calls[c].page, calls[c].size)
    BY <1>7, FindRowsIs
  <2>2. UNCHANGED <<row, store, pending>>
    BY <1>7, FindRowsIs DEF listing, page_ui
  <2>3. calls[c].page \in Positive /\ calls[c].size \in Positive
    BY <1>7, FindRowsIs DEF CountedLoad
  <2>4. \A item \in ToSet(q.items) : /\ item.record \in Records
                                     /\ item.version = row[item.record].version
                                     /\ item.status = row[item.record].status
    <3>1. /\ row \in [Records -> [status : RowStatuses, version : Nat]]
          /\ list \in Seq(Records)
      BY DEF Types
    <3>2. \A item \in ToSet(Page(calls[c].page, calls[c].size)) :
              /\ item.record \in Records
              /\ item.version = row[item.record].version
              /\ item.status = row[item.record].status
      BY <2>3, <3>1, PageShows
    <3>. QED
      BY <2>1, <3>2
  <2>5. \A r \in Records : row[r].version \in Nat
    BY DEF Types
  <2>6. CallFits(q, row)
    BY <2>4, <2>5 DEF CallFits, AnsweredLoad, AnsweredWith, Fits
  <2>7. \A d \in Calls : CallFits(calls'[d], row')
    BY <2>1, <2>2, <2>6, KindsAreAwaited, CallsFit
  <2>. QED
    BY <2>2, <2>7 DEF Fitting, CallFits
<1>8. ASSUME NEW c \in Calls, CommitTransition(c) \/ CommitCreate(c) PROVE Fitting'
  <2>1. \A k \in {"transition", "create"} : [kind |-> "change", stage |-> "done", closes |-> k] \in Done
    BY DEF Done
  <2>2. PICK q \in Done : Goto(c, q)
    BY <1>8, <2>1, CommitTransitionRewrites, CommitCreateRewrites
  <2>3. \A d \in Calls : calls'[d] = calls[d] \/ calls'[d] \in Done
    BY <2>2, Going, KindsAreAwaited DEF Types
  <2>4. PICK r \in Records : Rewritten(r) /\ UNCHANGED <<store, page_ui>>
    BY <1>8, CommitTransitionRewrites, CommitCreateRewrites
  <2>. QED
    BY <2>3, <2>4, RewrittenFitting
<1>9. ASSUME NEW c \in Calls, NEW what, Goto(c, Idle), Close(what), UNCHANGED listing,
             \A item \in ToSet(store'.items) : Fits(item, row)
      PROVE Fitting'
  <2>1. row' = row /\ pending' \in {Closed, pending}
    BY <1>9 DEF listing, Close
  <2>2. \A d \in Calls : CallFits(calls'[d], row')
    BY <1>9, <2>1, NothingAtHand, CallsFit DEF Call
  <2>. QED
    BY <1>9, <2>1, <2>2 DEF Fitting, CallFits
<1>10. ASSUME NEW c \in Calls, Loaded(c) PROVE Fitting'
  <2>1. store'.items = calls[c].items
    BY <1>10, LoadedIs
  <2>2. \A item \in ToSet(calls[c].items) : Fits(item, row)
    BY <1>10 DEF Loaded, Fitting, AnsweredWith
  <2>. QED
    BY <1>9, <1>10, <2>1, <2>2 DEF Loaded
<1>11. ASSUME NEW c \in Calls, LoadFailed(c) PROVE Fitting'
  <2>1. store'.items = store.items
    BY <1>11 DEF LoadFailed, Failed, Types
  <2>. QED
    BY <1>9, <1>11, <2>1, ShownFits DEF LoadFailed
<1>12. ASSUME NEW c \in Calls, Changed(c) PROVE Fitting'
  <2>1. PICK q \in SentLoad : Goto(c, q)
    BY <1>12, ChangedIs
  <2>2. row' = row /\ store'.items = store.items /\ pending' = pending
    BY <1>12 DEF Changed, StartLoading, Types, listing, page_ui
  <2>3. \A d \in Calls : CallFits(calls'[d], row')
    BY <2>1, <2>2, NothingAtHand, KindsAreAwaited, CallsFit
  <2>. QED
    BY <2>2, <2>3 DEF Fitting, CallFits
<1>13. ASSUME NEW c \in Calls, ChangeFailed(c) PROVE Fitting'
  <2>1. Goto(c, Idle) /\ row' = row /\ store'.items = store.items /\ pending' = pending
    BY <1>13 DEF ChangeFailed, Failed, Types, listing, page_ui
  <2>2. \A d \in Calls : CallFits(calls'[d], row')
    BY <2>1, NothingAtHand, CallsFit DEF Call
  <2>. QED
    BY <2>1, <2>2 DEF Fitting, CallFits
<1>14. ASSUME Others PROVE Fitting'
  <2>1. PICK r \in Records :
            \/ Touch(r) /\ walk' = Walked({}, {r})
            \/ Insert(r) /\ walk' = SpoiltIf(Torn, Walked({}, {r}))
            \/ Discard(r) /\ walk' = Spoilt(walk)
    BY <1>14 DEF Others
  <2>2. UNCHANGED <<store, page_ui, calls>>
    BY <1>14 DEF Others
  <2>3. CASE Discard(r)
    BY <2>2, <2>3 DEF Discard, Fitting, page_ui
  <2>4. CASE Rewritten(r)
    BY <2>2, <2>4, RewrittenFitting
  <2>. QED
    BY <2>1, <2>2, <2>3, <2>4, TouchedByOthers
<1>15. ASSUME UNCHANGED vars PROVE Fitting'
  BY <1>15 DEF vars, Fitting
<1>16. ASSUME NEW c \in Calls, Query(c) \/ NextPage(c) \/ PreviousPage(c) PROVE Fitting'
  BY <1>1, <1>16, QueryIs, NextPageIs, PreviousPageIs
<1>. QED
  BY <1>2, <1>3, <1>4, <1>5, <1>6, <1>7, <1>8, <1>10, <1>11, <1>12, <1>13, <1>14, <1>15, <1>16
     DEF Next, User, ServerStep, Receive

\* A call that turns from a transition into a change has just been committed.
LEMMA TransitionCommits ==
    ASSUME Types, Next, NEW c \in Calls, calls[c].kind = "transition", calls'[c].kind = "change"
    PROVE  CommitTransition(c)
<1>1. calls'[c] # calls[c]
  OBVIOUS
<1>2. calls[c] # Idle
  BY DEF Idle
<1>3. ASSUME NEW d \in Calls, NEW q, Goto(d, q) PROVE d = c /\ calls'[c] = q
  BY <1>1, <1>3 DEF Goto, Types
<1>4. ASSUME NEW d \in Calls, NEW p \in Positive, Load(d, p) PROVE FALSE
  BY <1>2, <1>3, <1>4, LoadIsSent
<1>5. ASSUME NEW d \in Calls, Query(d) \/ NextPage(d) \/ PreviousPage(d) PROVE FALSE
  BY <1>4, <1>5, QueryIs, NextPageIs, PreviousPageIs
<1>6. ASSUME NEW d \in Calls, ConfirmTransition(d) \/ ConfirmCreate(d) PROVE FALSE
  BY <1>2, <1>3, <1>6 DEF ConfirmTransition, ConfirmCreate, Send
<1>7. ASSUME NEW d \in Calls, CountRows(d) \/ FindRows(d) \/ CommitCreate(d) PROVE FALSE
  BY <1>3, <1>7 DEF CountRows, FindRows, CommitCreate, Answered
<1>8. ASSUME NEW d \in Calls, Receive(d) PROVE FALSE
  BY <1>3, <1>8 DEF Receive, Loaded, LoadFailed, Changed, ChangeFailed, Listed, Idle
<1>9. ASSUME NEW d \in Calls, CommitTransition(d) PROVE d = c
  BY <1>3, <1>9 DEF CommitTransition, Answered
<1>. QED
  BY <1>1, <1>5, <1>6, <1>7, <1>8, <1>9
     DEF Next, User, ServerStep, OpenTransition, OpenCreate, Cancel, Others

\* However often a dialog is confirmed, and whatever others do meanwhile, a
\* transition takes the record from the status that the user saw to the one
\* confirmed.
THEOREM TransitionsAsConfirmed == Spec => ConfirmedFromSeen
<1>1. Init => Fitting
  <2>. SUFFICES ASSUME Init PROVE Fitting
    OBVIOUS
  <2>1. store.items = <<>> /\ pending = Closed /\ \A c \in Calls : calls[c] = Idle
    BY DEF Init
  <2>2. ToSet(store.items) = {}
    BY <2>1 DEF ToSet
  <2>. QED
    BY <2>1, <2>2, NothingAtHand DEF Fitting
<1>2. ASSUME Types, Fitting, Next, NEW c \in Calls,
             calls[c].kind = "transition", calls'[c].kind = "change"
      PROVE  /\ row[calls[c].item.record].status = calls[c].item.status
             /\ row'[calls[c].item.record].status = calls[c].target
  <2>1. CommitTransition(c)
    BY <1>2, TransitionCommits
  <2>2. Fits(calls[c].item, row)
    BY <1>2 DEF Fitting
  <2>. QED
    BY <1>2, <2>1, <2>2, CommitTransitionRewrites DEF Fits, Acceptable
<1>3. Types /\ Fitting /\ [Next]_vars =>
        [\A c \in Calls :
            calls[c].kind = "transition" /\ calls'[c].kind = "change" /\ row' # row
            => LET item == calls[c].item
               IN /\ row[item.record].status = item.status
                  /\ row'[item.record].status = calls[c].target]_vars
  BY <1>2
<1>. QED
  BY <1>1, <1>3, TypesInit, TypesStep, FittingStep, PTL DEF Spec, ConfirmedFromSeen
-----------------------------------------------------------------------------
(* The page shows what it wrote                                            *)

\* What a call has found is not older than what this page wrote.
Recent(q, own) == \A item \in AnsweredWith(q) : item.version >= own[item.record]

\* The same of the list, once it is settled.
ShownRecent(st, cs, own) ==
    ~st.error /\ (\A c \in Calls : ~Relists(cs[c])) =>
        \A item \in ToSet(st.items) : item.version >= own[item.record]

LEMMA AllItems ==
    ASSUME Types
    PROVE  /\ \A item \in ToSet(store.items) : item \in Item
           /\ \A c \in Calls : \A item \in AnsweredWith(calls[c]) : item \in Item
BY TypesImply, AtHand DEF TypeOK, Types

\* A step of one call that changes no row and no history of what was written.
LEMMA OwnKept ==
    ASSUME Types, OwnInv, NEW c \in Calls, NEW q \in Call, Goto(c, q),
           calls[c] # Idle \/ q = Idle,
           row' = row, walk'.own = walk.own, walk'.overlapped = walk.overlapped,
           Recent(q, walk.own), ShownRecent(store', calls', walk.own)
    PROVE  OwnInv'
<1>1. calls'[c] = q /\ \A d \in Calls : d # c => calls'[d] = calls[d]
  BY Going DEF Types
<1>2. ASSUME ~walk.overlapped PROVE Alone'
  BY <1>1, <1>2 DEF OwnInv, Alone
<1>3. \A d \in Calls : Recent(calls'[d], walk.own)
  BY <1>1 DEF OwnInv, Recent
<1>. QED
  BY <1>2, <1>3 DEF OwnInv, Recent, ShownRecent

\* A call is sent: alone, or while others are awaited.
LEMMA OwnWhenSent ==
    ASSUME Types, OwnInv, Types', NEW c \in Calls, NEW q \in Call, Goto(c, q), calls[c] = Idle,
           row' = row, AnsweredWith(q) = {},
           walk' = Overlap \/ (Quiet /\ walk' = Begun),
           store'.items = store.items, Relists(q) \/ store'.error = store.error
    PROVE  OwnInv'
<1>1. calls'[c] = q /\ \A d \in Calls : d # c => calls'[d] = calls[d]
  BY Going DEF Types
<1>2. /\ \A item \in ToSet(store'.items) : item \in Item
      /\ \A d \in Calls : \A item \in AnsweredWith(calls'[d]) : item \in Item
  <2>1. \A d \in Calls : AnsweredWith(calls'[d]) \subseteq Item
    BY AtHand DEF Types
  <2>. QED
    BY <2>1, AllItems
<1>3. \A item \in Item : item.record \in Records /\ item.version \in Nat
  BY DEF Item
<1>4. \A r \in Records : row[r].version \in Nat /\ walk.own[r] \in Nat
  BY DEF Types, Walk
<1>5. ASSUME \A r \in Records : walk'.own[r] = 0, ~walk'.overlapped => Alone' PROVE OwnInv'
  <2>1. \A item \in Item : item.version >= walk'.own[item.record]
    BY <1>3, <1>5
  <2>2. \A r \in Records : walk'.own[r] <= row'[r].version
    BY <1>4, <1>5
  <2>. QED
    BY <1>2, <1>5, <2>1, <2>2 DEF OwnInv
<1>6. ASSUME Quiet PROVE Alone' /\ \A d \in Calls : d # c => calls'[d] = Idle
  BY <1>1, <1>6 DEF Quiet, Alone
<1>7. CASE ~Quiet
  <2>1. walk' = Overlap /\ walk'.overlapped /\ \A r \in Records : walk'.own[r] = 0
    BY <1>7, Overlaps DEF Types
  <2>. QED
    BY <1>5, <2>1
<1>8. CASE Quiet /\ walk' = Begun
  BY <1>5, <1>6, <1>8, WalkFields
<1>9. CASE Quiet /\ walk' = Overlap
  <2>1. walk'.own = walk.own /\ ~walk'.overlapped
    BY <1>9, Overlaps DEF Types
  <2>2. \A d \in Calls : AnsweredWith(calls'[d]) = {}
    BY <1>1, <1>6, <1>9, NothingAtHand
  <2>3. \A d \in Calls : ~Relists(calls[d])
    BY <1>9 DEF Quiet, Idle, Relists
  <2>4. (\A d \in Calls : ~Relists(calls'[d])) => store'.error = store.error
    BY <1>1
  <2>. QED
    BY <1>6, <1>9, <2>1, <2>2, <2>3, <2>4 DEF OwnInv
<1>. QED
  BY <1>7, <1>8, <1>9

\* This page writes record r.
LEMMA OwnWhenCommitted ==
    ASSUME Types, OwnInv, NEW c \in Calls, calls[c] # Idle, NEW q \in Done, Goto(c, q),
           NEW r \in Records, Rewritten(r),
           walk'.own = Written(r).own, walk'.overlapped = walk.overlapped,
           UNCHANGED store
    PROVE  OwnInv'
<1>1. calls'[c] = q /\ \A d \in Calls : d # c => calls'[d] = calls[d]
  BY Going, KindsAreAwaited DEF Types
<1>2. Relists(q) /\ AnsweredWith(q) = {} /\ q # Idle
  BY NothingAtHand, KindsAreAwaited DEF Done, Relists
<1>3. \A k \in Records : row[k].version \in Nat /\ walk.own[k] \in Nat
  BY DEF Types, Walk
<1>4. row'[r].version = row[r].version + 1 /\ \A k \in Records : k # r => row'[k] = row[k]
  BY DEF Rewritten
<1>5. \A k \in Records : walk.own[k] <= row[k].version
  BY DEF OwnInv
<1>6. \A k \in Records : walk.own[k] <= row'[k].version
  BY <1>3, <1>4, <1>5
<1>7. row'[r].version \in Nat
  BY <1>3, <1>4
<1>8. CASE walk.overlapped
  <2>1. walk'.own = walk.own
    BY <1>7, <1>8, WrittenDown DEF Types
  <2>. QED
    BY <1>1, <1>2, <1>6, <1>8, <2>1 DEF OwnInv
<1>9. CASE ~walk.overlapped
  <2>1. walk'.own = [walk.own EXCEPT ![r] = row'[r].version]
    BY <1>7, <1>9, WrittenDown DEF Types
  <2>2. \A k \in Records : walk'.own[k] <= row'[k].version
    BY <1>6, <1>7, <2>1 DEF Types, Walk
  <2>3. \A d \in Calls : d # c => calls[d] = Idle
    BY <1>9 DEF OwnInv, Alone
  <2>4. Alone' /\ \A d \in Calls : AnsweredWith(calls'[d]) = {}
    BY <1>1, <1>2, <2>3, NothingAtHand DEF Alone
  <2>. QED
    BY <1>1, <1>2, <1>9, <2>2, <2>4 DEF OwnInv
<1>. QED
  BY <1>8, <1>9

\* Others write, or nobody does.
LEMMA OwnOfOthers ==
    ASSUME Types, OwnInv, UNCHANGED <<store, calls>>,
           walk'.own = walk.own, walk'.overlapped = walk.overlapped,
           row' = row \/ \E r \in Records : Rewritten(r)
    PROVE  OwnInv'
<1>1. \A k \in Records : row[k].version \in Nat /\ walk.own[k] \in Nat
  BY DEF Types, Walk
<1>2. \A k \in Records : walk.own[k] <= row'[k].version
  BY <1>1 DEF OwnInv, Rewritten
<1>. QED
  BY <1>2 DEF OwnInv, Alone

LEMMA OwnStep == ASSUME Types, Types', OwnInv, [Next]_vars PROVE OwnInv'
<1>1. ASSUME NEW c \in Calls, NEW p \in Positive, Load(c, p),
             walk' = Overlap \/ (Quiet /\ walk' = Begun)
      PROVE OwnInv'
  <2>1. PICK q \in SentLoad : Goto(c, q)
    BY <1>1, LoadIsSent
  <2>2. q \in Call /\ AnsweredWith(q) = {} /\ Relists(q)
    BY NothingAtHand, KindsAreAwaited DEF SentLoad, Relists
  <2>3. /\ calls[c] = Idle /\ row' = row
        /\ store' = [store EXCEPT !.loading = TRUE, !.error = FALSE]
    BY <1>1 DEF Load, Send, StartLoading, listing
  <2>4. store'.items = store.items
    BY <2>3 DEF Types
  <2>. QED
    BY <1>1, <2>1, <2>2, <2>3, <2>4, OwnWhenSent
<1>2. ASSUME NEW c \in Calls, Query(c) \/ NextPage(c) \/ PreviousPage(c) PROVE OwnInv'
  <2>1. walk' = Overlap \/ (Quiet /\ walk' = Begun)
    BY <1>2 DEF Query, NextPage, PreviousPage
  <2>. QED
    BY <1>1, <1>2, <2>1, QueryIs, NextPageIs, PreviousPageIs
<1>3. ASSUME NEW c \in Calls, ConfirmTransition(c) \/ ConfirmCreate(c) PROVE OwnInv'
  <2>1. PICK q \in Confirmed \cup Creating : Goto(c, q)
    BY <1>3, ConfirmTransitionIs DEF ConfirmCreate, Send, Creating
  <2>2. q \in Call /\ AnsweredWith(q) = {}
    BY KindsAreAwaited DEF Confirmed, Creating, AnsweredWith
  <2>3. /\ calls[c] = Idle /\ row' = row /\ store'.items = store.items
        /\ store'.error = store.error /\ walk' = Overlap
    BY <1>3 DEF ConfirmTransition, ConfirmCreate, Send, Busy, Types, listing
  <2>. QED
    BY <2>1, <2>2, <2>3, OwnWhenSent
<1>4. ASSUME UNCHANGED <<row, store, calls, walk>> PROVE OwnInv'
  BY <1>4, OwnOfOthers
<1>5. ASSUME NEW c \in Calls, CountRows(c) PROVE OwnInv'
  <2>1. PICK q \in CountedLoad : Goto(c, q)
    BY <1>5, CountRowsIs
  <2>2. q \in Call /\ AnsweredWith(q) = {} /\ Relists(q)
    BY NothingAtHand, KindsAreAwaited DEF CountedLoad, Relists
  <2>3. calls'[c] = q
    BY <2>1, <2>2, Going DEF Types
  <2>4. calls[c] # Idle /\ row' = row /\ walk' = walk
    BY <1>5 DEF CountRows, Idle, listing
  <2>. QED
    BY <2>1, <2>2, <2>3, <2>4, OwnKept DEF Recent, ShownRecent
<1>6. ASSUME NEW c \in Calls, FindRows(c) PROVE OwnInv'
  <2>1. PICK q \in AnsweredLoad : Goto(c, q) /\ q.items = Page(calls[c].page, calls[c].size)
    BY <1>6, FindRowsIs
  <2>2. q \in Call /\ Relists(q)
    BY KindsAreAwaited DEF AnsweredLoad, Relists
  <2>3. calls'[c] = q
    BY <2>1, <2>2, Going DEF Types
  <2>4. calls[c] # Idle /\ row' = row /\ walk' = walk
    BY <1>6 DEF FindRows, Idle, listing
  <2>5. calls[c].page \in Positive /\ calls[c].size \in Positive
    BY <1>6, FindRowsIs DEF CountedLoad
  <2>6. /\ row \in [Records -> [status : RowStatuses, version : Nat]]
        /\ list \in Seq(Records)
    BY DEF Types
  <2>7. \A item \in ToSet(Page(calls[c].page, calls[c].size)) :
            item.record \in Records /\ item.version = row[item.record].version
    BY <2>5, <2>6, PageShows
  <2>8. \A r \in Records : /\ walk.own[r] <= row[r].version
                           /\ walk.own[r] \in Nat /\ row[r].version \in Nat
    BY DEF OwnInv, Types, Walk
  <2>9. Recent(q, walk.own)
    BY <2>1, <2>7, <2>8 DEF Recent, AnsweredWith, AnsweredLoad
  <2>. QED
    BY <2>1, <2>2, <2>3, <2>4, <2>9, OwnKept DEF ShownRecent
<1>7. ASSUME NEW c \in Calls, CommitTransition(c) PROVE OwnInv'
  <2> DEFINE q == [kind |-> "change", stage |-> "done", closes |-> "transition"]
             r == calls[c].item.record
  <2>1. q \in Done /\ calls[c] # Idle
    BY <1>7 DEF Done, CommitTransition, Idle
  <2>2. /\ r \in Records /\ Rewritten(r) /\ Goto(c, q) /\ UNCHANGED store
        /\ walk' = Written(r)
    BY <1>7, CommitTransitionRewrites
  <2> HIDE DEF q, r
  <2>3. row'[r].version \in Nat
    BY <2>2 DEF Types
  <2>4. walk'.overlapped = walk.overlapped
    BY <2>2, <2>3, WrittenDown DEF Types
  <2>. QED
    BY <2>1, <2>2, <2>4, OwnWhenCommitted
<1>8. ASSUME NEW c \in Calls, CommitCreate(c) PROVE OwnInv'
  <2> DEFINE q == [kind |-> "change", stage |-> "done", closes |-> "create"]
  <2>1. q \in Done /\ calls[c] # Idle
    BY <1>8 DEF Done, CommitCreate, Idle
  <2>2. PICK r \in Records : /\ Rewritten(r) /\ Goto(c, q) /\ UNCHANGED store
                             /\ walk' = SpoiltIf(Torn, Written(r)) /\ Written(r) \in Walk
    BY <1>8, CommitCreateRewrites
  <2> HIDE DEF q
  <2>3. row'[r].version \in Nat
    BY <2>2 DEF Types
  <2>4. walk'.overlapped = walk.overlapped /\ walk'.own = Written(r).own
    BY <2>2, <2>3, WrittenDown, WalkFields DEF Types, SpoiltIf
  <2>. QED
    BY <2>1, <2>2, <2>4, OwnWhenCommitted
<1>9. ASSUME NEW c \in Calls, Loaded(c) PROVE OwnInv'
  <2>1. /\ Goto(c, Idle) /\ Idle \in Call /\ row' = row /\ store'.items = calls[c].items
        /\ AnsweredWith(calls[c]) = ToSet(calls[c].items)
    BY <1>9 DEF Loaded, listing, Call, AnsweredWith
  <2>2. /\ Recs(calls[c].items) \in SUBSET Records /\ {} \in SUBSET Records
        /\ walk' = Walked(Recs(calls[c].items), {})
    BY <1>9, LoadedIs
  <2>3. walk'.own = walk.own /\ walk'.overlapped = walk.overlapped
    <3>1. walk \in Walk
      BY DEF Types
    <3>. QED
      BY <2>2, <3>1, WalksOn, Zenon
  <2>4. Recent(Idle, walk.own)
    BY NothingAtHand DEF Recent
  <2>5. ShownRecent(store', calls', walk.own)
    BY <2>1 DEF ShownRecent, OwnInv
  <2>. QED
    BY <2>1, <2>3, <2>4, <2>5, OwnKept
<1>10. ASSUME NEW c \in Calls, LoadFailed(c) \/ ChangeFailed(c) PROVE OwnInv'
  <2>1. Goto(c, Idle) /\ Idle \in Call /\ row' = row /\ store'.error
    BY <1>10 DEF LoadFailed, ChangeFailed, Failed, listing, Call, Types
  <2>2. walk'.own = walk.own /\ walk'.overlapped = walk.overlapped
    BY <1>10, LoadFailedTypes, ChangeFailedTypes, WalkFields DEF Types
  <2>3. Recent(Idle, walk.own)
    BY NothingAtHand DEF Recent
  <2>. QED
    BY <2>1, <2>2, <2>3, OwnKept DEF ShownRecent
<1>11. ASSUME NEW c \in Calls, Changed(c) PROVE OwnInv'
  <2>1. PICK q \in SentLoad : Goto(c, q)
    BY <1>11, ChangedIs
  <2>2. q \in Call /\ AnsweredWith(q) = {} /\ Relists(q)
    BY NothingAtHand, KindsAreAwaited DEF SentLoad, Relists
  <2>3. calls'[c] = q
    BY <2>1, <2>2, Going DEF Types
  <2>4. calls[c] # Idle /\ row' = row /\ walk' = walk
    BY <1>11 DEF Changed, Idle, listing
  <2>. QED
    BY <2>1, <2>2, <2>3, <2>4, OwnKept DEF Recent, ShownRecent
<1>12. ASSUME Others PROVE OwnInv'
  <2>1. PICK r \in Records :
            \/ Touch(r) /\ walk' = Walked({}, {r})
            \/ Insert(r) /\ walk' = SpoiltIf(Torn, Walked({}, {r}))
            \/ Discard(r) /\ walk' = Spoilt(walk)
    BY <1>12 DEF Others
  <2>2. UNCHANGED <<store, page_ui, calls>>
    BY <1>12 DEF Others
  <2>3. {} \in SUBSET Records /\ {r} \in SUBSET Records /\ walk \in Walk
    BY DEF Types
  <2>4. /\ Walked({}, {r}) \in Walk
        /\ Walked({}, {r}).own = walk.own /\ Walked({}, {r}).overlapped = walk.overlapped
    BY <2>3, WalksOn, Zenon
  <2>5. walk'.own = walk.own /\ walk'.overlapped = walk.overlapped
    BY <2>1, <2>3, <2>4, WalkFields DEF SpoiltIf
  <2>6. row' = row \/ Rewritten(r)
    BY <2>1, <2>2, TouchedByOthers DEF Discard
  <2>. QED
    BY <2>2, <2>5, <2>6, OwnOfOthers
<1>. QED
  BY <1>2, <1>3, <1>4, <1>5, <1>6, <1>7, <1>8, <1>9, <1>10, <1>11, <1>12
     DEF Next, User, ServerStep, Receive, OpenTransition, OpenCreate, Cancel, listing, vars

\* When all is answered and no two calls have overlapped, the list shows what this
\* page wrote, or something newer: a change is followed by a list of its own, and
\* an error is shown when that list is missing.
THEOREM WritesAreShown == Spec => []ReadsOwnWrites
<1>1. Init => OwnInv
  <2>. SUFFICES ASSUME Init PROVE OwnInv
    OBVIOUS
  <2>1. Types
    BY TypesInit
  <2>2. /\ ~walk.overlapped /\ \A r \in Records : walk.own[r] = 0
    BY WalkFields DEF Init
  <2>3. ToSet(store.items) = {} /\ \A c \in Calls : calls[c] = Idle /\ AnsweredWith(calls[c]) = {}
    BY NothingAtHand DEF Init, ToSet
  <2>4. \A r \in Records : row[r].version \in Nat
    BY <2>1 DEF Types
  <2>. QED
    BY <2>2, <2>3, <2>4 DEF OwnInv, Alone
<1>2. OwnInv => ReadsOwnWrites
  BY DEF OwnInv, ReadsOwnWrites, Quiet, Relists, Idle
<1>. QED
  BY <1>1, <1>2, TypesInit, TypesStep, OwnStep, PTL DEF Spec
-----------------------------------------------------------------------------
(* A walk misses nothing                                                   *)

\* The pages reach the end of the list.
LEMMA LastPage ==
    ASSUME NEW t \in Nat, NEW s \in Positive PROVE ((t + s - 1) \div s) * s >= t
BY DEF Positive

\* A write moves its record, and what was shown stays shown.
LEMMA WriteShiftsOn ==
    ASSUME Types, NEW r \in Records, Rewritten(r), walk'.touched = walk.touched \cup {r}
    PROVE  /\ \A n \in Nat : \A seen :
                  SeenUpTo(n, seen, list, walk.touched) => SeenUpTo(n, seen, list', walk'.touched)
           /\ \A seen : Missed(seen, list', walk'.touched) => Missed(seen, list, walk.touched)
           /\ r \in LiveRecords => Len(list') = Len(list)
<1>1. list \in Seq(Records) /\ Distinct(list) /\ list' \in Reordered(r)
  BY DEF Types, Distinct, Rewritten
<1>2. /\ list' \in Seq(Records)
      /\ r \in LiveRecords => Len(list') = Len(list)
      /\ \A j \in 1..Len(list') :
             list'[j] = r \/ \E i \in 1..Len(list) : i <= j /\ list[i] = list'[j]
  BY <1>1, MovedUp
<1>3. ASSUME NEW j \in 1..Len(list'), list'[j] \notin walk'.touched
      PROVE  \E i \in 1..Len(list) : /\ i <= j /\ list[i] = list'[j]
                                     /\ list[i] \notin walk.touched
  BY <1>2, <1>3
<1>4. ASSUME NEW n \in Nat, NEW seen, SeenUpTo(n, seen, list, walk.touched)
      PROVE  SeenUpTo(n, seen, list', walk'.touched)
  <2>1. SUFFICES ASSUME NEW j \in 1..Len(list'), j <= n, list'[j] \notin walk'.touched
                 PROVE list'[j] \in seen
    BY DEF SeenUpTo
  <2>2. PICK i \in 1..Len(list) : /\ i <= j /\ list[i] = list'[j]
                                  /\ list[i] \notin walk.touched
    BY <1>3, <2>1
  <2>3. i <= n
    BY <1>1, <1>2, <2>1, <2>2
  <2>. QED
    BY <1>4, <2>2, <2>3 DEF SeenUpTo
<1>5. ASSUME NEW seen, Missed(seen, list', walk'.touched) PROVE Missed(seen, list, walk.touched)
  <2>1. PICK j \in 1..Len(list') : list'[j] \notin walk'.touched /\ list'[j] \notin seen
    BY <1>5 DEF Missed
  <2>. QED
    BY <1>3, <2>1 DEF Missed
<1>. QED
  BY <1>2, <1>4, <1>5

\* In a walk that is not spoiled there is one call at a time: what is known of it,
\* and of the list when it brings none.
Knowing(q, ls, w, pg, st) ==
    /\ Bringing(q, ls, w, pg)
    /\ ~Paging(q) => SeenUpTo(pg * PageSize, w.seen, ls, w.touched)
    /\ q.kind # "load" => Leads(w.seen, ls, w.touched, pg, st.total, st.size)

LEMMA WalkKnows ==
    ASSUME WalkInv, ~walk.spoiled, NEW c \in Calls, calls[c] # Idle \/ Quiet
    PROVE  /\ \A d \in Calls : d # c => calls[d] = Idle
           /\ Knowing(calls[c], list, walk, page, store)
<1>1. \A d \in Calls : d # c => calls[d] = Idle
  BY DEF WalkInv, Alone, Quiet
<1>2. Idle.kind # "load" /\ ~Paging(Idle)
  BY DEF Idle, Paging
<1>. QED
  BY <1>1, <1>2 DEF WalkInv, Knowing

LEMMA WalkKept ==
    ASSUME Types, NEW c \in Calls, NEW q \in Call, Goto(c, q),
           ~walk'.spoiled => /\ \A d \in Calls : d # c => calls[d] = Idle
                             /\ Knowing(q, list', walk', page', store')
    PROVE  WalkInv'
<1>1. SUFFICES ASSUME ~walk'.spoiled PROVE WalkInv'
  BY DEF WalkInv
<1>2. calls'[c] = q /\ \A d \in Calls : d # c => calls'[d] = Idle
  BY <1>1, Going DEF Types
<1>3. Alone'
  BY <1>2 DEF Alone
<1>4. Bringing(Idle, list', walk', page')
  BY DEF Bringing, Idle
<1>5. \A d \in Calls : Bringing(calls'[d], list', walk', page')
  BY <1>1, <1>2, <1>4 DEF Knowing
<1>. QED
  BY <1>1, <1>2, <1>3, <1>5 DEF WalkInv, Knowing

\* A page is asked for when nothing is awaited.
LEMMA WalkSent ==
    ASSUME Types, WalkInv, NEW c \in Calls, NEW p \in Positive, Load(c, p),
           ~walk'.spoiled => Quiet /\ SeenUpTo((p - 1) * PageSize, walk'.seen, list, walk'.touched)
    PROVE  WalkInv'
<1>1. PICK q \in SentLoad : /\ Goto(c, q) /\ q.page = p /\ q.size = PageSize
                            /\ q.closes = "nothing"
  BY LoadIsSent
<1>2. page' = p /\ list' = list
  BY DEF Load, listing
<1>3. q.kind = "load" /\ q.stage = "sent" /\ q \in Call
  BY KindsAreAwaited DEF SentLoad
<1>4. ASSUME ~walk'.spoiled PROVE Knowing(q, list', walk', page', store')
  BY <1>1, <1>2, <1>3, <1>4 DEF Knowing, Bringing, Aimed, Paging
<1>. QED
  BY <1>1, <1>3, <1>4, WalkKept DEF Quiet

\* The pages before the one asked for are those that were shown, or fewer.
LEMMA SeenBefore ==
    ASSUME page \in Positive, NEW p \in Positive, p <= page + 1, list \in Seq(Records),
           NEW seen, NEW touched, SeenUpTo(page * PageSize, seen, list, touched)
    PROVE  SeenUpTo((p - 1) * PageSize, seen, list, touched)
<1>1. (p - 1) * PageSize \in Nat /\ page * PageSize \in Nat
  BY Multiples, Sizes
<1>2. (p - 1) * PageSize <= page * PageSize
  <2>1. \A a, b, s \in Nat : a <= b => a * s <= b * s
    OBVIOUS
  <2>2. p - 1 \in Nat /\ page \in Nat /\ PageSize \in Nat /\ p - 1 <= page
    BY Sizes DEF Positive
  <2>. QED
    BY <2>1, <2>2
<1>. QED
  BY <1>1, <1>2 DEF SeenUpTo

LEMMA WalkQueried == ASSUME Types, WalkInv, NEW c \in Calls, Query(c) PROVE WalkInv'
<1>1. Load(c, 1) /\ 1 \in Positive
  BY QueryIs
<1>2. ASSUME ~walk'.spoiled PROVE Quiet
  BY <1>2, Overlaps DEF Query, Types
<1>3. (1 - 1) * PageSize = 0
  BY Sizes DEF Positive
<1>4. SeenUpTo((1 - 1) * PageSize, walk'.seen, list, walk'.touched)
  BY <1>3 DEF SeenUpTo, Types
<1>. QED
  BY <1>1, <1>2, <1>4, WalkSent

LEMMA WalkPaged ==
    ASSUME Types, WalkInv, NEW c \in Calls, NextPage(c) \/ PreviousPage(c)
    PROVE  WalkInv'
<1>1. PICK p \in Positive : Load(c, p) /\ p <= page + 1
  <2>1. page \in Nat
    BY DEF Types, Positive
  <2>2. page + 1 <= page + 1 /\ page - 1 <= page + 1
    BY <2>1
  <2>. QED
    BY <2>2, NextPageIs, PreviousPageIs
<1>2. walk' = Overlap
  BY DEF NextPage, PreviousPage
<1>3. ASSUME ~walk'.spoiled
      PROVE  Quiet /\ SeenUpTo((p - 1) * PageSize, walk'.seen, list, walk'.touched)
  <2>1. Quiet /\ ~walk.spoiled /\ walk'.seen = walk.seen /\ walk'.touched = walk.touched
    BY <1>2, <1>3, Overlaps DEF Types
  <2>2. ~Paging(calls[c])
    BY <2>1 DEF Quiet, Idle, Paging
  <2>3. SeenUpTo(page * PageSize, walk.seen, list, walk.touched)
    BY <2>1, <2>2, WalkKnows DEF Knowing
  <2>4. page \in Positive /\ list \in Seq(Records)
    BY DEF Types
  <2>. QED
    BY <1>1, <2>1, <2>3, <2>4, SeenBefore
<1>. QED
  BY <1>1, <1>3, WalkSent

\* A step of a call, or of the user, that brings no page: the list and the pager
\* stay as they are.
LEMMA WalkWaits ==
    ASSUME Types, WalkInv, NEW c \in Calls, NEW q \in Call, Goto(c, q),
           UNCHANGED <<listing, page>>,
           store'.total = store.total, store'.size = store.size,
           (walk' = walk /\ calls[c] # Idle) \/ walk' = Overlap,
           Paging(calls[c]) => Paging(q), q.kind # "load" => calls[c].kind # "load",
           ~walk.spoiled /\ Bringing(calls[c], list, walk, page) => Bringing(q, list, walk, page)
    PROVE  WalkInv'
<1>1. ASSUME ~walk'.spoiled
      PROVE  /\ \A d \in Calls : d # c => calls[d] = Idle
             /\ Knowing(q, list', walk', page', store')
  <2>1. /\ ~walk.spoiled /\ walk'.seen = walk.seen /\ walk'.touched = walk.touched
        /\ calls[c] # Idle \/ Quiet
    BY <1>1, Overlaps DEF Types
  <2>2. /\ \A d \in Calls : d # c => calls[d] = Idle
        /\ Knowing(calls[c], list, walk, page, store)
    BY <2>1, WalkKnows
  <2>3. Bringing(q, list, walk, page)
    BY <2>1, <2>2 DEF Knowing
  <2>. QED
    BY <2>1, <2>2, <2>3 DEF Knowing, Bringing, listing
<1>. QED
  BY <1>1, WalkKept

LEMMA WalkConfirmed ==
    ASSUME Types, WalkInv, NEW c \in Calls, ConfirmTransition(c) \/ ConfirmCreate(c)
    PROVE  WalkInv'
<1>1. PICK q \in Confirmed \cup Creating : Goto(c, q)
  BY ConfirmTransitionIs DEF ConfirmCreate, Send, Creating
<1>2. q \in Call /\ q.kind # "load"
  BY KindsAreAwaited DEF Confirmed, Creating
<1>3. /\ calls[c] = Idle /\ walk' = Overlap /\ UNCHANGED <<listing, page>>
      /\ store'.total = store.total /\ store'.size = store.size
  BY DEF ConfirmTransition, ConfirmCreate, Send, Busy, Types, page_ui
<1>4. calls[c].kind # "load"
  BY <1>3 DEF Idle
<1>. QED
  BY <1>1, <1>2, <1>3, <1>4, WalkWaits DEF Paging, Bringing

LEMMA WalkCounted == ASSUME Types, WalkInv, NEW c \in Calls, CountRows(c) PROVE WalkInv'
<1>1. PICK q \in CountedLoad :
          /\ Goto(c, q) /\ q.page = calls[c].page /\ q.size = calls[c].size
          /\ q.closes = calls[c].closes /\ q.total = Len(list)
  BY CountRowsIs
<1>2. q \in Call /\ q.kind = "load" /\ q.stage = "counted"
  BY KindsAreAwaited DEF CountedLoad
<1>3. /\ calls[c].kind = "load" /\ calls[c].stage = "sent" /\ calls[c] # Idle
      /\ UNCHANGED <<listing, page, store, walk>>
  BY DEF CountRows, page_ui, Idle
<1>4. Bringing(calls[c], list, walk, page) => Bringing(q, list, walk, page)
  BY <1>1, <1>2, <1>3 DEF Bringing, Aimed
<1>. QED
  BY <1>1, <1>2, <1>3, <1>4, WalkWaits DEF Paging

\* The page that is found shows what was missed, up to its end.
LEMMA PageBrings ==
    ASSUME row \in [Records -> [status : RowStatuses, version : Nat]],
           list \in Seq(Records), page \in Positive,
           NEW p \in Positive, NEW size \in Positive, NEW seen, NEW touched,
           \/ /\ p = page /\ size = PageSize
              /\ SeenUpTo((page - 1) * PageSize, seen, list, touched)
           \/ /\ p = 1 /\ SeenUpTo(page * PageSize, seen, list, touched)
    PROVE  LET shown == seen \cup Recs(Page(p, size))
           IN /\ SeenUpTo(page * PageSize, shown, list, touched)
              /\ Leads(shown, list, touched, page, Len(list), size)
<1> DEFINE shown == seen \cup Recs(Page(p, size))
<1>1. \A i \in 1..Len(list) : (p - 1) * size < i /\ i <= p * size => list[i] \in shown
  BY PageShows
<1>2. /\ (p - 1) * size \in Nat /\ p * size \in Nat /\ p * size = (p - 1) * size + size
      /\ (page - 1) * PageSize \in Nat /\ page * PageSize \in Nat
      /\ size \in Nat /\ Len(list) \in Nat
  BY Multiples, Sizes DEF Positive
<1>3. SeenUpTo(page * PageSize, shown, list, touched)
  <2> SUFFICES ASSUME NEW i \in 1..Len(list), i <= page * PageSize, list[i] \notin touched
               PROVE  list[i] \in shown
    BY DEF SeenUpTo
  <2>1. CASE p = page /\ size = PageSize /\ SeenUpTo((page - 1) * PageSize, seen, list, touched)
    <3>1. CASE i <= (page - 1) * PageSize
      BY <2>1, <3>1 DEF SeenUpTo
    <3>2. CASE ~(i <= (page - 1) * PageSize)
      BY <1>1, <1>2, <2>1, <3>2
    <3>. QED
      BY <3>1, <3>2
  <2>2. CASE SeenUpTo(page * PageSize, seen, list, touched)
    BY <2>2 DEF SeenUpTo
  <2>. QED
    BY <2>1, <2>2
<1>4. ASSUME NEW i \in 1..Len(list), i <= size, list[i] \notin touched PROVE list[i] \in shown
  <2>1. CASE p = page /\ size = PageSize
    <3>1. size <= p * size
      BY <1>2
    <3>2. i <= page * PageSize
      <4>1. page * PageSize = p * size
        BY <2>1
      <4> DEFINE n == p * size
      <4>2. n \in Nat /\ size <= n /\ size \in Nat
        BY <1>2, <3>1
      <4> HIDE DEF n
      <4>3. i <= n
        BY <1>4, <4>2
      <4>. QED
        BY <4>1, <4>3 DEF n
    <3>. QED
      BY <1>3, <1>4, <3>2 DEF SeenUpTo
  <2>2. CASE p = 1
    <3>1. (p - 1) * size = 0
      BY <1>2, <2>2
    <3>. QED
      BY <1>1, <1>2, <1>4, <3>1
  <2>. QED
    BY <2>1, <2>2
<1>5. Leads(shown, list, touched, page, Len(list), size)
  <2> SUFFICES ASSUME NEW i \in 1..Len(list), list[i] \notin touched, list[i] \notin shown
               PROVE  Len(list) > page * PageSize /\ Len(list) > size
    BY DEF Leads, Missed
  <2>1. ~(i <= page * PageSize) /\ ~(i <= size)
    BY <1>3, <1>4 DEF SeenUpTo
  <2>. QED
    BY <1>2, <2>1
<1>. QED
  BY <1>3, <1>5

LEMMA WalkFound == ASSUME Types, WalkInv, NEW c \in Calls, FindRows(c) PROVE WalkInv'
<1>1. calls[c] \in CountedLoad
  BY FindRowsIs
<1>2. PICK q \in AnsweredLoad :
          /\ Goto(c, q) /\ q.size = calls[c].size /\ q.closes = calls[c].closes
          /\ q.total = calls[c].total /\ q.items = Page(calls[c].page, calls[c].size)
  BY FindRowsIs
<1>3. q \in Call /\ q.kind = "load" /\ q.stage = "answered"
  BY KindsAreAwaited DEF AnsweredLoad
<1>4. /\ calls[c].kind = "load" /\ calls[c].stage = "counted" /\ calls[c] # Idle
      /\ calls[c].page \in Positive /\ calls[c].size \in Positive
      /\ UNCHANGED <<listing, page, store, walk>>
  BY <1>1 DEF FindRows, page_ui, Idle, CountedLoad
<1>5. ASSUME ~walk.spoiled
      PROVE  /\ \A d \in Calls : d # c => calls[d] = Idle
             /\ Knowing(q, list', walk', page', store')
  <2>1. /\ \A d \in Calls : d # c => calls[d] = Idle
        /\ Knowing(calls[c], list, walk, page, store)
    BY <1>4, <1>5, WalkKnows
  <2>2. Aimed(calls[c], page) /\ calls[c].total = Len(list)
    BY <1>4, <2>1 DEF Knowing, Bringing
  <2>3. /\ calls[c].closes = "nothing" =>
               SeenUpTo((page - 1) * PageSize, walk.seen, list, walk.touched)
        /\ calls[c].closes # "nothing" =>
               SeenUpTo(page * PageSize, walk.seen, list, walk.touched)
    BY <1>4, <2>1 DEF Knowing, Bringing, Paging
  <2>4. /\ row \in [Records -> [status : RowStatuses, version : Nat]]
        /\ list \in Seq(Records) /\ page \in Positive
    BY DEF Types
  <2>5. /\ SeenUpTo(page * PageSize, walk.seen \cup Recs(q.items), list, walk.touched)
        /\ Leads(walk.seen \cup Recs(q.items), list, walk.touched, page, q.total, q.size)
    BY <1>2, <1>4, <2>2, <2>3, <2>4, PageBrings DEF Aimed
  <2>6. UNCHANGED <<list, page, store, walk>>
    BY <1>4 DEF listing
  <2>. QED
    BY <1>2, <1>3, <2>1, <2>3, <2>5, <2>6 DEF Knowing, Bringing, Paging
<1>. QED
  BY <1>2, <1>3, <1>4, <1>5, WalkKept

LEMMA WalkLoaded == ASSUME Types, WalkInv, NEW c \in Calls, Loaded(c) PROVE WalkInv'
<1>1. /\ calls[c].kind = "load" /\ calls[c].stage = "answered" /\ calls[c] # Idle
      /\ Goto(c, Idle) /\ Idle \in Call /\ UNCHANGED <<listing, page>>
      /\ store'.total = calls[c].total /\ store'.size = calls[c].size
  BY DEF Loaded, Close, Idle, Call
<1>2. /\ Recs(calls[c].items) \in SUBSET Records /\ {} \in SUBSET Records /\ walk \in Walk
      /\ walk' = Walked(Recs(calls[c].items), {})
  BY LoadedIs DEF Types
<1>3. /\ walk'.spoiled = walk.spoiled
      /\ ~walk.spoiled => /\ walk'.seen = walk.seen \cup Recs(calls[c].items)
                          /\ walk'.touched = walk.touched \cup {}
  BY <1>2, WalksOn, Zenon
<1>4. ASSUME ~walk.spoiled
      PROVE  /\ \A d \in Calls : d # c => calls[d] = Idle
             /\ Knowing(Idle, list', walk', page', store')
  <2>1. /\ \A d \in Calls : d # c => calls[d] = Idle
        /\ Knowing(calls[c], list, walk, page, store)
    BY <1>1, <1>4, WalkKnows
  <2>2. /\ SeenUpTo(page * PageSize, walk.seen \cup Recs(calls[c].items), list, walk.touched)
        /\ Leads(walk.seen \cup Recs(calls[c].items), list, walk.touched, page,
                 calls[c].total, calls[c].size)
    BY <1>1, <2>1 DEF Knowing, Bringing
  <2>3. walk'.touched = walk.touched /\ list' = list /\ page' = page
    BY <1>1, <1>3, <1>4 DEF listing
  <2>4. /\ SeenUpTo(page' * PageSize, walk'.seen, list', walk'.touched)
        /\ Leads(walk'.seen, list', walk'.touched, page', store'.total, store'.size)
    BY <1>1, <1>3, <1>4, <2>2, <2>3
  <2>. QED
    BY <2>1, <2>4 DEF Knowing, Bringing, Idle
<1>. QED
  BY <1>1, <1>3, <1>4, WalkKept

\* This page writes record r.
LEMMA WalkCommits ==
    ASSUME Types, WalkInv, NEW c \in Calls, calls[c] # Idle, calls[c].kind # "load",
           NEW q \in Done, Goto(c, q), NEW r \in Records, Rewritten(r),
           UNCHANGED <<store, page>>,
           ~walk'.spoiled => walk' = Written(r)
    PROVE  WalkInv'
<1>1. ASSUME ~walk'.spoiled
      PROVE  /\ \A d \in Calls : d # c => calls[d] = Idle
             /\ Knowing(q, list', walk', page', store')
  <2>1. /\ ~walk.spoiled /\ walk'.seen = walk.seen
        /\ walk'.touched = walk.touched \cup {r}
    BY <1>1, WrittenDown DEF Types, Rewritten
  <2>2. /\ \A d \in Calls : d # c => calls[d] = Idle
        /\ Knowing(calls[c], list, walk, page, store)
    BY <2>1, WalkKnows
  <2>3. /\ SeenUpTo(page * PageSize, walk.seen, list, walk.touched)
        /\ Leads(walk.seen, list, walk.touched, page, store.total, store.size)
    BY <2>2 DEF Knowing, Paging
  <2>4. page * PageSize \in Nat
    BY Multiples, Sizes DEF Types
  <2>5. SeenUpTo(page * PageSize, walk.seen, list', walk'.touched)
    BY <2>1, <2>3, <2>4, WriteShiftsOn
  <2>6. Leads(walk.seen, list', walk'.touched, page, store.total, store.size)
    BY <2>1, <2>3, WriteShiftsOn DEF Leads
  <2>. QED
    BY <2>1, <2>2, <2>5, <2>6 DEF Knowing, Bringing, Done
<1>. QED
  BY <1>1, KindsAreAwaited, WalkKept

LEMMA WalkCommitted ==
    ASSUME Types, WalkInv, NEW c \in Calls, CommitTransition(c) \/ CommitCreate(c)
    PROVE  WalkInv'
<1>1. calls[c] # Idle /\ calls[c].kind # "load"
  BY DEF CommitTransition, CommitCreate, Idle
<1>2. \A k \in {"transition", "create"} : [kind |-> "change", stage |-> "done", closes |-> k] \in Done
  BY DEF Done
<1>3. PICK q \in Done : Goto(c, q)
  BY <1>2, CommitTransitionRewrites, CommitCreateRewrites
<1>4. PICK r \in Records : /\ Rewritten(r) /\ UNCHANGED <<store, page_ui>>
                           /\ walk' = Written(r) \/ walk' = SpoiltIf(Torn, Written(r))
                           /\ Written(r) \in Walk
  BY CommitTransitionRewrites, CommitCreateRewrites
<1>5. ~walk'.spoiled => walk' = Written(r)
  BY <1>4, WalkFields DEF SpoiltIf
<1>. QED
  BY <1>1, <1>3, <1>4, <1>5, WalkCommits DEF page_ui

LEMMA WalkRelisted == ASSUME Types, WalkInv, NEW c \in Calls, Changed(c) PROVE WalkInv'
<1>1. PICK q \in SentLoad : /\ Goto(c, q) /\ q.page = 1 /\ q.size = ReloadSize
                            /\ q.closes # "nothing"
  BY ChangedIs
<1>2. q \in Call /\ q.kind = "load" /\ q.stage = "sent"
  BY KindsAreAwaited DEF SentLoad
<1>3. /\ calls[c].kind = "change" /\ calls[c] # Idle /\ UNCHANGED <<listing, page, walk>>
      /\ store'.total = store.total /\ store'.size = store.size
  BY DEF Changed, StartLoading, page_ui, Idle, Types
<1>4. Bringing(q, list, walk, page)
  BY <1>1, <1>2 DEF Bringing, Aimed
<1>. QED
  BY <1>1, <1>2, <1>3, <1>4, WalkWaits DEF Paging

LEMMA WalkRefused == ASSUME Types, WalkInv, NEW c \in Calls, ChangeFailed(c) PROVE WalkInv'
<1>1. /\ calls[c].kind # "load" /\ calls[c] # Idle /\ UNCHANGED <<listing, page, walk>>
      /\ store'.total = store.total /\ store'.size = store.size
      /\ Goto(c, Idle) /\ Idle \in Call /\ Idle.kind # "load"
  BY DEF ChangeFailed, Failed, page_ui, Idle, Types, Call
<1>2. Bringing(Idle, list, walk, page)
  BY <1>1 DEF Bringing
<1>. QED
  BY <1>1, <1>2, WalkWaits DEF Paging

LEMMA WalkSpoilt == ASSUME Types, walk' = Spoilt(walk) PROVE WalkInv'
BY WalkFields DEF Types, WalkInv

\* Others write record r: one that is listed, or one created when no load has
\* counted and not found yet.
LEMMA WalkOfOthers ==
    ASSUME Types, WalkInv, NEW r \in Records, Rewritten(r), UNCHANGED <<store, page_ui, calls>>,
           \/ r \in LiveRecords /\ walk' = Walked({}, {r})
           \/ walk' = SpoiltIf(Torn, Walked({}, {r}))
    PROVE  WalkInv'
<1>1. SUFFICES ASSUME ~walk'.spoiled PROVE WalkInv'
  BY DEF WalkInv
<1>2. {} \in SUBSET Records /\ {r} \in SUBSET Records /\ walk \in Walk
  BY DEF Types
<1>3. /\ Walked({}, {r}) \in Walk /\ Walked({}, {r}).spoiled = walk.spoiled
      /\ ~walk.spoiled => /\ Walked({}, {r}).seen = walk.seen \cup {}
                          /\ Walked({}, {r}).touched = walk.touched \cup {r}
  BY <1>2, WalksOn, Zenon
<1>4. walk' = Walked({}, {r}) /\ (r \in LiveRecords \/ ~Torn)
  BY <1>1, <1>3, WalkFields DEF SpoiltIf
<1>5. ~walk.spoiled /\ walk'.seen = walk.seen /\ walk'.touched = walk.touched \cup {r}
  BY <1>1, <1>3, <1>4
<1>6. /\ \A n \in Nat : \A seen :
             SeenUpTo(n, seen, list, walk.touched) => SeenUpTo(n, seen, list', walk'.touched)
      /\ \A seen : Missed(seen, list', walk'.touched) => Missed(seen, list, walk.touched)
      /\ r \in LiveRecords => Len(list') = Len(list)
  BY <1>5, WriteShiftsOn
<1>7. page' = page /\ store' = store /\ calls' = calls
  BY DEF page_ui
<1>8. page * PageSize \in Nat /\ (page - 1) * PageSize \in Nat
  BY Multiples, Sizes DEF Types
<1>9. ASSUME NEW seen, NEW total, NEW size, Leads(seen, list, walk.touched, page, total, size)
      PROVE  Leads(seen, list', walk'.touched, page, total, size)
  BY <1>6, <1>9 DEF Leads
<1>10. ASSUME NEW c \in Calls PROVE Bringing(calls[c], list', walk', page)
  <2>1. Bringing(calls[c], list, walk, page)
    BY <1>5 DEF WalkInv
  <2>2. calls[c].kind = "load" /\ calls[c].stage = "counted" => Len(list') = Len(list)
    BY <1>4, <1>6 DEF Torn
  <2>. QED
    BY <1>5, <1>6, <1>8, <1>9, <2>1, <2>2 DEF Bringing
<1>11. /\ (\A c \in Calls : ~Paging(calls[c])) =>
              SeenUpTo(page * PageSize, walk'.seen, list', walk'.touched)
       /\ (\A c \in Calls : calls[c].kind # "load") =>
              Leads(walk'.seen, list', walk'.touched, page, store.total, store.size)
  BY <1>5, <1>6, <1>8, <1>9 DEF WalkInv
<1>12. Alone'
  BY <1>5, <1>7 DEF WalkInv, Alone
<1>. QED
  BY <1>7, <1>10, <1>11, <1>12 DEF WalkInv

LEMMA WalkStep == ASSUME Types, WalkInv, [Next]_vars PROVE WalkInv'
<1>1. ASSUME UNCHANGED <<list, store, page, calls, walk>> PROVE WalkInv'
  BY <1>1 DEF WalkInv, Alone
<1>2. ASSUME Others PROVE WalkInv'
  <2>1. PICK r \in Records :
            \/ Touch(r) /\ walk' = Walked({}, {r})
            \/ Insert(r) /\ walk' = SpoiltIf(Torn, Walked({}, {r}))
            \/ Discard(r) /\ walk' = Spoilt(walk)
    BY <1>2 DEF Others
  <2>2. UNCHANGED <<store, page_ui, calls>>
    BY <1>2 DEF Others
  <2>3. CASE Discard(r) /\ walk' = Spoilt(walk)
    BY <2>3, WalkSpoilt
  <2>4. CASE \/ Touch(r) /\ walk' = Walked({}, {r})
             \/ Insert(r) /\ walk' = SpoiltIf(Torn, Walked({}, {r}))
    BY <2>2, <2>4, TouchedByOthers, WalkOfOthers
  <2>. QED
    BY <2>1, <2>3, <2>4
<1>3. ASSUME NEW c \in Calls, Receive(c) PROVE WalkInv'
  BY <1>3, WalkLoaded, LoadFailedTypes, WalkSpoilt, WalkRelisted, WalkRefused DEF Receive
<1>. QED
  BY <1>1, <1>2, <1>3, WalkQueried, WalkPaged, WalkConfirmed, WalkCounted, WalkFound, WalkCommitted
     DEF Next, User, ServerStep, OpenTransition, OpenCreate, Cancel, listing, vars

\* At the end of a walk, the pager's last page or a list that needs none, no record
\* was missed.
LEMMA WalkEnds == ASSUME Types, WalkInv PROVE SeenUnlessTouched
<1>1. SUFFICES ASSUME Quiet, ~walk.spoiled, page = Pages \/ ~PagerShown,
                      NEW r \in LiveRecords, r \notin walk.touched
               PROVE r \in walk.seen
  BY DEF SeenUnlessTouched
<1>2. SUFFICES ASSUME r \notin walk.seen PROVE FALSE
  OBVIOUS
<1>3. PICK i \in 1..Len(list) : list[i] = r
  BY ToSetOfSeq DEF LiveRecords, Types
<1>4. Missed(walk.seen, list, walk.touched)
  BY <1>1, <1>2, <1>3 DEF Missed
<1>5. store.total > page * PageSize /\ store.total > store.size
  <2>1. Leads(walk.seen, list, walk.touched, page, store.total, store.size)
    BY <1>1 DEF WalkInv, Quiet, Idle
  <2>. QED
    BY <1>4, <2>1 DEF Leads
<1>6. store.total \in Nat /\ store.size \in Nat /\ page \in Positive /\ PageSize \in Positive
  BY Sizes DEF Types, Positive
<1>7. store.total # 0
  BY <1>5, <1>6
<1>8. page = (store.total + PageSize - 1) \div PageSize
  BY <1>1, <1>5, <1>7 DEF PagerShown, Pages
<1>9. page * PageSize >= store.total
  BY <1>6, <1>8, LastPage
<1>10. page * PageSize \in Nat
  BY <1>6, Multiples
<1>. QED
  BY <1>5, <1>6, <1>9, <1>10

\* Paging through a list while others write to it misses no record that nobody
\* wrote: a write moves a record to the front and the others only towards pages
\* yet to come, and the pager leads on as long as one is left.
THEOREM WalksMissNothing == Spec => []SeenUnlessTouched
<1>1. Init => WalkInv
  BY WalkFields DEF Init, WalkInv
<1>. QED
  BY <1>1, TypesInit, TypesStep, WalkStep, WalkEnds, PTL DEF Spec
=============================================================================
