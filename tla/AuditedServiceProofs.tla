------------------------- MODULE AuditedServiceProofs -------------------------
(***************************************************************************)
(* Theorems about every aggregate that behaves like AuditedLedger, and     *)
(* about every service of the shape of AuditedService, for any records,    *)
(* contents, status graph, lookups and number of concurrent requests.      *)
(* They are used by the proofs about the four services.                    *)
(***************************************************************************)
EXTENDS AuditedService, TLAPS
-----------------------------------------------------------------------------
(* The ledger                                                              *)

\* What a change of one record does to every record.
LEMMA ChangeEffect ==
    ASSUME LedgerTypeOK, NEW k \in Records, NEW row, NEW entry, Change(k, row, entry)
    PROVE  /\ rows' = [rows EXCEPT ![k] = row]
           /\ rows'[k] = row
           /\ trail'[k] = Append(trail[k], entry)
           /\ \A j \in Records \ {k} : rows'[j] = rows[j] /\ trail'[j] = trail[j]
           /\ trail' = [trail EXCEPT ![k] = Append(trail[k], entry)]
BY DEF LedgerTypeOK, Change

\* A change keeps the types if the new row and the new entry have theirs.
LEMMA ChangeType ==
    ASSUME LedgerTypeOK, NEW k \in Records,
           NEW row \in RowType(Statuses, RecordContents, 0..MaxVersion),
           NEW entry \in Entries, Change(k, row, entry)
    PROVE  LedgerTypeOK'
<1>1. Append(trail[k], entry) \in Seq(Entries)
  BY DEF LedgerTypeOK
<1>2. trail' \in [Records -> Seq(Entries)]
  BY <1>1 DEF LedgerTypeOK, Change
<1>3. rows' \in [Records -> RowType(Statuses, RecordContents, 0..MaxVersion)]
  BY ChangeEffect DEF LedgerTypeOK
<1>. QED
  BY <1>2, <1>3 DEF LedgerTypeOK

LEMMA FoundRow ==
    ASSUME LedgerTypeOK, NEW k \in Records, Found(rows[k])
    PROVE  /\ rows[k].status \in Statuses
           /\ rows[k].version \in 0..MaxVersion
           /\ rows[k].version \in Nat
           /\ rows[k].contents \in RecordContents \cup {NoContents}
           /\ rows[k].deleted = FALSE
BY VersionAssumption DEF LedgerTypeOK, RowType, Found, Exists

LEMMA LedgerTypeStep ==
    ASSUME LedgerTypeOK, LedgerNext
    PROVE  LedgerTypeOK'
<1>1. ASSUME NEW k \in Records, Create(k) PROVE LedgerTypeOK'
  <2>1. PICK contents \in RecordContents :
            Change(k, Inserted(FirstStatus, contents), Entry("create", NoStatus, FirstStatus))
    BY <1>1 DEF Create
  <2>2. Inserted(FirstStatus, contents) \in RowType(Statuses, RecordContents, 0..MaxVersion)
    BY LedgerAssumption, VersionAssumption DEF Inserted, RowType
  <2>3. Entry("create", NoStatus, FirstStatus) \in Entries
    BY LedgerAssumption DEF Entry, Entries
  <2>. QED
    BY <2>1, <2>2, <2>3, ChangeType
<1>2. ASSUME NEW k \in Records, Edit(k) PROVE LedgerTypeOK'
  <2>1. PICK contents \in RecordContents :
            Change(k, Updated(rows[k], rows[k].status, contents, rows[k].version),
                   Entry("update", rows[k].status, rows[k].status))
    BY <1>2 DEF Edit
  <2>2. Updated(rows[k], rows[k].status, contents, rows[k].version)
            \in RowType(Statuses, RecordContents, 0..MaxVersion)
    <3>1. Found(rows[k]) /\ rows[k].version < MaxVersion
      BY <1>2 DEF Edit
    <3>2. rows[k].version \in 0..MaxVersion
      BY <3>1, FoundRow
    <3>3. rows[k].version + 1 \in 0..MaxVersion
      BY <3>1, <3>2, VersionAssumption
    <3>. QED
      BY <3>1, <3>3, FoundRow DEF Updated, RowType
  <2>3. Entry("update", rows[k].status, rows[k].status) \in Entries
    BY <1>2, FoundRow DEF Edit, Entry, Entries
  <2>. QED
    BY <2>1, <2>2, <2>3, ChangeType
<1>3. ASSUME NEW k \in Records, Move(k) PROVE LedgerTypeOK'
  <2>1. PICK status \in Statuses :
            Change(k, Updated(rows[k], status, rows[k].contents, rows[k].version),
                   Entry("transition", rows[k].status, status))
    BY <1>3 DEF Move
  <2>2. Updated(rows[k], status, rows[k].contents, rows[k].version)
            \in RowType(Statuses, RecordContents, 0..MaxVersion)
    <3>1. Found(rows[k]) /\ rows[k].version < MaxVersion
      BY <1>3 DEF Move
    <3>2. rows[k].version \in 0..MaxVersion
      BY <3>1, FoundRow
    <3>3. rows[k].version + 1 \in 0..MaxVersion
      BY <3>1, <3>2, VersionAssumption
    <3>. QED
      BY <3>1, <3>3, FoundRow DEF Updated, RowType
  <2>3. Entry("transition", rows[k].status, status) \in Entries
    BY <1>3, FoundRow DEF Move, Entry, Entries
  <2>. QED
    BY <2>1, <2>2, <2>3, ChangeType
<1>4. ASSUME NEW k \in Records, Remove(k) PROVE LedgerTypeOK'
  <2>1. PICK status \in Removable :
            /\ HasBeen(k, status)
            /\ Change(k, SoftDeleted(rows[k]), Entry("delete", status, "deleted"))
    BY <1>4 DEF Remove
  <2>2. SoftDeleted(rows[k]) \in RowType(Statuses, RecordContents, 0..MaxVersion)
    BY DEF SoftDeleted, RowType, LedgerTypeOK
  <2>3. Entry("delete", status, "deleted") \in Entries
    BY LedgerAssumption DEF Entry, Entries
  <2>. QED
    BY <2>1, <2>2, <2>3, ChangeType
<1>. QED
  BY <1>1, <1>2, <1>3, <1>4 DEF LedgerNext
-----------------------------------------------------------------------------
(* The trail, entry by entry                                               *)

\* The entry a seeded record lacks has the type of an entry, and a trail with
\* it grows as the trail does.
LEMMA SeedEntry ==
    ASSUME NEW t \in Seq(Entries), NEW s \in Seeds
    PROVE  /\ Entry("create", NoStatus, s) \in Entries
           /\ WithSeed(t, s) \in Seq(Entries)
           /\ Len(WithSeed(t, s)) = Len(t) + 1
           /\ \A e \in Entries : WithSeed(Append(t, e), s) = Append(WithSeed(t, s), e)
<1>1. Entry("create", NoStatus, s) \in Entries
  BY LedgerAssumption DEF Entry, Entries
<1>. QED
  BY <1>1 DEF WithSeed

\* Only the empty trail explains a row that was never inserted.
LEMMA ExplainsNothing ==
    ASSUME NEW t \in Seq(Entries), Explains(t, NoRow)
    PROVE  t = <<>>
<1>1. Len(t) = 0
  <2>1. CASE Tells(t, FirstStatus, NoRow)
    BY <2>1 DEF Tells, NoRow
  <2>2. ASSUME NEW s \in Seeds, Tells(WithSeed(t, s), s, NoRow)
        PROVE  FALSE
    <3>1. PICK n \in Nat : n = Len(t)
      OBVIOUS
    <3>2. Len(WithSeed(t, s)) = 0
      BY <2>2 DEF Tells, NoRow
    <3>3. Len(WithSeed(t, s)) = n + 1
      BY <3>1, SeedEntry
    <3>4. n + 1 = 0
      BY <3>2, <3>3, Zenon
    <3>. QED
      BY <3>4
  <2>. QED
    BY <2>1, <2>2 DEF Explains
<1>. QED
  BY <1>1

\* A single entry explains a row that was just inserted, and a seeded row is
\* explained by none.
LEMMA TellsInserted ==
    ASSUME NEW first \in Statuses, NEW contents
    PROVE  Tells(<<Entry("create", NoStatus, first)>>, first, Inserted(first, contents))
<1>. DEFINE u == <<Entry("create", NoStatus, first)>>
            new == Inserted(first, contents)
<1>1. Len(u) = 1 /\ u[1] = Entry("create", NoStatus, first)
  OBVIOUS
<1>2. /\ new.version = 1
      /\ new.status = first
      /\ new.deleted = FALSE
      /\ Exists(new)
  BY LedgerAssumption DEF Inserted, Exists
<1>3. u[1].after = first
  BY <1>1 DEF Entry
<1>. HIDE DEF u, new
<1>4. \A i \in 2..1 : EntryFollows(u, i)
  OBVIOUS
<1>5. Tells(u, first, new)
  BY <1>1, <1>2, <1>3, <1>4 DEF Tells
<1>. QED
  BY <1>5 DEF u, new

\* An update or a transition extends an explanation of the row before it.
LEMMA TellsUpdated ==
    ASSUME NEW t \in Seq(Entries), NEW first, NEW row, Tells(t, first, row), Found(row),
           row.version \in Nat, row.status \in Statuses,
           NEW action \in {"update", "transition"}, NEW status \in Statuses, NEW contents,
           action = "update" => status = row.status,
           action = "transition" => CanTransition(Graph, row.status, status),
           row.deleted = FALSE
    PROVE  Tells(Append(t, Entry(action, row.status, status)), first,
                 Updated(row, status, contents, row.version))
<1>. DEFINE v == row.version
            e == Entry(action, row.status, status)
            u == Append(t, e)
            new == Updated(row, status, contents, v)
<1>1. v > 0 /\ Len(t) = v /\ Exists(row)
  BY DEF Tells, Found
<1>2. /\ Len(u) = v + 1
      /\ u[v + 1] = e
      /\ \A i \in 1..v : u[i] = t[i]
  BY <1>1
<1>3. /\ e.action = action
      /\ e.before = row.status
      /\ e.after = status
  BY DEF Entry
<1>4. /\ new.version = v + 1
      /\ new.status = status
      /\ new.deleted = FALSE
      /\ Exists(new)
  BY LedgerAssumption DEF Updated, Exists
<1>. HIDE DEF u, e, new
<1>5. \A i \in 2..(v + 1) : EntryFollows(u, i)
  <2>. SUFFICES ASSUME NEW i \in 2..(v + 1) PROVE EntryFollows(u, i)
    OBVIOUS
  <2>1. CASE i \in 2..v
    <3>1. EntryFollows(t, i)
      BY <2>1 DEF Tells
    <3>2. u[i] = t[i] /\ u[i - 1] = t[i - 1]
      BY <1>1, <1>2, <2>1
    <3>. QED
      BY <3>1, <3>2 DEF EntryFollows
  <2>2. CASE i = v + 1
    <3>1. u[i] = e /\ u[i - 1] = t[v]
      BY <1>1, <1>2, <2>2
    <3>2. t[v].after = row.status
      BY <1>1 DEF Tells
    <3>. QED
      BY <1>3, <3>1, <3>2 DEF EntryFollows
  <2>. QED
    BY <2>1, <2>2, <1>1
<1>6. u[1] = Entry("create", NoStatus, first)
  <2>1. u[1] = t[1]
    BY <1>1, <1>2
  <2>. QED
    BY <1>1, <2>1 DEF Tells
<1>7. Tells(u, first, new)
  BY <1>1, <1>2, <1>3, <1>4, <1>5, <1>6 DEF Tells
<1>. QED
  BY <1>7 DEF u, e, new

\* A removal adds its entry and leaves the rest of the explanation alone.
LEMMA TellsRemoved ==
    ASSUME NEW t \in Seq(Entries), NEW first, NEW row, Tells(t, first, row), Found(row),
           row.version \in Nat, row.deleted = FALSE, NEW status,
           row = [status |-> row.status, version |-> row.version,
                  contents |-> row.contents, deleted |-> row.deleted]
    PROVE  Tells(Append(t, Entry("delete", status, "deleted")), first, SoftDeleted(row))
<1>. DEFINE v == row.version
            e == Entry("delete", status, "deleted")
            u == Append(t, e)
            new == SoftDeleted(row)
<1>1. v > 0 /\ Len(t) = v /\ Exists(row)
  BY DEF Tells, Found
<1>2. /\ Len(u) = v + 1
      /\ u[v + 1] = e
      /\ \A i \in 1..v : u[i] = t[i]
  BY <1>1
<1>3. e.action = "delete"
  BY DEF Entry
<1>4. /\ new.version = v
      /\ new.status = row.status
      /\ new.deleted = TRUE
      /\ Exists(new)
  BY <1>1 DEF SoftDeleted, Exists
<1>. HIDE DEF u, e, new
<1>5. \A i \in 2..v : EntryFollows(u, i)
  <2>. SUFFICES ASSUME NEW i \in 2..v PROVE EntryFollows(u, i)
    OBVIOUS
  <2>1. EntryFollows(t, i)
    BY DEF Tells
  <2>2. u[i] = t[i] /\ u[i - 1] = t[i - 1]
    BY <1>1, <1>2
  <2>. QED
    BY <2>1, <2>2 DEF EntryFollows
<1>6. u[1] = Entry("create", NoStatus, first) /\ u[v].after = row.status
  BY <1>1, <1>2 DEF Tells
<1>7. Tells(u, first, new)
  BY <1>1, <1>2, <1>3, <1>4, <1>5, <1>6 DEF Tells
<1>. QED
  BY <1>7 DEF u, e, new
\* What extends every telling of a history extends its explanation.
LEMMA ExplainsExtended ==
    ASSUME NEW t \in Seq(Entries), NEW e \in Entries, NEW row, NEW new, Explains(t, row),
           \A u \in Seq(Entries), first \in Statuses :
               Tells(u, first, row) => Tells(Append(u, e), first, new)
    PROVE  Explains(Append(t, e), new)
<1>1. CASE Tells(t, FirstStatus, row)
  BY <1>1, LedgerAssumption DEF Explains
<1>2. ASSUME NEW s \in Seeds, Tells(WithSeed(t, s), s, row)
      PROVE  Explains(Append(t, e), new)
  <2>1. s \in Statuses /\ WithSeed(t, s) \in Seq(Entries)
    BY SeedEntry, LedgerAssumption
  <2>2. Tells(Append(WithSeed(t, s), e), s, new)
    BY <1>2, <2>1
  <2>3. WithSeed(Append(t, e), s) = Append(WithSeed(t, s), e)
    BY SeedEntry
  <2>. QED
    BY <2>2, <2>3 DEF Explains
<1>. QED
  BY <1>1, <1>2 DEF Explains
-----------------------------------------------------------------------------
(* The ledger's invariant                                                  *)

\* A record that does not exist is the row no statement has touched.
LEMMA NotExisting ==
    ASSUME LedgerTypeOK, NoRows, NEW k \in Records, CanInsert(rows[k])
    PROVE  rows[k] = NoRow
BY DEF NoRows, CanInsert

LEMMA NoRowsStep ==
    ASSUME LedgerTypeOK, NoRows, TrailExplainsRow, LedgerNext
    PROVE  NoRows'
<1>. SUFFICES ASSUME NEW k \in Records, Create(k) \/ Edit(k) \/ Move(k) \/ Remove(k)
              PROVE  NoRows'
  BY DEF LedgerNext
<1>1. ASSUME NEW row, NEW entry, Change(k, row, entry), Exists(row)
      PROVE  NoRows'
  <2>. SUFFICES ASSUME NEW j \in Records, CanInsert(rows'[j]) PROVE rows'[j] = NoRow
    BY DEF NoRows
  <2>1. j # k
    BY <1>1, ChangeEffect DEF CanInsert
  <2>2. rows'[j] = rows[j]
    BY <1>1, <2>1, ChangeEffect
  <2>. QED
    BY <2>2 DEF NoRows
<1>2. CASE Create(k)
  BY <1>1, <1>2, LedgerAssumption DEF Create, Inserted, Exists
<1>3. CASE Edit(k)
  BY <1>1, <1>3 DEF Edit, Updated, Exists, Found
<1>4. CASE Move(k)
  BY <1>1, <1>4, LedgerAssumption DEF Move, Updated, Exists
<1>5. CASE Remove(k)
  <2>1. Exists(SoftDeleted(rows[k]))
    BY <1>5 DEF Remove, CanDelete, Found, Exists, SoftDeleted, LedgerTypeOK, RowType
  <2>. QED
    BY <1>1, <1>5, <2>1 DEF Remove
<1>. QED
  BY <1>2, <1>3, <1>4, <1>5

LEMMA TrailStep ==
    ASSUME LedgerTypeOK, NoRows, TrailExplainsRow, LedgerNext
    PROVE  TrailExplainsRow'
<1>. SUFFICES ASSUME NEW k \in Records, Create(k) \/ Edit(k) \/ Move(k) \/ Remove(k)
              PROVE  TrailExplainsRow'
  BY DEF LedgerNext
<1>0. trail[k] \in Seq(Entries) /\ Explains(trail[k], rows[k])
  BY DEF LedgerTypeOK, TrailExplainsRow
<1>1. ASSUME NEW row, NEW entry, Change(k, row, entry), Explains(Append(trail[k], entry), row)
      PROVE  TrailExplainsRow'
  <2>. SUFFICES ASSUME NEW j \in Records PROVE Explains(trail'[j], rows'[j])
    BY DEF TrailExplainsRow
  <2>1. CASE j = k
    BY <1>1, <2>1, ChangeEffect
  <2>2. CASE j # k
    <3>1. trail'[j] = trail[j] /\ rows'[j] = rows[j]
      BY <1>1, <2>2, ChangeEffect
    <3>. QED
      BY <3>1 DEF TrailExplainsRow
  <2>. QED
    BY <2>1, <2>2
<1>2. CASE Create(k)
  <2>1. PICK contents \in RecordContents :
            Change(k, Inserted(FirstStatus, contents), Entry("create", NoStatus, FirstStatus))
    BY <1>2 DEF Create
  <2>2. rows[k] = NoRow
    BY <1>2, NotExisting DEF Create
  <2>3. trail[k] = <<>>
    BY <1>0, <2>2, ExplainsNothing
  <2>4. Append(trail[k], Entry("create", NoStatus, FirstStatus))
            = <<Entry("create", NoStatus, FirstStatus)>>
    BY <2>3
  <2>5. Explains(Append(trail[k], Entry("create", NoStatus, FirstStatus)),
                 Inserted(FirstStatus, contents))
    BY <2>4, TellsInserted, LedgerAssumption DEF Explains
  <2>. QED
    BY <1>1, <2>1, <2>5
<1>3. CASE Edit(k)
  <2>1. PICK contents \in RecordContents :
            Change(k, Updated(rows[k], rows[k].status, contents, rows[k].version),
                   Entry("update", rows[k].status, rows[k].status))
    BY <1>3 DEF Edit
  <2>2. Found(rows[k])
    BY <1>3 DEF Edit
  <2>3. /\ rows[k].status \in Statuses
        /\ rows[k].version \in Nat
        /\ rows[k].deleted = FALSE
    BY <2>2, FoundRow
  <2>4. Explains(Append(trail[k], Entry("update", rows[k].status, rows[k].status)),
                 Updated(rows[k], rows[k].status, contents, rows[k].version))
    <3>1. Entry("update", rows[k].status, rows[k].status) \in Entries
      BY <2>3 DEF Entry, Entries
    <3>2. ASSUME NEW u \in Seq(Entries), NEW first \in Statuses, Tells(u, first, rows[k])
          PROVE  Tells(Append(u, Entry("update", rows[k].status, rows[k].status)), first,
                       Updated(rows[k], rows[k].status, contents, rows[k].version))
      BY <2>2, <2>3, <3>2, TellsUpdated
    <3>. QED
      BY <1>0, <3>1, <3>2, ExplainsExtended
  <2>. QED
    BY <1>1, <2>1, <2>4
<1>4. CASE Move(k)
  <2>1. PICK status \in Statuses :
            /\ CanTransition(Graph, rows[k].status, status)
            /\ Change(k, Updated(rows[k], status, rows[k].contents, rows[k].version),
                      Entry("transition", rows[k].status, status))
    BY <1>4 DEF Move
  <2>2. Found(rows[k])
    BY <1>4 DEF Move
  <2>3. /\ rows[k].status \in Statuses
        /\ rows[k].version \in Nat
        /\ rows[k].deleted = FALSE
    BY <2>2, FoundRow
  <2>4. Explains(Append(trail[k], Entry("transition", rows[k].status, status)),
                 Updated(rows[k], status, rows[k].contents, rows[k].version))
    <3>1. Entry("transition", rows[k].status, status) \in Entries
      BY <2>3 DEF Entry, Entries
    <3>2. ASSUME NEW u \in Seq(Entries), NEW first \in Statuses, Tells(u, first, rows[k])
          PROVE  Tells(Append(u, Entry("transition", rows[k].status, status)), first,
                       Updated(rows[k], status, rows[k].contents, rows[k].version))
      BY <2>1, <2>2, <2>3, <3>2, TellsUpdated
    <3>. QED
      BY <1>0, <3>1, <3>2, ExplainsExtended
  <2>. QED
    BY <1>1, <2>1, <2>4
<1>5. CASE Remove(k)
  <2>1. PICK status \in Removable :
            Change(k, SoftDeleted(rows[k]), Entry("delete", status, "deleted"))
    BY <1>5 DEF Remove
  <2>2. Found(rows[k])
    BY <1>5 DEF Remove, CanDelete
  <2>3. /\ rows[k].version \in Nat
        /\ rows[k].deleted = FALSE
        /\ rows[k] = [status |-> rows[k].status, version |-> rows[k].version,
                      contents |-> rows[k].contents, deleted |-> rows[k].deleted]
    BY <2>2, FoundRow DEF LedgerTypeOK, RowType
  <2>4. Explains(Append(trail[k], Entry("delete", status, "deleted")), SoftDeleted(rows[k]))
    <3>1. Entry("delete", status, "deleted") \in Entries
      BY LedgerAssumption DEF Entry, Entries
    <3>2. ASSUME NEW u \in Seq(Entries), NEW first \in Statuses, Tells(u, first, rows[k])
          PROVE  Tells(Append(u, Entry("delete", status, "deleted")), first, SoftDeleted(rows[k]))
      BY <2>2, <2>3, <3>2, TellsRemoved
    <3>. QED
      BY <1>0, <3>1, <3>2, ExplainsExtended
  <2>. QED
    BY <1>1, <2>1, <2>4
<1>. QED
  BY <1>2, <1>3, <1>4, <1>5

LEMMA LedgerStart == LedgerInit => LedgerTypeOK /\ NoRows /\ TrailExplainsRow
<1>. SUFFICES ASSUME LedgerInit PROVE LedgerTypeOK /\ NoRows /\ TrailExplainsRow
  OBVIOUS
<1>1. ASSUME NEW k \in Records
      PROVE  /\ rows[k] \in RowType(Statuses, RecordContents, 0..MaxVersion)
             /\ CanInsert(rows[k]) => rows[k] = NoRow
             /\ Explains(trail[k], rows[k])
  <2>1. trail[k] = <<>>
    BY DEF LedgerInit
  <2>2. CASE rows[k] = NoRow
    <3>1. Tells(<<>>, FirstStatus, NoRow)
      BY DEF Tells, NoRow, Exists
    <3>. QED
      BY <2>1, <2>2, <3>1, VersionAssumption DEF Explains, NoRow, RowType
  <2>3. CASE rows[k] \in SeededRows
    <3>1. PICK s \in Seeds, contents \in RecordContents : rows[k] = Inserted(s, contents)
      BY <2>3 DEF SeededRows
    <3>2. s \in Statuses /\ s # NoStatus
      BY LedgerAssumption
    <3>3. WithSeed(<<>>, s) = <<Entry("create", NoStatus, s)>>
      BY DEF WithSeed
    <3>4. Explains(<<>>, rows[k])
      BY <3>1, <3>2, <3>3, TellsInserted DEF Explains
    <3>. QED
      BY <2>1, <3>1, <3>2, <3>4, VersionAssumption DEF Inserted, RowType, CanInsert, Exists
  <2>. QED
    BY <2>2, <2>3 DEF LedgerInit
<1>2. LedgerTypeOK
  BY <1>1 DEF LedgerInit, LedgerTypeOK
<1>. QED
  BY <1>1, <1>2 DEF NoRows, TrailExplainsRow

\* What a step does to one row: it comes into being or is removed, or gets a
\* higher version, or stays as it was.
LEMMA RowStep ==
    ASSUME LedgerTypeOK, LedgerNext \/ UNCHANGED <<rows, trail>>, NEW k \in Records,
           Exists(rows[k])
    PROVE  /\ Exists(rows'[k])
           /\ rows'[k].version >= rows[k].version
           /\ \/ rows'[k] = rows[k]
              \/ rows'[k].deleted
              \/ rows'[k].version > rows[k].version
<1>1. rows[k].version \in Nat
  BY VersionAssumption DEF LedgerTypeOK, RowType
<1>2. CASE rows'[k] = rows[k]
  BY <1>1, <1>2
<1>3. CASE rows'[k] # rows[k]
  <2>1. PICK j \in Records : Create(j) \/ Edit(j) \/ Move(j) \/ Remove(j)
    BY <1>3 DEF LedgerNext
  <2>2. ASSUME NEW row, NEW entry, Change(j, row, entry)
        PROVE  j = k /\ rows'[k] = row
    BY <1>3, <2>2 DEF Change, LedgerTypeOK
  <2>3. CASE Create(j)
    BY <2>2, <2>3 DEF Create, CanInsert
  <2>4. CASE Edit(j)
    BY <1>1, <2>2, <2>4 DEF Edit, Updated, Exists
  <2>5. CASE Move(j)
    <3>1. PICK status \in Statuses :
              rows'[k] = Updated(rows[k], status, rows[k].contents, rows[k].version)
      BY <2>2, <2>5 DEF Move
    <3>. QED
      BY <1>1, <3>1, LedgerAssumption DEF Updated, Exists
  <2>6. CASE Remove(j)
    <3>1. rows'[k] = SoftDeleted(rows[k])
      BY <2>2, <2>6 DEF Remove
    <3>. QED
      BY <1>1, <3>1 DEF SoftDeleted, Exists, LedgerTypeOK, RowType
  <2>. QED
    BY <2>1, <2>3, <2>4, <2>5, <2>6
<1>. QED
  BY <1>2, <1>3

\* What a record has been it will have been for ever.
LEMMA HasBeenPersists ==
    ASSUME LedgerTypeOK, LedgerNext \/ UNCHANGED <<rows, trail>>, NEW k \in Records,
           Exists(rows[k]), NEW status, HasBeen(k, status)
    PROVE  HasBeen(k, status)'
<1>1. CASE rows'[k] = rows[k] /\ trail'[k] = trail[k]
  BY <1>1 DEF HasBeen
<1>2. CASE ~(rows'[k] = rows[k] /\ trail'[k] = trail[k])
  <2>1. PICK j \in Records : Create(j) \/ Edit(j) \/ Move(j) \/ Remove(j)
    BY <1>2 DEF LedgerNext
  <2>. PICK n \in Nat : n = Len(trail[k])
    BY DEF LedgerTypeOK
  <2>2. ASSUME NEW row, NEW entry, Change(j, row, entry)
        PROVE  /\ j = k
               /\ rows'[k] = row
               /\ trail'[k][n + 1] = entry
               /\ Len(trail'[k]) = n + 1
               /\ \A i \in 1..n : trail'[k][i] = trail[k][i]
    <3>1. j = k
      BY <1>2, <2>2, ChangeEffect
    <3>2. trail'[k] = Append(trail[k], entry) /\ rows'[k] = row
      BY <2>2, <3>1, ChangeEffect
    <3>3. trail[k] \in Seq(Entries)
      BY DEF LedgerTypeOK
    <3>. QED
      BY <3>1, <3>2, <3>3
  <2>3. ASSUME NEW row, NEW entry, Change(j, row, entry),
               row.status = rows[k].status \/ entry.before = rows[k].status
        PROVE  HasBeen(k, status)'
    <3>1. CASE rows[k].status = status
      <4>1. CASE row.status = status
        BY <2>2, <2>3, <4>1 DEF HasBeen
      <4>2. CASE entry.before = status
        BY <2>2, <2>3, <4>2 DEF HasBeen
      <4>. QED
        BY <2>3, <3>1, <4>1, <4>2
    <3>2. CASE \E i \in 1..n : trail[k][i].before = status
      <4>1. PICK i \in 1..n : trail[k][i].before = status
        BY <3>2
      <4>2. i \in 1..(n + 1)
        OBVIOUS
      <4>3. trail'[k][i].before = status /\ Len(trail'[k]) = n + 1
        BY <2>2, <2>3, <4>1
      <4>. QED
        BY <4>2, <4>3 DEF HasBeen
    <3>. QED
      BY <3>1, <3>2 DEF HasBeen
  <2>4. CASE Create(j)
    BY <2>2, <2>4 DEF Create, CanInsert
  <2>5. CASE Edit(j)
    BY <2>2, <2>3, <2>5 DEF Edit, Entry
  <2>6. CASE Move(j)
    BY <2>2, <2>3, <2>6 DEF Move, Entry
  <2>7. CASE Remove(j)
    BY <2>2, <2>3, <2>7 DEF Remove, SoftDeleted, LedgerTypeOK, RowType
  <2>. QED
    BY <2>1, <2>4, <2>5, <2>6, <2>7
<1>. QED
  BY <1>1, <1>2

\* In every aggregate that behaves like the ledger, for any status graph, the
\* audit trail of each record explains its row.
THEOREM TrailAlwaysExplains == LedgerSpec => []TrailExplainsRow
<1>. DEFINE Inv == LedgerTypeOK /\ NoRows /\ TrailExplainsRow
<1>1. LedgerInit => Inv
  BY LedgerStart
<1>2. Inv /\ [LedgerNext]_ledgerVars => Inv'
  <2>1. CASE UNCHANGED ledgerVars
    BY <2>1 DEF ledgerVars, LedgerTypeOK, NoRows, TrailExplainsRow
  <2>2. CASE LedgerNext
    BY <2>2, LedgerTypeStep, NoRowsStep, TrailStep
  <2>. QED
    BY <2>1, <2>2
<1>. QED
  BY <1>1, <1>2, PTL DEF LedgerSpec
-----------------------------------------------------------------------------
(* Type correctness                                                        *)

\* What a request in flight can be, by its operation.
LEMMA RequestShape ==
    ASSUME ServiceTypeOK, NEW r \in Requests, inflight[r] # Idle
    PROVE  /\ inflight[r] \in Request
           /\ inflight[r].record \in Records
           /\ inflight[r].op # "delete" => inflight[r] \in WriteRequest
           /\ inflight[r].op = "delete" => inflight[r] \in DeleteRequest
BY DEF ServiceTypeOK, Request, WriteRequest, DeleteRequest

\* A live row has contents of the right type.
LEMMA FoundContents ==
    ASSUME ServiceTypeOK, NEW k \in Records, Found(rows[k])
    PROVE  /\ rows[k].status \in Statuses
           /\ rows[k].contents \in RecordContents
           /\ rows[k].version \in 0..MaxVersion
           /\ rows[k].version \in Nat
           /\ rows[k].deleted = FALSE
BY FoundRow DEF ServiceTypeOK, Found

LEMMA BeginType ==
    ASSUME ServiceTypeOK, NEW r \in Requests, Begin(r)
    PROVE  /\ inflight' \in [Requests -> Request \cup {Idle}]
           /\ UNCHANGED <<rows, trail>>
<1>1. PICK k \in Records, stage \in Stages \cup {"commit"} :
        \/ \E contents \in RecordContents : BeginCreate(r, k, contents, stage)
        \/ \E contents \in RecordContents, e \in 1..MaxVersion :
               BeginUpdate(r, k, contents, e, stage)
        \/ \E target \in Statuses, e \in 1..MaxVersion : BeginTransition(r, k, target, e, stage)
        \/ BeginDelete(r, k)
  BY DEF Begin
<1>2. SUFFICES ASSUME NEW q \in Request, Start(r, q)
               PROVE  /\ inflight' \in [Requests -> Request \cup {Idle}]
                      /\ UNCHANGED <<rows, trail>>
  <2>1. CASE \E contents \in RecordContents : BeginCreate(r, k, contents, stage)
    <3>1. 0 \in 0..(MaxVersion - 1)
      BY VersionAssumption
    <3>. QED
      BY <2>1, <3>1, <1>2, LedgerAssumption DEF BeginCreate, Request, WriteRequest
  <2>2. CASE \E contents \in RecordContents, e \in 1..MaxVersion :
                BeginUpdate(r, k, contents, e, stage)
    <3>1. PICK contents \in RecordContents, e \in 1..MaxVersion :
              BeginUpdate(r, k, contents, e, stage)
      BY <2>2
    <3>2. e \in 0..(MaxVersion - 1)
      BY <3>1, VersionAssumption DEF BeginUpdate, ClientVersions
    <3>3. rows[k].status \in Statuses
      BY <3>1, FoundContents DEF BeginUpdate
    <3>. QED
      BY <3>1, <3>2, <3>3, <1>2 DEF BeginUpdate, Request, WriteRequest
  <2>3. CASE \E target \in Statuses, e \in 1..MaxVersion : BeginTransition(r, k, target, e, stage)
    <3>1. PICK target \in Statuses, e \in 1..MaxVersion : BeginTransition(r, k, target, e, stage)
      BY <2>3
    <3>2. e \in 0..(MaxVersion - 1)
      BY <3>1, VersionAssumption DEF BeginTransition, ClientVersions
    <3>3. rows[k].status \in Statuses /\ rows[k].contents \in RecordContents
      BY <3>1, FoundContents DEF BeginTransition
    <3>. QED
      BY <3>1, <3>2, <3>3, <1>2 DEF BeginTransition, Request, WriteRequest
  <2>4. CASE BeginDelete(r, k)
    <3>1. rows[k].status \in Statuses
      BY <2>4, FoundContents DEF BeginDelete
    <3>. QED
      BY <2>4, <3>1, <1>2 DEF BeginDelete, Request, DeleteRequest
  <2>. QED
    BY <1>1, <2>1, <2>2, <2>3, <2>4
<1>. QED
  BY <1>2 DEF Start, ServiceTypeOK

LEMMA LookupType ==
    ASSUME ServiceTypeOK, NEW r \in Requests, Lookup(r)
    PROVE  /\ inflight' \in [Requests -> Request \cup {Idle}]
           /\ UNCHANGED <<rows, trail>>
<1>1. inflight[r] \in WriteRequest
  BY StagesAssumption DEF Lookup, Advance, Idle, ServiceTypeOK, Request, DeleteRequest
<1>2. ASSUME NEW stage \in Stages \cup {"commit"}, Advance(r, stage)
      PROVE  inflight' \in [Requests -> Request \cup {Idle}]
  BY <1>1, <1>2 DEF Advance, ServiceTypeOK, Request, WriteRequest
<1>. QED
  BY <1>2 DEF Lookup, Advance

\* What one transaction leaves behind.
LEMMA WriteType ==
    ASSUME ServiceTypeOK, NEW r \in Requests, inflight[r] # Idle,
           NEW row \in RowType(Statuses, RecordContents, 0..MaxVersion),
           row.contents \in RecordContents, Write(r, row)
    PROVE  /\ LedgerTypeOK'
           /\ \A k \in Records : Exists(rows'[k]) => rows'[k].contents \in RecordContents
<1>. DEFINE q == inflight[r]
            entry == Entry(q.op, q.before, q.status)
<1>1. q \in Request /\ q.record \in Records
  BY RequestShape
<1>2. entry \in Entries
  BY <1>1 DEF Entry, Entries, Request, WriteRequest, DeleteRequest
<1>3. Change(q.record, row, entry)
  BY DEF Write
<1>. HIDE DEF entry
<1>4. LedgerTypeOK
  BY DEF ServiceTypeOK
<1>5. LedgerTypeOK'
  BY <1>1, <1>2, <1>3, <1>4, ChangeType
<1>6. /\ rows'[q.record] = row
      /\ \A k \in Records \ {q.record} : rows'[k] = rows[k]
  BY <1>1, <1>3, <1>4, ChangeEffect
<1>. QED
  BY <1>5, <1>6 DEF ServiceTypeOK

LEMMA CommitType ==
    ASSUME ServiceTypeOK, NEW r \in Requests, Commit(r)
    PROVE  /\ LedgerTypeOK'
           /\ \A k \in Records : Exists(rows'[k]) => rows'[k].contents \in RecordContents
           /\ inflight' \in [Requests -> Request \cup {Idle}]
<1>. DEFINE q == inflight[r]
<1>1. q # Idle
  BY DEF Commit, CommitCreate, CommitSave, CommitDelete, Idle
<1>2. inflight' \in [Requests -> Request \cup {Idle}]
  BY DEF Commit, CommitCreate, CommitSave, CommitDelete, Finish, ServiceTypeOK
<1>3. CASE RollBack
  BY <1>2, <1>3 DEF RollBack, ServiceTypeOK, LedgerTypeOK
<1>4. CASE CommitCreate(r) /\ Write(r, Inserted(q.status, q.contents))
  <2>1. q \in WriteRequest
    BY <1>1, <1>4, RequestShape DEF CommitCreate
  <2>2. /\ Inserted(q.status, q.contents) \in RowType(Statuses, RecordContents, 0..MaxVersion)
        /\ Inserted(q.status, q.contents).contents \in RecordContents
    BY <2>1, VersionAssumption DEF Inserted, RowType, WriteRequest
  <2>. QED
    BY <1>1, <1>2, <1>4, <2>2, WriteType
<1>5. CASE CommitSave(r) /\ Write(r, Updated(rows[q.record], q.status, q.contents, q.expected))
  <2>1. q \in WriteRequest
    BY <1>1, <1>5, RequestShape DEF CommitSave
  <2>2. q.expected + 1 \in 0..MaxVersion
    BY <2>1, VersionAssumption DEF WriteRequest
  <2>3. rows[q.record].deleted \in BOOLEAN
    BY <1>1, <2>1 DEF WriteRequest, ServiceTypeOK, LedgerTypeOK, RowType
  <2>4. /\ Updated(rows[q.record], q.status, q.contents, q.expected)
               \in RowType(Statuses, RecordContents, 0..MaxVersion)
        /\ Updated(rows[q.record], q.status, q.contents, q.expected).contents \in RecordContents
    BY <2>1, <2>2, <2>3 DEF Updated, RowType, WriteRequest
  <2>. QED
    BY <1>1, <1>2, <1>5, <2>4, WriteType
<1>6. CASE CommitDelete(r) /\ CanDelete(rows[q.record]) /\ Write(r, SoftDeleted(rows[q.record]))
  <2>1. q.record \in Records
    BY <1>1, RequestShape
  <2>2. /\ SoftDeleted(rows[q.record]) \in RowType(Statuses, RecordContents, 0..MaxVersion)
        /\ SoftDeleted(rows[q.record]).contents \in RecordContents
    BY <1>6, <2>1, FoundContents
       DEF SoftDeleted, CanDelete, RowType, ServiceTypeOK, LedgerTypeOK
  <2>. QED
    BY <1>1, <1>2, <1>6, <2>2, WriteType
<1>. QED
  BY <1>3, <1>4, <1>5, <1>6 DEF Commit, CommitCreate, CommitSave, CommitDelete

LEMMA ServiceTypeInit == Init => ServiceTypeOK
<1>. SUFFICES ASSUME Init PROVE ServiceTypeOK
  OBVIOUS
<1>1. LedgerTypeOK
  BY LedgerStart DEF Init
<1>2. ASSUME NEW k \in Records, Exists(rows[k])
      PROVE  rows[k].contents \in RecordContents
  <2>1. rows[k] \in SeededRows
    BY <1>2 DEF Init, LedgerInit, Exists, NoRow
  <2>. QED
    BY <2>1 DEF SeededRows, Inserted
<1>. QED
  BY <1>1, <1>2 DEF Init, ServiceTypeOK

LEMMA ServiceTypeStep ==
    ASSUME ServiceTypeOK, [Next]_serviceVars
    PROVE  ServiceTypeOK'
<1>1. CASE UNCHANGED serviceVars
  BY <1>1 DEF serviceVars, ServiceTypeOK, LedgerTypeOK
<1>2. ASSUME NEW r \in Requests, RequestStep(r)
      PROVE  ServiceTypeOK'
  <2>1. CASE Begin(r)
    BY <2>1, BeginType DEF ServiceTypeOK, LedgerTypeOK
  <2>2. CASE Lookup(r)
    BY <2>2, LookupType DEF ServiceTypeOK, LedgerTypeOK
  <2>3. CASE Commit(r)
    BY <2>3, CommitType DEF ServiceTypeOK
  <2>4. CASE End(r)
    BY <2>4 DEF End, Finish, ServiceTypeOK, LedgerTypeOK
  <2>. QED
    BY <1>2, <2>1, <2>2, <2>3, <2>4 DEF RequestStep
<1>. QED
  BY <1>1, <1>2 DEF Next

\* Every variable keeps its type, however many requests are in flight and
\* whatever their clients send.
THEOREM ServiceTypeCorrect == Spec => []ServiceTypeOK
<1>1. ServiceTypeOK /\ [Next]_serviceVars => ServiceTypeOK'
  BY ServiceTypeStep
<1>. QED
  BY <1>1, ServiceTypeInit, PTL DEF Spec
-----------------------------------------------------------------------------
(* The service as a ledger                                                 *)

\* Each commit is one step of the ledger, or rolls back.
LEMMA CommitIsLedgerStep ==
    ASSUME ServiceInductive, NEW r \in Requests, Commit(r)
    PROVE  LedgerNext \/ UNCHANGED <<rows, trail>>
<1>. DEFINE q == inflight[r]
            k == q.record
            row == rows[k]
<1>1. ServiceTypeOK
  BY DEF ServiceInductive
<1>2. q # Idle
  BY DEF Commit, CommitCreate, CommitSave, CommitDelete, Idle
<1>3. RequestSound(q) /\ ReadCurrent(q) /\ k \in Records
  BY <1>1, <1>2, RequestShape DEF ServiceInductive, RequestInv
<1>4. CASE RollBack
  BY <1>4 DEF RollBack
<1>5. CASE q.op = "create" /\ CanInsert(row) /\ Write(r, Inserted(q.status, q.contents))
  <2>1. q.before = NoStatus /\ q.status = FirstStatus
    BY <1>3, <1>5 DEF RequestSound
  <2>2. q.contents \in RecordContents
    BY <1>1, <1>2, <1>5, RequestShape DEF WriteRequest
  <2>3. Create(k)
    BY <1>5, <2>1, <2>2 DEF Create, Write
  <2>. QED
    BY <1>3, <2>3 DEF LedgerNext
<1>6. CASE /\ q.op \in {"update", "transition"} /\ CanUpdate(row, q.expected)
           /\ Write(r, Updated(rows[q.record], q.status, q.contents, q.expected))
  <2>1. q \in WriteRequest
    BY <1>1, <1>2, <1>6, RequestShape
  <2>2. q.expected < MaxVersion
    BY <2>1, VersionAssumption DEF WriteRequest
  <2>3. /\ Found(row) /\ row.version = q.expected
        /\ row.version < MaxVersion
        /\ q.status \in Statuses
        /\ q.contents \in RecordContents
    BY <1>6, <2>1, <2>2 DEF CanUpdate, WriteRequest
  <2>4. /\ row.status = q.before
        /\ q.op = "transition" => row.contents = q.contents
    BY <1>3, <1>6 DEF ReadCurrent, WouldSave
  <2>5. Change(k, Updated(row, q.status, q.contents, row.version), Entry(q.op, row.status, q.status))
    BY <1>6, <2>3, <2>4 DEF Write
  <2>6. CASE q.op = "update"
    <3>1. row.status \in Editable /\ q.status = row.status
      BY <1>3, <2>4, <2>6 DEF RequestSound
    <3>2. Edit(k)
      BY <2>3, <2>5, <2>6, <3>1 DEF Edit
    <3>. QED
      BY <1>3, <3>2 DEF LedgerNext
  <2>7. CASE q.op = "transition"
    <3>1. CanTransition(Graph, row.status, q.status)
      BY <1>3, <2>4, <2>7 DEF RequestSound
    <3>2. Move(k)
      BY <2>3, <2>4, <2>5, <2>7, <3>1 DEF Move
    <3>. QED
      BY <1>3, <3>2 DEF LedgerNext
  <2>. QED
    BY <1>6, <2>6, <2>7
<1>7. CASE q.op = "delete" /\ CanDelete(row) /\ Write(r, SoftDeleted(row))
  <2>1. q.status = "deleted"
    BY <1>1, <1>2, <1>7, RequestShape DEF DeleteRequest
  <2>2. q.before \in Removable /\ HasBeen(k, q.before)
    BY <1>3, <1>7 DEF RequestSound
  <2>3. Remove(k)
    BY <1>7, <2>1, <2>2 DEF Remove, Write
  <2>. QED
    BY <1>3, <2>3 DEF LedgerNext
<1>. QED
  BY <1>4, <1>5, <1>6, <1>7 DEF Commit, CommitCreate, CommitSave, CommitDelete

LEMMA StepIsLedgerStep ==
    ASSUME ServiceInductive, [Next]_serviceVars
    PROVE  LedgerNext \/ UNCHANGED <<rows, trail>>
BY CommitIsLedgerStep
   DEF Next, serviceVars, RequestStep, Begin, BeginCreate, BeginUpdate, BeginTransition,
       BeginDelete, Start, Lookup, Advance, End
-----------------------------------------------------------------------------
(* What requests know                                                      *)

\* A request that a step leaves alone still knows what it knew: where its
\* expected version still matches, the row has not changed.
LEMMA RequestPersists ==
    ASSUME ServiceInductive, [Next]_serviceVars, NEW q \in Request, RequestInv(q)
    PROVE  /\ RequestInv(q)'
           /\ WouldSave(q)' => WouldSave(q) /\ rows'[q.record] = rows[q.record]
<1>. DEFINE k == q.record
<1>1. ServiceTypeOK /\ ServiceTypeOK'
  BY ServiceTypeStep DEF ServiceInductive
<1>2. k \in Records
  BY DEF Request, WriteRequest, DeleteRequest
<1>3. LedgerTypeOK /\ LedgerTypeOK' /\ (LedgerNext \/ UNCHANGED <<rows, trail>>)
  BY <1>1, StepIsLedgerStep DEF ServiceTypeOK
<1>4. CASE q.op \in {"create", "delete"}
  <2>1. q.op = "delete" => Exists(rows'[k]) /\ HasBeen(k, q.before)'
    BY <1>2, <1>3, RowStep, HasBeenPersists DEF RequestInv, RequestSound
  <2>2. RequestSound(q)'
    BY <1>4, <2>1 DEF RequestInv, RequestSound
  <2>. QED
    BY <1>4, <2>2 DEF RequestInv, ReadCurrent, WouldSave
<1>5. CASE q.op \in {"update", "transition"}
  <2>1. /\ Exists(rows[k])
        /\ q.expected <= rows[k].version
    BY <1>5 DEF RequestInv, RequestSound
  <2>2. /\ rows[k].version \in Nat
        /\ q.expected \in Nat
        /\ rows'[k].version \in Nat
    <3>1. q \in WriteRequest
      BY <1>5 DEF Request, DeleteRequest
    <3>2. q.expected \in Nat
      BY <3>1, VersionAssumption DEF WriteRequest
    <3>. QED
      BY <1>2, <1>3, <3>2, VersionAssumption DEF LedgerTypeOK, RowType
  <2>3. /\ Exists(rows'[k])
        /\ rows'[k].version >= rows[k].version
        /\ \/ rows'[k] = rows[k]
           \/ rows'[k].deleted
           \/ rows'[k].version > rows[k].version
    BY <1>2, <1>3, <2>1, RowStep
  <2>4. RequestSound(q)'
    BY <1>5, <2>1, <2>2, <2>3 DEF RequestInv, RequestSound
  <2>5. WouldSave(q)' => WouldSave(q) /\ rows'[k] = rows[k]
    BY <2>1, <2>2, <2>3 DEF WouldSave, CanUpdate, Found
  <2>6. ReadCurrent(q)'
    BY <2>5 DEF RequestInv, ReadCurrent
  <2>. QED
    BY <2>4, <2>5, <2>6 DEF RequestInv
<1>. QED
  BY <1>4, <1>5 DEF Request, WriteRequest, DeleteRequest

\* A client that waits sends no version above the one it was served.
LEMMA WaitingClient ==
    ASSUME Ahead = 0, NEW row, row.version \in Nat, NEW e \in ClientVersions(row)
    PROVE  e <= row.version
BY DEF ClientVersions

\* A request that has just read the row knows it, if its client waits.
LEMMA BeginKnows ==
    ASSUME ServiceTypeOK, Ahead = 0, NEW r \in Requests, Begin(r), NEW q, q = inflight'[r]
    PROVE  RequestInv(q)'
<1>1. PICK k \in Records, stage \in Stages \cup {"commit"} :
        \/ \E contents \in RecordContents : BeginCreate(r, k, contents, stage)
        \/ \E contents \in RecordContents, e \in 1..MaxVersion :
               BeginUpdate(r, k, contents, e, stage)
        \/ \E target \in Statuses, e \in 1..MaxVersion : BeginTransition(r, k, target, e, stage)
        \/ BeginDelete(r, k)
  BY DEF Begin
<1>2. ASSUME NEW request, Start(r, request)
      PROVE  q = request /\ rows' = rows
  BY <1>2 DEF Start, ServiceTypeOK
<1>3. CASE \E contents \in RecordContents : BeginCreate(r, k, contents, stage)
  BY <1>2, <1>3 DEF BeginCreate, RequestInv, RequestSound, ReadCurrent, WouldSave
<1>4. CASE \E contents \in RecordContents, e \in 1..MaxVersion :
              BeginUpdate(r, k, contents, e, stage)
  <2>1. PICK contents \in RecordContents, e \in 1..MaxVersion :
            BeginUpdate(r, k, contents, e, stage)
    BY <1>4
  <2>2. /\ q.op = "update" /\ q.record = k /\ q.expected = e
        /\ q.before = rows[k].status /\ q.status = rows[k].status
        /\ rows' = rows
    BY <1>2, <2>1 DEF BeginUpdate
  <2>3. Found(rows[k]) /\ rows[k].status \in Editable
    BY <2>1 DEF BeginUpdate
  <2>4. e <= rows[k].version
    <3>1. rows[k].version \in Nat
      BY <2>3, FoundContents
    <3>. QED
      BY <2>1, <3>1, WaitingClient DEF BeginUpdate
  <2>. QED
    BY <2>2, <2>3, <2>4 DEF Found, RequestInv, RequestSound, ReadCurrent, WouldSave
<1>5. CASE \E target \in Statuses, e \in 1..MaxVersion : BeginTransition(r, k, target, e, stage)
  <2>1. PICK target \in Statuses, e \in 1..MaxVersion : BeginTransition(r, k, target, e, stage)
    BY <1>5
  <2>2. /\ q.op = "transition" /\ q.record = k /\ q.expected = e
        /\ q.before = rows[k].status /\ q.status = target
        /\ q.contents = rows[k].contents
        /\ rows' = rows
    BY <1>2, <2>1 DEF BeginTransition
  <2>3. Found(rows[k]) /\ CanTransition(Graph, rows[k].status, target)
    BY <2>1 DEF BeginTransition
  <2>4. e <= rows[k].version
    <3>1. rows[k].version \in Nat
      BY <2>3, FoundContents
    <3>. QED
      BY <2>1, <3>1, WaitingClient DEF BeginTransition
  <2>. QED
    BY <2>2, <2>3, <2>4 DEF Found, RequestInv, RequestSound, ReadCurrent, WouldSave
<1>6. CASE BeginDelete(r, k)
  <2>1. /\ q.op = "delete" /\ q.record = k /\ q.before = rows[k].status
        /\ rows' = rows
    BY <1>2, <1>6 DEF BeginDelete
  <2>2. Found(rows[k]) /\ rows[k].status \in Removable
    BY <1>6 DEF BeginDelete
  <2>3. HasBeen(k, rows[k].status)'
    BY <2>1 DEF HasBeen
  <2>. QED
    BY <2>1, <2>2, <2>3 DEF Found, RequestInv, RequestSound, ReadCurrent, WouldSave
<1>. QED
  BY <1>1, <1>3, <1>4, <1>5, <1>6

\* A lookup changes nothing that a request knows.
LEMMA LookupKnows ==
    ASSUME ServiceInductive, NEW r \in Requests, Lookup(r), NEW n, n = inflight'[r]
    PROVE  RequestInv(n)'
<1>. PICK q : q = inflight[r]
  OBVIOUS
<1>1. ServiceTypeOK
  BY DEF ServiceInductive
<1>2. q # Idle
  BY StagesAssumption DEF Lookup, Advance, Idle
<1>3. q \in Request /\ RequestInv(q)
  BY <1>1, <1>2, RequestShape DEF ServiceInductive
<1>4. PICK stage : n = [q EXCEPT !.stage = stage]
  BY <1>1 DEF Lookup, Advance, ServiceTypeOK
<1>5. /\ n.op = q.op /\ n.record = q.record /\ n.before = q.before /\ n.status = q.status
      /\ n.contents = q.contents /\ n.expected = q.expected
  BY <1>3, <1>4 DEF Request, WriteRequest, DeleteRequest
<1>6. rows' = rows /\ trail' = trail
  BY DEF Lookup, Advance
<1>7. HasBeen(q.record, q.before)' <=> HasBeen(q.record, q.before)
  BY <1>6 DEF HasBeen
<1>. QED
  BY <1>3, <1>5, <1>6, <1>7 DEF RequestInv, RequestSound, ReadCurrent, WouldSave
-----------------------------------------------------------------------------
(* The theorems                                                            *)

LEMMA ServiceInductiveInit == Init => ServiceInductive
<1>. SUFFICES ASSUME Init PROVE ServiceInductive
  OBVIOUS
<1>1. NoRows /\ TrailExplainsRow
  BY LedgerStart DEF Init
<1>2. \A r \in Requests : inflight[r] = Idle
  BY DEF Init
<1>. QED
  BY <1>1, <1>2, ServiceTypeInit DEF ServiceInductive

LEMMA ServiceInductiveStep ==
    ASSUME Ahead = 0, ServiceInductive, [Next]_serviceVars
    PROVE  ServiceInductive'
<1>1. ServiceTypeOK'
  BY ServiceTypeStep DEF ServiceInductive
<1>2. NoRows' /\ TrailExplainsRow'
  <2>1. CASE LedgerNext
    BY <2>1, NoRowsStep, TrailStep DEF ServiceInductive, ServiceTypeOK
  <2>2. CASE UNCHANGED <<rows, trail>>
    BY <2>2 DEF ServiceInductive, NoRows, TrailExplainsRow
  <2>. QED
    BY <2>1, <2>2, StepIsLedgerStep
<1>3. ASSUME NEW s \in Requests, inflight'[s] # Idle
      PROVE  RequestInv(inflight[s])'
  <2>. PICK n : n = inflight'[s]
    OBVIOUS
  <2>1. SUFFICES RequestInv(n)'
    BY DEF RequestInv, RequestSound, ReadCurrent, WouldSave, HasBeen
  <2>2. CASE inflight'[s] = inflight[s]
    <3>1. n \in Request /\ RequestInv(n)
      BY <1>3, <2>2, RequestShape DEF ServiceInductive
    <3>. QED
      BY <3>1, RequestPersists
  <2>3. CASE inflight'[s] # inflight[s]
    <3>1. PICK r \in Requests : RequestStep(r)
      BY <2>3 DEF Next, serviceVars
    <3>2. r = s
      BY <2>3, <3>1 DEF ServiceInductive, ServiceTypeOK, RequestStep, Begin, BeginCreate,
         BeginUpdate, BeginTransition, BeginDelete, Start, Lookup, Advance, Commit,
         CommitCreate, CommitSave, CommitDelete, End, Finish
    <3>3. CASE Begin(s)
      BY <3>3, BeginKnows DEF ServiceInductive
    <3>4. CASE Lookup(s)
      BY <3>4, LookupKnows
    <3>5. CASE Commit(s) \/ End(s)
      BY <1>3, <3>5 DEF ServiceInductive, ServiceTypeOK, Commit, CommitCreate, CommitSave,
         CommitDelete, End, Finish
    <3>. QED
      BY <3>1, <3>2, <3>3, <3>4, <3>5 DEF RequestStep
  <2>. QED
    BY <2>2, <2>3
<1>. QED
  BY <1>1, <1>2, <1>3 DEF ServiceInductive

\* The inductive invariant holds, for clients that wait.
THEOREM ServiceInvariant == ASSUME Ahead = 0 PROVE Spec => []ServiceInductive
<1>1. ServiceInductive /\ [Next]_serviceVars => ServiceInductive'
  BY ServiceInductiveStep
<1>. QED
  BY <1>1, ServiceInductiveInit, PTL DEF Spec

\* For clients that wait for the answers to their requests, no save ever
\* overwrites a row other than the one its guards were evaluated on.
THEOREM ReadsAreCurrent == ASSUME Ahead = 0 PROVE Spec => []ReadIsCurrent
<1>1. ServiceInductive => ReadIsCurrent
  BY DEF ServiceInductive, ReadIsCurrent, RequestInv
<1>. QED
  BY <1>1, ServiceInvariant, PTL

\* The audit trail explains every record, however requests interleave.
THEOREM TrailsExplainRecords == ASSUME Ahead = 0 PROVE Spec => []TrailExplainsRow
<1>1. ServiceInductive => TrailExplainsRow
  BY DEF ServiceInductive
<1>. QED
  BY <1>1, ServiceInvariant, PTL

\* A service whose requests interleave at every database statement implements
\* the ledger, in which each operation is one step.
THEOREM ServiceImplementsLedger == ASSUME Ahead = 0 PROVE Spec => ImplementsLedger
<1>1. Init => LedgerInit
  BY DEF Init
<1>2. ServiceInductive /\ [Next]_serviceVars => [LedgerNext]_ledgerVars
  BY StepIsLedgerStep DEF ledgerVars
<1>. QED
  BY <1>1, <1>2, ServiceInvariant, PTL DEF Spec, ImplementsLedger, LedgerSpec

\* A step of the ledger leaves what a record says alone, unless the record can
\* be edited.
LEMMA FrozenStep ==
    ASSUME LedgerTypeOK, LedgerNext \/ UNCHANGED <<rows, trail>>, NEW k \in Records,
           rows[k].status \notin Editable \cup {NoStatus}
    PROVE  rows'[k].contents = rows[k].contents
<1>1. CASE rows'[k] = rows[k]
  BY <1>1
<1>2. CASE rows'[k] # rows[k]
  <2>1. PICK j \in Records : Create(j) \/ Edit(j) \/ Move(j) \/ Remove(j)
    BY <1>2 DEF LedgerNext
  <2>2. ASSUME NEW row, NEW entry, Change(j, row, entry)
        PROVE  j = k /\ rows'[k] = row
    BY <1>2, <2>2 DEF Change, LedgerTypeOK
  <2>3. ~Create(j)
    BY <2>2 DEF Create, CanInsert, Exists
  <2>4. ~Edit(j)
    BY <2>2 DEF Edit
  <2>5. CASE Move(j)
    BY <2>2, <2>5 DEF Move, Updated
  <2>6. CASE Remove(j)
    <3>1. rows'[k] = SoftDeleted(rows[k])
      BY <2>2, <2>6 DEF Remove
    <3>. QED
      BY <3>1 DEF SoftDeleted, LedgerTypeOK, RowType
  <2>. QED
    BY <2>1, <2>3, <2>4, <2>5, <2>6
<1>. QED
  BY <1>1, <1>2

\* A step of the ledger moves the status of a record along the graph, and then
\* leaves what the record says alone, or does not move it at all.
LEMMA StatusStep ==
    ASSUME LedgerTypeOK, LedgerNext \/ UNCHANGED <<rows, trail>>, NEW k \in Records,
           Exists(rows[k]), rows'[k].status # rows[k].status
    PROVE  /\ CanTransition(Graph, rows[k].status, rows'[k].status)
           /\ rows'[k].contents = rows[k].contents
<1>1. PICK j \in Records : Create(j) \/ Edit(j) \/ Move(j) \/ Remove(j)
  BY DEF LedgerNext
<1>2. ASSUME NEW row, NEW entry, Change(j, row, entry)
      PROVE  j = k /\ rows'[k] = row
  BY <1>2 DEF Change, LedgerTypeOK
<1>3. ~Create(j)
  BY <1>2 DEF Create, CanInsert
<1>4. ~Edit(j)
  <2>1. SUFFICES ASSUME Edit(j) PROVE FALSE
    OBVIOUS
  <2>2. PICK contents : rows'[k] = Updated(rows[k], rows[k].status, contents, rows[k].version)
    BY <1>2, <2>1 DEF Edit
  <2>. QED
    BY <2>2 DEF Updated
<1>5. CASE Move(j)
  BY <1>2, <1>5 DEF Move, Updated
<1>6. ~Remove(j)
  <2>1. SUFFICES ASSUME Remove(j) PROVE FALSE
    OBVIOUS
  <2>2. rows'[k] = SoftDeleted(rows[k])
    BY <1>2, <2>1 DEF Remove
  <2>. QED
    BY <2>2 DEF SoftDeleted, LedgerTypeOK, RowType
<1>. QED
  BY <1>1, <1>3, <1>4, <1>5, <1>6

\* What a record says is settled when it leaves the editable statuses.
THEOREM RecordsFreeze == ASSUME Ahead = 0 PROVE Spec => FrozenUnlessEditable
<1>1. ServiceInductive /\ [Next]_serviceVars => [\A k \in Records :
        rows[k].status \notin Editable \cup {NoStatus}
        => rows'[k].contents = rows[k].contents]_serviceVars
  BY FrozenStep, StepIsLedgerStep DEF ServiceInductive, ServiceTypeOK
<1>. QED
  BY <1>1, ServiceInvariant, PTL DEF Spec, FrozenUnlessEditable
=============================================================================
