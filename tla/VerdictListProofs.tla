--------------------------- MODULE VerdictListProofs ---------------------------
(***************************************************************************)
(* Proofs about VerdictList, for every value of its constants.             *)
(***************************************************************************)
EXTENDS VerdictListProps, TLAPS

-----------------------------------------------------------------------------
(* The inductive invariant *)

Copy == Row \cup {NoRow}
ReportRecord == [pc : {"idle", "querying", "refreshed"}, id : Ids \cup {Null},
                 copy : Copy, verdict : Verdicts \cup {Null}]
ScanRecord == [job : {"none", "score", "adding", "added", "threshold", "hashes", "urls"},
               todo : [Ids -> Copy], rule : Nat]
EditRecord == [pc : {"idle", "loaded"}, id : Ids \cup {Null}, copy : Copy]

\* TypeOK without its last conjunct.
Types ==
    /\ rows \in [Ids -> Copy]
    /\ threshold \in Nat
    /\ report \in [Reporters -> ReportRecord]
    /\ scan \in [Scanners -> ScanRecord]
    /\ edit \in [Editors -> EditRecord]
    /\ crashes \in Nat

\* What a request in flight holds.
InFlight ==
    /\ \A w \in Reporters : report[w].pc # "idle" => report[w].id \in Ids
    /\ \A w \in Reporters :
         IF report[w].pc = "refreshed"
         THEN report[w].copy \in Row /\ report[w].verdict \in Verdicts
         ELSE report[w].copy = NoRow
    /\ \A e \in Editors : edit[e].pc = "loaded" =>
         edit[e].id \in Ids /\ edit[e].copy \in Row

\* Row i as the table or some task has it.
Version(c, i) ==
    \/ rows[i] = c
    \/ \E s \in Scanners : scan[s].todo[i] = c
    \/ \E e \in Editors : edit[e].id = i /\ edit[e].copy = c
    \/ \E w \in Reporters : report[w].id = i /\ report[w].copy = c

\* All versions of a row are of one list, and only URLs lack a VirusTotal record:
\* a job decides by its copy which of the two a 404 means, and saves to the table.
OneList ==
    \A i \in Ids, c \in Row, d \in Row :
        Version(c, i) /\ Version(d, i) => (IsUrl(c) <=> IsUrl(d))
OnlyUrls ==
    \A i \in Ids, c \in Row : Version(c, i) /\ c.notFound => IsUrl(c)

Inv == Types /\ InFlight /\ OneList /\ OnlyUrls

-----------------------------------------------------------------------------
(* What the operators return *)

\* A new row is a row with a lowered vt_not_found.
LEMMA NewRowType ==
    ASSUME NEW v \in Values
    PROVE  NewRow(v) \in Row /\ ~NewRow(v).notFound
BY DEF NewRow, Row

\* A partial save leaves value and pin alone.
LEMMA MergeType ==
    ASSUME NEW stored \in Row, NEW copy \in Row, NEW fields
    PROVE  /\ Merge(stored, copy, fields) \in Row
           /\ Merge(stored, copy, fields).value = stored.value
           /\ Merge(stored, copy, fields).pinned = stored.pinned
           /\ Merge(stored, copy, fields).active =
                IF "active" \in fields THEN copy.active ELSE stored.active
           /\ Merge(stored, copy, fields).notFound => copy.notFound \/ stored.notFound
BY DEF Merge, Row

\* A scored copy is a row of the same value; is_active is saved only to change
\* it, and never for a pinned copy.
LEMMA ScoredType ==
    ASSUME NEW copy \in Row, NEW verdict \in Verdicts, NEW t \in Nat
    PROVE  LET a == Scored(copy, verdict, t)
           IN /\ a.row \in Row
              /\ a.row.value = copy.value
              /\ ~a.row.notFound
              /\ "active" \in a.fields => a.row.active # copy.active /\ ~copy.pinned
<1> DEFINE active == Judged(copy, verdict, t)
<1>1. verdict.malicious \in Nat
  BY VerdictAssumption
<1>2. active \in BOOLEAN
  <2>1. (verdict.malicious >= t) \in BOOLEAN
    BY <1>1
  <2>2. copy.active \in BOOLEAN
    BY DEF Row
  <2> QED BY <2>1, <2>2, Zenon DEF Judged
<1>3. active # copy.active => ~copy.pinned
  BY DEF Judged
<1> HIDE DEF active
<1>4. [copy EXCEPT !.checked = TRUE, !.score = verdict, !.active = active,
                   !.unavailable = FALSE, !.notFound = FALSE] \in Row
  BY <1>2 DEF Row
<1>5. "active" \notin Lowered(copy, "unavailable") /\ "active" \notin Lowered(copy, "notFound")
  BY DEF Lowered
<1> QED BY <1>3, <1>4, <1>5 DEF Scored, active, Row

\* The same of a copy that VirusTotal does not know.
LEMMA MarkedType ==
    ASSUME NEW copy \in Row
    PROVE  LET a == MarkedNotFound(copy)
           IN /\ a.row \in Row
              /\ a.row.value = copy.value
              /\ "active" \in a.fields => a.row.active # copy.active /\ ~copy.pinned
<1>1. "active" \notin Lowered(copy, "unavailable")
  BY DEF Lowered
<1> QED BY <1>1 DEF MarkedNotFound, Row

\* The same of a re-evaluated copy that has a score or is pinned.
LEMMA ReappliedType ==
    ASSUME NEW copy \in Row, NEW t \in Nat, copy.pinned \/ copy.score # Null
    PROVE  LET a == Reapplied(copy, t)
           IN /\ a.row \in Row
              /\ a.row.value = copy.value
              /\ a.row.notFound = copy.notFound
              /\ "active" \in a.fields => a.row.active # copy.active /\ ~copy.pinned
<1>1. CASE copy.pinned
  BY <1>1 DEF Reapplied
<1>2. CASE ~copy.pinned
  <2>1. copy.score \in Verdicts
    BY <1>2 DEF Row
  <2>2. copy.score.malicious \in Nat
    BY <2>1, VerdictAssumption
  <2> DEFINE active == copy.score.malicious >= t
  <2>3. active \in BOOLEAN
    BY <2>2
  <2> HIDE DEF active
  <2>4. [copy EXCEPT !.active = active] \in Row
    BY <2>3 DEF Row
  <2> QED BY <1>2, <2>4 DEF Reapplied, active, Row
<1> QED BY <1>1, <1>2

-----------------------------------------------------------------------------
(* Where the versions of a row come from *)

\* A version that a save makes of an existing one.
Child(c, i) ==
    /\ c.notFound => IsUrl(c)
    /\ \E d \in Row : Version(d, i) /\ (IsUrl(c) <=> IsUrl(d))

RowsFrom == \A i \in Ids : rows'[i] \in Row => Version(rows'[i], i) \/ Child(rows'[i], i)
ScanFrom == \A s \in Scanners, i \in Ids :
    scan'[s].todo[i] \in Row => Version(scan'[s].todo[i], i)
EditFrom == \A e \in Editors, i \in Ids :
    edit'[e].id = i /\ edit'[e].copy \in Row => Version(edit'[e].copy, i)
ReportFrom == \A w \in Reporters, i \in Ids :
    report'[w].id = i /\ report'[w].copy \in Row => Version(report'[w].copy, i)

\* What a step leaves alone has the versions it had.
LEMMA SameFrom ==
    /\ rows' = rows => RowsFrom
    /\ scan' = scan => ScanFrom
    /\ edit' = edit => EditFrom
    /\ report' = report => ReportFrom
BY DEF RowsFrom, ScanFrom, EditFrom, ReportFrom, Version

\* A step whose versions are old ones or their children keeps both conjuncts.
LEMMA VersionsKept ==
    ASSUME Inv, RowsFrom, ScanFrom, EditFrom, ReportFrom
    PROVE  OneList' /\ OnlyUrls'
<1>1. ASSUME NEW i \in Ids, NEW c \in Row, Version(c, i)' PROVE Version(c, i) \/ Child(c, i)
  <2>1. CASE rows'[i] = c
    BY <2>1, RowsFrom DEF RowsFrom
  <2>2. CASE \E s \in Scanners : scan'[s].todo[i] = c
    BY <2>2, ScanFrom DEF ScanFrom
  <2>3. CASE \E e \in Editors : edit'[e].id = i /\ edit'[e].copy = c
    BY <2>3, EditFrom DEF EditFrom
  <2>4. CASE \E w \in Reporters : report'[w].id = i /\ report'[w].copy = c
    BY <2>4, ReportFrom DEF ReportFrom
  <2> QED BY <1>1, <2>1, <2>2, <2>3, <2>4 DEF Version
<1>2. ASSUME NEW i \in Ids, NEW c \in Row, Version(c, i)' PROVE Child(c, i)
  BY <1>1, <1>2 DEF Child, Inv, OnlyUrls
<1>3. OnlyUrls'
  <2> SUFFICES ASSUME NEW i \in Ids, NEW c \in Row, Version(c, i)', c.notFound
               PROVE  IsUrl(c)
    BY DEF OnlyUrls, IsUrl
  <2> QED BY <1>2 DEF Child
<1>4. OneList'
  <2> SUFFICES ASSUME NEW i \in Ids, NEW c \in Row, NEW d \in Row,
                      Version(c, i)', Version(d, i)'
               PROVE  IsUrl(c) <=> IsUrl(d)
    BY DEF OneList, IsUrl
  <2>1. PICK x \in Row : Version(x, i) /\ (IsUrl(c) <=> IsUrl(x))
    BY <1>2 DEF Child
  <2>2. PICK y \in Row : Version(y, i) /\ (IsUrl(d) <=> IsUrl(y))
    BY <1>2 DEF Child
  <2>3. IsUrl(x) <=> IsUrl(y)
    BY <2>1, <2>2 DEF Inv, OneList
  <2> QED BY <2>1, <2>2, <2>3
<1> QED BY <1>3, <1>4

\* A row under an id nobody holds is its only version.
LEMMA FreshKept ==
    ASSUME Inv, NEW i \in Fresh, NEW v \in Values,
           rows' = [rows EXCEPT ![i] = NewRow(v)],
           \A s \in Scanners, j \in Ids :
               \/ scan'[s].todo[j] = scan[s].todo[j]
               \/ j = i /\ scan'[s].todo[j] = NewRow(v),
           edit' = edit,
           \A w \in Reporters : \/ report'[w] = report[w]
                                \/ report'[w].copy = NoRow
    PROVE  OneList' /\ OnlyUrls'
<1> USE DEF Inv
<1>1. i \in Ids /\ i \notin Held
  BY DEF Fresh
<1>2. /\ \A w \in Reporters : report[w].id # i
      /\ \A e \in Editors : edit[e].id # i
      /\ \A s \in Scanners : scan[s].todo[i] = NoRow
  BY <1>1 DEF Held
<1>3. rows'[i] = NewRow(v) /\ \A j \in Ids \ {i} : rows'[j] = rows[j]
  BY <1>1 DEF Types
<1>4. ASSUME NEW j \in Ids, NEW c \in Row, Version(c, j)'
      PROVE  IF j = i THEN c = NewRow(v) ELSE Version(c, j)
  <2>1. c # NoRow
    BY NoRowIsNone
  <2>2. CASE rows'[j] = c
    BY <1>3, <2>2 DEF Version
  <2>3. CASE \E s \in Scanners : scan'[s].todo[j] = c
    BY <1>2, <2>1, <2>3 DEF Version
  <2>4. CASE \E e \in Editors : edit'[e].id = j /\ edit'[e].copy = c
    BY <1>2, <2>4 DEF Version
  <2>5. CASE \E w \in Reporters : report'[w].id = j /\ report'[w].copy = c
    BY <1>2, <2>1, <2>5 DEF Version
  <2> QED BY <1>4, <2>2, <2>3, <2>4, <2>5 DEF Version
<1>5. OnlyUrls'
  <2> SUFFICES ASSUME NEW j \in Ids, NEW c \in Row, Version(c, j)', c.notFound
               PROVE  IsUrl(c)
    BY DEF OnlyUrls, IsUrl
  <2> QED BY <1>4, NewRowType DEF OnlyUrls
<1>6. OneList'
  <2> SUFFICES ASSUME NEW j \in Ids, NEW c \in Row, NEW d \in Row,
                      Version(c, j)', Version(d, j)'
               PROVE  IsUrl(c) <=> IsUrl(d)
    BY DEF OneList, IsUrl
  <2> QED BY <1>4 DEF OneList
<1> QED BY <1>5, <1>6

-----------------------------------------------------------------------------
(* Jobs *)

Jobs == {"none", "score", "adding", "added", "threshold", "hashes", "urls"}

\* Loading rows copies what the table has.
LEMMA StartKept ==
    ASSUME Types, NEW s \in Scanners, NEW job \in Jobs, NEW S, NEW rule \in Nat,
           Start(s, job, S, rule)
    PROVE  scan' \in [Scanners -> ScanRecord] /\ ScanFrom
<1> DEFINE rec == [job |-> job, todo |-> Copies(S), rule |-> rule]
<1>1. Copies(S) \in [Ids -> Copy] /\ NothingToDo \in [Ids -> Copy]
  BY DEF Types, Copies, NothingToDo, Copy
<1>2. rec \in ScanRecord /\ IdleScan \in ScanRecord
  BY <1>1 DEF ScanRecord, Jobs, IdleScan
<1>3. scan' = [scan EXCEPT ![s] = Settled(rec)]
  BY DEF Start
<1>4. Settled(rec) \in {rec, IdleScan}
  BY DEF Settled
<1>5. \A i \in Ids : Settled(rec).todo[i] \in {rows[i], NoRow}
  BY <1>4 DEF IdleScan, NothingToDo, Copies
<1>6. scan' \in [Scanners -> ScanRecord]
  BY <1>2, <1>3, <1>4 DEF Types
<1>7. ScanFrom
  <2> SUFFICES ASSUME NEW t \in Scanners, NEW i \in Ids, scan'[t].todo[i] \in Row
               PROVE  Version(scan'[t].todo[i], i)
    BY DEF ScanFrom
  <2>1. CASE t = s
    BY <1>3, <1>5, <2>1, NoRowIsNone DEF Types, Version
  <2>2. CASE t # s
    BY <1>3, <2>2 DEF Types, Version
  <2> QED BY <2>1, <2>2
<1> QED BY <1>6, <1>7

\* Going on to the next row drops copies and makes none.
LEMMA AfterKept ==
    ASSUME Types, NEW s \in Scanners, NEW i \in Ids, NEW failed \in BOOLEAN,
           After(s, i, failed)
    PROVE  scan' \in [Scanners -> ScanRecord] /\ ScanFrom
<1> DEFINE job == IF scan[s].job = "adding" THEN "added" ELSE scan[s].job
           rest == [job |-> job, todo |-> [scan[s].todo EXCEPT ![i] = NoRow],
                    rule |-> scan[s].rule]
<1>1. scan[s] \in ScanRecord
  BY DEF Types
<1>2. job \in Jobs
  BY <1>1 DEF ScanRecord, Jobs
<1> HIDE DEF job
<1>4. rest \in ScanRecord /\ \A j \in Ids : rest.todo[j] \in {scan[s].todo[j], NoRow}
  BY <1>1, <1>2 DEF ScanRecord, Jobs, Copy
<1>5. IdleScan \in ScanRecord
  BY DEF IdleScan, ScanRecord, NothingToDo, Copy
<1>6. scan'[s] \in {rest, IdleScan} /\ scan' = [scan EXCEPT ![s] = scan'[s]]
  BY DEF After, Settled, Types, job
<1>7. scan' \in [Scanners -> ScanRecord]
  BY <1>4, <1>5, <1>6 DEF Types
<1>8. ScanFrom
  <2> SUFFICES ASSUME NEW t \in Scanners, NEW j \in Ids, scan'[t].todo[j] \in Row
               PROVE  Version(scan'[t].todo[j], j)
    BY DEF ScanFrom
  <2>1. CASE t = s
    <3>1. rest.todo[j] \in {scan[s].todo[j], NoRow} /\ IdleScan.todo[j] = NoRow
      BY <1>4 DEF IdleScan, NothingToDo
    <3> HIDE DEF rest
    <3>2. scan'[s].todo[j] \in {scan[s].todo[j], NoRow}
      BY <1>6, <3>1
    <3> QED BY <2>1, <3>2, NoRowIsNone DEF Version
  <2>2. CASE t # s
    BY <1>6, <2>2 DEF Types, Version
  <2> QED BY <2>1, <2>2
<1> QED BY <1>7, <1>8

\* The save of a changed copy keeps the invariant if the copy is still of its list.
LEMMA SaveKept ==
    ASSUME Inv, NEW s \in Scanners, NEW i \in Ids, NEW a,
           scan[s].todo[i] \in Row, a.row \in Row,
           a.row.notFound => IsUrl(scan[s].todo[i]),
           ScanSave(s, i, a)
    PROVE  Inv'
<1> USE DEF Inv
<1> DEFINE failed == a.fields # {} /\ ~Exists(i)
           saved == Merge(rows[i], a.row, a.fields)
<1>1. /\ rows' = IF a.fields = {} \/ failed THEN rows ELSE [rows EXCEPT ![i] = saved]
      /\ After(s, i, failed)
      /\ UNCHANGED <<threshold, report, edit, crashes>>
  BY DEF ScanSave
<1>2. scan' \in [Scanners -> ScanRecord] /\ ScanFrom
  BY <1>1, AfterKept
<1>3. Exists(i) => rows[i] \in Row
  BY DEF Types, Exists, Copy
<1>4. Exists(i) => saved \in Row /\ Child(saved, i)
  <2> HAVE Exists(i)
  <2>1. saved \in Row /\ saved.value = rows[i].value
        /\ (saved.notFound => a.row.notFound \/ rows[i].notFound)
    BY <1>3, MergeType
  <2>2. Version(rows[i], i) /\ Version(scan[s].todo[i], i)
    BY DEF Version
  <2>3. rows[i].notFound => IsUrl(rows[i])
    BY <1>3, <2>2 DEF OnlyUrls
  <2>4. IsUrl(scan[s].todo[i]) <=> IsUrl(rows[i])
    BY <1>3, <2>2 DEF OneList
  <2>5. IsUrl(saved) <=> IsUrl(rows[i])
    BY <1>3, <2>1, NoRowIsNone DEF IsUrl
  <2> HIDE DEF saved
  <2> QED BY <1>3, <2>1, <2>2, <2>3, <2>4, <2>5 DEF Child
<1> HIDE DEF saved
<1>5. rows' \in [Ids -> Copy]
  BY <1>1, <1>4 DEF Types, Copy
<1>6. RowsFrom
  <2> SUFFICES ASSUME NEW j \in Ids, rows'[j] \in Row
               PROVE  Version(rows'[j], j) \/ Child(rows'[j], j)
    BY DEF RowsFrom
  <2>1. CASE rows'[j] = rows[j]
    BY <2>1 DEF Version
  <2>2. CASE rows'[j] # rows[j]
    BY <1>1, <1>4, <2>2 DEF Types
  <2> QED BY <2>1, <2>2
<1>7. EditFrom /\ ReportFrom
  BY <1>1, SameFrom
<1>8. OneList' /\ OnlyUrls'
  BY <1>2, <1>6, <1>7, VersionsKept
<1>9. Types' /\ InFlight'
  BY <1>1, <1>2, <1>5 DEF Types, InFlight
<1> QED BY <1>8, <1>9

-----------------------------------------------------------------------------
(* Every step keeps the invariant *)

\* The four sources and the two type conjuncts are all there is to show.
LEMMA FromKept ==
    ASSUME Inv, Types', InFlight', RowsFrom, ScanFrom, EditFrom, ReportFrom
    PROVE  Inv'
BY VersionsKept DEF Inv

\* A task that gives up holds nothing.
LEMMA IdleTypes ==
    /\ IdleReport \in ReportRecord /\ IdleReport.copy = NoRow /\ IdleReport.pc = "idle"
    /\ IdleScan \in ScanRecord /\ \A i \in Ids : IdleScan.todo[i] = NoRow
    /\ IdleEdit \in EditRecord /\ IdleEdit.copy = NoRow /\ IdleEdit.pc = "idle"
BY DEF IdleReport, ReportRecord, IdleScan, ScanRecord, IdleEdit, EditRecord,
       NothingToDo, Copy

\* The initial state: no rows, no tasks.
LEMMA InitInv == Init => Inv
<1> HAVE Init
<1>1. Types /\ InFlight
  BY IdleTypes, VerdictBounds DEF Init, Types, InFlight, NothingToDo, Copy
<1>2. ASSUME NEW i \in Ids, NEW c \in Row PROVE ~Version(c, i)
  BY IdleTypes, NoRowIsNone DEF Init, Version, NothingToDo
<1> QED BY <1>1, <1>2 DEF Inv, OneList, OnlyUrls

\* Requests of reporters.
LEMMA ReportKept ==
    ASSUME Inv, NEW w \in Reporters, ReportStep(w)
    PROVE  Inv'
<1> USE DEF Inv
<1>1. ASSUME NEW v \in Values, NEW i \in Ids, NEW auto \in BOOLEAN, ReportReceived(w, v, i, auto)
      PROVE  Inv'
  <2>1. i \in Fresh /\ rows' = [rows EXCEPT ![i] = NewRow(v)]
        /\ UNCHANGED <<threshold, scan, edit, crashes>>
    BY <1>1 DEF ReportReceived
  <2>2. report[w].pc = "idle" /\ report[w].copy = NoRow
    BY <1>1 DEF ReportReceived, InFlight
  <2> DEFINE asked == [report EXCEPT ![w].pc = "querying", ![w].id = i]
  <2>3. report' = report \/ report' = asked
    BY <1>1 DEF ReportReceived
  <2>4. /\ asked \in [Reporters -> ReportRecord]
        /\ asked[w].id = i /\ asked[w].pc = "querying" /\ asked[w].copy = NoRow
        /\ \A x \in Reporters \ {w} : asked[x] = report[x]
    BY <2>2 DEF Types, ReportRecord
  <2> HIDE DEF asked
  <2>5. Types'
    BY <2>1, <2>3, <2>4, NewRowType DEF Types, Copy
  <2>6. InFlight'
    BY <2>1, <2>3, <2>4 DEF InFlight
  <2>7. \A x \in Reporters : report'[x] = report[x] \/ report'[x].copy = NoRow
    BY <2>3, <2>4
  <2>8. OneList' /\ OnlyUrls'
    BY <2>1, <2>7, FreshKept
  <2> QED BY <2>5, <2>6, <2>8
<1>2. ASSUME NEW verdict \in Verdicts, ReportAnswered(w, verdict)
      PROVE  Inv'
  <2> DEFINE i == report[w].id
             next == [pc |-> "refreshed", id |-> i, copy |-> rows[i], verdict |-> verdict]
  <2>1. i \in Ids /\ UNCHANGED <<rows, threshold, scan, edit, crashes>>
    BY <1>2 DEF ReportAnswered, InFlight
  <2>2. report' = [report EXCEPT ![w] = IF Exists(i) THEN next ELSE IdleReport]
    BY <1>2 DEF ReportAnswered
  <2>3. Exists(i) => rows[i] \in Row /\ next \in ReportRecord
    BY <2>1 DEF Exists, Types, Copy, ReportRecord
  <2>4. Types' /\ InFlight'
    BY <2>1, <2>2, <2>3, IdleTypes DEF Types, InFlight
  <2>5. ReportFrom
    BY <2>1, <2>2, IdleTypes, NoRowIsNone DEF ReportFrom, Version, Types
  <2> QED BY <2>1, <2>4, <2>5, SameFrom, FromKept
<1>3. ASSUME ReportApplied(w) PROVE Inv'
  <2> DEFINE r == report[w]
             a == Scored(r.copy, r.verdict, threshold)
             saved == Merge(rows[r.id], a.row, a.fields)
  <2>1. /\ r.id \in Ids /\ r.copy \in Row /\ r.verdict \in Verdicts
        /\ UNCHANGED <<threshold, scan, edit, crashes>>
        /\ report' = [report EXCEPT ![w] = IdleReport]
        /\ rows' = IF Exists(r.id) THEN [rows EXCEPT ![r.id] = saved] ELSE rows
    BY <1>3 DEF ReportApplied, InFlight
  <2>2. a.row \in Row /\ ~a.row.notFound
    BY <2>1, ScoredType DEF Types
  <2>3. Exists(r.id) => rows[r.id] \in Row
    BY <2>1 DEF Exists, Types, Copy
  <2>4. Exists(r.id) => saved \in Row /\ Child(saved, r.id)
    <3> HAVE Exists(r.id)
    <3>1. saved \in Row /\ saved.value = rows[r.id].value
          /\ (saved.notFound => rows[r.id].notFound)
      BY <2>2, <2>3, MergeType
    <3>2. Version(rows[r.id], r.id)
      BY DEF Version
    <3> HIDE DEF saved, r
    <3> QED BY <2>1, <2>3, <3>1, <3>2, NoRowIsNone DEF Child, OnlyUrls, IsUrl
  <2> HIDE DEF saved
  <2>5. Types' /\ InFlight'
    BY <2>1, <2>4, IdleTypes DEF Types, InFlight, Copy
  <2>6. RowsFrom
    BY <2>1, <2>4 DEF RowsFrom, Types, Version
  <2>7. ReportFrom
    BY <2>1, IdleTypes, NoRowIsNone DEF ReportFrom, Version, Types
  <2> QED BY <2>1, <2>5, <2>6, <2>7, SameFrom, FromKept
<1>4. ASSUME ReportUnanswered(w) PROVE Inv'
  <2> DEFINE i == report[w].id
             flagged == [rows[i] EXCEPT !.unavailable = TRUE]
  <2>1. /\ i \in Ids /\ UNCHANGED <<threshold, scan, edit, crashes>>
        /\ report' = [report EXCEPT ![w] = IdleReport]
        /\ rows' = IF Exists(i) THEN [rows EXCEPT ![i] = flagged] ELSE rows
    BY <1>4 DEF ReportUnanswered, InFlight
  <2>2. Exists(i) => flagged \in Row /\ Child(flagged, i)
    <3> HAVE Exists(i)
    <3>1. rows[i] \in Row
      BY <2>1 DEF Exists, Types, Copy
    <3>2. flagged \in Row /\ flagged.value = rows[i].value /\ flagged.notFound = rows[i].notFound
      BY <3>1 DEF Row
    <3>3. Version(rows[i], i)
      BY DEF Version
    <3> HIDE DEF flagged, i
    <3> QED BY <2>1, <3>1, <3>2, <3>3, NoRowIsNone DEF Child, OnlyUrls, IsUrl
  <2> HIDE DEF flagged
  <2>3. Types' /\ InFlight'
    BY <2>1, <2>2, IdleTypes DEF Types, InFlight, Copy
  <2>4. RowsFrom
    BY <2>1, <2>2 DEF RowsFrom, Types, Version
  <2>5. ReportFrom
    BY <2>1, IdleTypes, NoRowIsNone DEF ReportFrom, Version, Types
  <2> QED BY <2>1, <2>3, <2>4, <2>5, SameFrom, FromKept
<1> QED BY <1>1, <1>2, <1>3, <1>4 DEF ReportStep, HashReported, UrlReported, Values

\* A step of a job that leaves everything but its own record alone.
LEMMA ScanOnly ==
    ASSUME Inv, scan' \in [Scanners -> ScanRecord], ScanFrom,
           UNCHANGED <<rows, report, edit, crashes>>, threshold' \in Nat
    PROVE  Inv'
<1>1. Types' /\ InFlight'
  BY DEF Inv, Types, InFlight
<1> QED BY <1>1, SameFrom, FromKept

\* The row a job is asked about is one it holds.
LEMMA HeldCopy ==
    ASSUME Types, NEW s \in Scanners, NEW i \in Ids, scan[s].todo[i] # NoRow
    PROVE  scan[s].todo[i] \in Row
BY DEF Types, ScanRecord, Copy

\* Jobs.
LEMMA ScanKept ==
    ASSUME Inv, NEW s \in Scanners, ScanStep(s)
    PROVE  Inv'
<1> USE DEF Inv
<1>1. ASSUME NEW urls \in BOOLEAN, NEW unchecked \in BOOLEAN, RefreshStarted(s, urls, unchecked)
      PROVE  Inv'
  BY <1>1, StartKept, ScanOnly DEF RefreshStarted, Jobs, Types
<1>2. ASSUME NEW S \in RescorePicks, RescoreStarted(s, S) PROVE Inv'
  BY <1>2, StartKept, ScanOnly DEF RescoreStarted, Jobs, Types
<1>3. ASSUME NEW raw \in Thresholds, ThresholdSaved(s, raw) PROVE Inv'
  <2>1. raw \in Int
    BY VerdictBounds
  <2>2. /\ threshold' = IF raw < 0 THEN 0 ELSE raw
        /\ scan' = [scan EXCEPT ![s].job = "threshold"]
        /\ UNCHANGED <<rows, report, edit, crashes>>
    BY <1>3 DEF ThresholdSaved
  <2>3. threshold' \in Nat
    BY <2>1, <2>2
  <2>4. scan' \in [Scanners -> ScanRecord]
    BY <2>2 DEF Types, ScanRecord
  <2>5. ScanFrom
    BY <2>2 DEF ScanFrom, Version, Types, ScanRecord
  <2> QED BY <2>2, <2>3, <2>4, <2>5, ScanOnly
<1>4. ASSUME NEW v \in Values, NEW i \in Ids, NEW auto \in BOOLEAN, EntryAdded(s, v, i, auto)
      PROVE  Inv'
  <2> DEFINE checks == [job |-> "adding", todo |-> [scan[s].todo EXCEPT ![i] = NewRow(v)],
                        rule |-> 0]
  <2>1. /\ i \in Fresh
        /\ rows' = [rows EXCEPT ![i] = NewRow(v)]
        /\ scan' = IF auto THEN [scan EXCEPT ![s] = checks] ELSE scan
        /\ UNCHANGED <<threshold, report, edit, crashes>>
    BY <1>4 DEF EntryAdded
  <2>2. checks \in ScanRecord
        /\ \A j \in Ids : checks.todo[j] = IF j = i THEN NewRow(v) ELSE scan[s].todo[j]
    BY NewRowType DEF Types, ScanRecord, Copy
  <2> HIDE DEF checks
  <2>3. Types' /\ InFlight'
    BY <2>1, <2>2, NewRowType DEF Types, InFlight, Copy
  <2>4. \A x \in Scanners, j \in Ids : \/ scan'[x].todo[j] = scan[x].todo[j]
                                       \/ j = i /\ scan'[x].todo[j] = NewRow(v)
    BY <2>1, <2>2 DEF Types
  <2>5. OneList' /\ OnlyUrls'
    BY <2>1, <2>4, FreshKept
  <2> QED BY <2>3, <2>5
<1>5. ASSUME HashesLoaded(s) PROVE Inv'
  BY <1>5, StartKept, ScanOnly DEF HashesLoaded, Jobs, Types
<1>6. ASSUME UrlsLoaded(s) PROVE Inv'
  BY <1>6, StartKept, ScanOnly DEF UrlsLoaded, Jobs, Types
<1>7. ASSUME NEW i \in Ids, NEW verdict \in Verdicts, RowScored(s, i, verdict) PROVE Inv'
  <2> DEFINE a == Scored(scan[s].todo[i], verdict, threshold)
  <2>1. scan[s].todo[i] \in Row /\ ScanSave(s, i, a)
    BY <1>7, HeldCopy DEF RowScored, Querying
  <2>2. a.row \in Row /\ ~a.row.notFound
    BY <2>1, ScoredType DEF Types
  <2> HIDE DEF a
  <2> QED BY <2>1, <2>2, SaveKept
<1>8. ASSUME NEW i \in Ids, RowNotFound(s, i) PROVE Inv'
  <2> DEFINE copy == scan[s].todo[i]
             a == IF IsUrl(copy) THEN MarkedNotFound(copy) ELSE Scored(copy, Unknown, threshold)
  <2>1. copy \in Row /\ ScanSave(s, i, a)
    BY <1>8, HeldCopy DEF RowNotFound, Querying
  <2>2. a.row \in Row /\ (a.row.notFound => IsUrl(copy))
    BY <2>1, ScoredType, MarkedType, VerdictAssumption DEF Types
  <2> HIDE DEF a
  <2> QED BY <2>1, <2>2, SaveKept
<1>9. ASSUME NEW i \in Ids, RowUnanswered(s, i) PROVE Inv'
  BY <1>9, AfterKept, ScanOnly DEF RowUnanswered, Types
<1>10. ASSUME NEW i \in Ids, RowReapplied(s, i) PROVE Inv'
  <2> DEFINE copy == scan[s].todo[i]
             a == Reapplied(copy, scan[s].rule)
  <2>1. copy \in Row
    BY <1>10, HeldCopy DEF RowReapplied
  <2>2. CASE ~copy.pinned /\ copy.score = Null
    BY <1>10, <2>2, AfterKept, ScanOnly DEF RowReapplied, Types
  <2>3. CASE copy.pinned \/ copy.score # Null
    <3>1. ScanSave(s, i, a)
      BY <1>10, <2>3 DEF RowReapplied
    <3>2. a.row \in Row /\ a.row.notFound = copy.notFound
      BY <2>1, <2>3, ReappliedType DEF Types, ScanRecord
    <3>3. copy.notFound => IsUrl(copy)
      BY <2>1 DEF OnlyUrls, Version
    <3> HIDE DEF a
    <3> QED BY <2>1, <3>1, <3>2, <3>3, SaveKept
  <2> QED BY <2>2, <2>3
<1> QED BY <1>1, <1>2, <1>3, <1>4, <1>5, <1>6, <1>7, <1>8, <1>9, <1>10
       DEF ScanStep, HashesRefreshed, UrlsRefreshed, HashesRescored, UrlsRescored,
           HashAdded, UrlAdded, Values

\* The operators' pages.
LEMMA EditKept ==
    ASSUME Inv, NEW e \in Editors, EditStep(e)
    PROVE  Inv'
<1> USE DEF Inv
<1>1. ASSUME NEW v \in Values, EntryEdited(e, v) PROVE Inv'
  <2> DEFINE i == edit[e].id
             copy == edit[e].copy
             saved == [copy EXCEPT !.value = v]
  <2>1. /\ i \in Ids /\ copy \in Row /\ IsUrl(copy) = (v \in Urls)
        /\ rows' = rows \/ rows' = [rows EXCEPT ![i] = saved]
        /\ edit' = [edit EXCEPT ![e] = IdleEdit]
        /\ UNCHANGED <<threshold, report, scan, crashes>>
    BY <1>1 DEF EntryEdited, InFlight
  <2>2. saved \in Row /\ saved.value = v /\ saved.notFound = copy.notFound
    BY <2>1 DEF Row
  <2>3. Version(copy, i)
    BY DEF Version
  <2> HIDE DEF saved
  <2>4. (IsUrl(saved) <=> IsUrl(copy)) /\ (copy.notFound => IsUrl(copy))
    BY <2>1, <2>2, <2>3, NoRowIsNone DEF OnlyUrls, IsUrl
  <2>5. Child(saved, i)
    BY <2>1, <2>2, <2>3, <2>4 DEF Child
  <2>6. Types' /\ InFlight'
    BY <2>1, <2>2, IdleTypes DEF Types, InFlight, Copy
  <2>7. RowsFrom
    BY <2>1, <2>5 DEF RowsFrom, Types, Version
  <2>8. EditFrom
    BY <2>1, IdleTypes, NoRowIsNone DEF EditFrom, Version, Types
  <2> QED BY <2>1, <2>6, <2>7, <2>8, SameFrom, FromKept
<1>2. ASSUME NEW i \in Ids, EntryLoaded(e, i) PROVE Inv'
  <2>1. /\ rows[i] \in Row
        /\ edit' = [edit EXCEPT ![e] = [pc |-> "loaded", id |-> i, copy |-> rows[i]]]
        /\ UNCHANGED <<rows, threshold, report, scan, crashes>>
    BY <1>2 DEF EntryLoaded, Exists, Types, Copy
  <2>2. Types' /\ InFlight'
    BY <2>1 DEF Types, InFlight, EditRecord, Copy
  <2>3. EditFrom
    BY <2>1 DEF EditFrom, Version, Types
  <2> QED BY <2>1, <2>2, <2>3, SameFrom, FromKept
<1>3. ASSUME EntryDeleted(e) PROVE Inv'
  <2>1. /\ edit[e].id \in Ids
        /\ rows' = rows \/ rows' = [rows EXCEPT ![edit[e].id] = NoRow]
        /\ edit' = [edit EXCEPT ![e] = IdleEdit]
        /\ UNCHANGED <<threshold, report, scan, crashes>>
    BY <1>3 DEF EntryDeleted, InFlight
  <2>2. Types' /\ InFlight'
    BY <2>1, IdleTypes DEF Types, InFlight, Copy
  <2>3. RowsFrom
    BY <2>1, NoRowIsNone DEF RowsFrom, Types, Version
  <2>4. EditFrom
    BY <2>1, IdleTypes, NoRowIsNone DEF EditFrom, Version, Types
  <2> QED BY <2>1, <2>2, <2>3, <2>4, SameFrom, FromKept
<1>4. ASSUME NEW i \in Ids, NEW on \in BOOLEAN, EntrySwitched(e, i, on) \/ EntryPinned(e, i, on)
      PROVE  Inv'
  <2> DEFINE switched == [rows[i] EXCEPT !.active = on]
             pinned == [rows[i] EXCEPT !.pinned = on]
  <2>1. /\ rows[i] \in Row
        /\ rows' = [rows EXCEPT ![i] = switched] \/ rows' = [rows EXCEPT ![i] = pinned]
        /\ UNCHANGED <<threshold, report, scan, edit, crashes>>
    BY <1>4 DEF EntrySwitched, EntryPinned, Exists, Types, Copy
  <2>2. /\ switched \in Row /\ switched.value = rows[i].value
        /\ switched.notFound = rows[i].notFound
        /\ pinned \in Row /\ pinned.value = rows[i].value
        /\ pinned.notFound = rows[i].notFound
    BY <2>1 DEF Row
  <2>3. Version(rows[i], i)
    BY DEF Version
  <2> HIDE DEF switched, pinned
  <2>4. Child(switched, i) /\ Child(pinned, i)
    BY <2>1, <2>2, <2>3, NoRowIsNone DEF Child, OnlyUrls, IsUrl
  <2>5. Types' /\ InFlight'
    BY <2>1, <2>2 DEF Types, InFlight, Copy
  <2>6. RowsFrom
    BY <2>1, <2>4 DEF RowsFrom, Types, Version
  <2> QED BY <2>1, <2>5, <2>6, SameFrom, FromKept
<1>5. ASSUME NEW on \in BOOLEAN, LoadedSwitched(e, on) \/ LoadedToggled(e) PROVE Inv'
  <2> DEFINE i == edit[e].id
             toggled == ~edit[e].copy.pinned
             switched == [rows[i] EXCEPT !.active = on]
             pinned == [rows[i] EXCEPT !.pinned = toggled]
  <2>1. i \in Ids /\ rows[i] \in Row \cup {NoRow} /\ edit[e].copy \in Row
    BY <1>5 DEF LoadedSwitched, LoadedToggled, InFlight, Types, Copy, EditRecord
  <2>2. /\ rows' = rows \/ (/\ rows[i] \in Row
                           /\ \/ rows' = [rows EXCEPT ![i] = switched]
                              \/ rows' = [rows EXCEPT ![i] = pinned])
        /\ edit' = [edit EXCEPT ![e] = IdleEdit]
        /\ UNCHANGED <<threshold, report, scan, crashes>>
    BY <1>5, <2>1 DEF LoadedSwitched, LoadedToggled, Exists
  <2>3. toggled \in BOOLEAN
    BY <2>1 DEF Row
  <2>4. rows[i] \in Row =>
          /\ switched \in Row /\ switched.value = rows[i].value
          /\ switched.notFound = rows[i].notFound
          /\ pinned \in Row /\ pinned.value = rows[i].value
          /\ pinned.notFound = rows[i].notFound
    BY <2>3 DEF Row
  <2>5. Version(rows[i], i)
    BY DEF Version
  <2> HIDE DEF switched, pinned, toggled, i
  <2>6. rows[i] \in Row => Child(switched, i) /\ Child(pinned, i)
    BY <2>1, <2>4, <2>5, NoRowIsNone DEF Child, OnlyUrls, IsUrl
  <2>7. Types' /\ InFlight'
    BY <2>1, <2>2, <2>4, IdleTypes DEF Types, InFlight, Copy
  <2>8. RowsFrom
    BY <2>1, <2>2, <2>6 DEF RowsFrom, Types, Version
  <2>9. EditFrom
    BY <2>2, IdleTypes, NoRowIsNone DEF EditFrom, Version, Types
  <2> QED BY <2>2, <2>7, <2>8, <2>9, SameFrom, FromKept
<1> QED BY <1>1, <1>2, <1>3, <1>4, <1>5
       DEF EditStep, HashEdited, UrlEdited, HashDeleted, UrlDeleted, HashToggled, UrlToggled,
           HashSwitched, UrlSwitched, HashPinned, UrlPinned, Values

\* Every step of the system.
LEMMA NextInv == Inv /\ [Next]_vars => Inv'
<1> SUFFICES ASSUME Inv, [Next]_vars PROVE Inv'
  OBVIOUS
<1> USE DEF Inv
<1>1. ASSUME NEW i \in Ids, Purged(i) PROVE Inv'
  <2>1. rows' = [rows EXCEPT ![i] = NoRow] /\ UNCHANGED <<threshold, report, scan, edit, crashes>>
    BY <1>1 DEF Purged
  <2>2. Types' /\ InFlight'
    BY <2>1 DEF Types, InFlight, Copy
  <2>3. RowsFrom
    BY <2>1, NoRowIsNone DEF RowsFrom, Types, Version
  <2> QED BY <2>1, <2>2, <2>3, SameFrom, FromKept
<1>2. ASSUME Crash PROVE Inv'
  <2>1. Types' /\ InFlight'
    BY <1>2, IdleTypes DEF Crash, Types, InFlight
  <2>2. ReportFrom /\ ScanFrom /\ EditFrom
    BY <1>2, IdleTypes, NoRowIsNone DEF Crash, ReportFrom, ScanFrom, EditFrom
  <2> QED BY <1>2, <2>1, <2>2, SameFrom, FromKept DEF Crash
<1>3. ASSUME UNCHANGED vars PROVE Inv'
  <2>1. Types' /\ InFlight'
    BY <1>3 DEF vars, Types, InFlight
  <2> QED BY <1>3, <2>1, SameFrom, FromKept DEF vars
<1> QED BY <1>1, <1>2, <1>3, ReportKept, ScanKept, EditKept DEF Next, HashPurged, UrlPurged

\* The invariant holds throughout.
LEMMA AlwaysInv == Spec => []Inv
BY InitInv, NextInv, PTL DEF Spec

\* Every variable and every in-memory copy stays in its domain, and a hash is
\* never marked as unknown to VirusTotal, however the copies of _mark_not_found
\* and _apply_score_to_entry interleave.
THEOREM VerdictTypeCorrect == Spec => []TypeOK
<1>1. Inv => TypeOK
  <2> SUFFICES ASSUME Inv PROVE TypeOK
    OBVIOUS
  <2>1. ASSUME NEW i \in Ids, Exists(i), rows[i].notFound PROVE IsUrl(rows[i])
    <3>1. rows[i] \in Row
      BY <2>1 DEF Inv, Types, Exists, Copy
    <3>2. Version(rows[i], i)
      BY DEF Version
    <3> QED BY <2>1, <3>1, <3>2 DEF Inv, OnlyUrls
  <2> QED BY <2>1 DEF Inv, Types, TypeOK, Copy, ReportRecord, ScanRecord, EditRecord
<1> QED BY <1>1, AlwaysInv, PTL

-----------------------------------------------------------------------------
(* What a late verdict may do to a row, for any number of jobs, operators *)
(* and rows                                                              *)

\* What both properties ask of the step in which job s finishes row i.
Stands(s, i) ==
    IF Exists(i)
    THEN /\ rows'[i] # NoRow
         /\ rows'[i].pinned = rows[i].pinned
         /\ rows'[i].value = rows[i].value
         /\ rows[i].active # scan[s].todo[i].active => rows'[i].active = rows[i].active
         /\ scan[s].todo[i].pinned => rows'[i].active = rows[i].active
    ELSE rows'[i] = NoRow

AllStand == \A s \in Scanners, i \in Ids : Finishes(s, i) => Stands(s, i)

\* A step that leaves the table alone, or every job's copies.
LEMMA UntouchedStands ==
    ASSUME rows' = rows \/ (\A s \in Scanners, i \in Ids : scan'[s].todo[i] = scan[s].todo[i])
    PROVE  AllStand
BY DEF AllStand, Stands, Finishes, Exists

\* is_active is saved only when it differs from an unpinned copy: being one of two
\* values, it then returns to what the table already has, or nobody changed it.
LEMMA SaveStands ==
    ASSUME Types, NEW s \in Scanners, NEW i \in Ids, NEW a,
           scan[s].todo[i] \in Row, a.row \in Row,
           "active" \in a.fields =>
               a.row.active # scan[s].todo[i].active /\ ~scan[s].todo[i].pinned,
           ScanSave(s, i, a)
    PROVE  AllStand
<1> DEFINE copy == scan[s].todo[i]
           saved == Merge(rows[i], a.row, a.fields)
<1>1. CASE rows' = rows
  BY <1>1, UntouchedStands
<1>2. CASE rows' # rows
  <2>1. Exists(i) /\ rows' = [rows EXCEPT ![i] = saved]
    BY <1>2 DEF ScanSave
  <2>2. rows[i] \in Row
    BY <2>1 DEF Exists, Types, Copy
  <2>3. /\ saved \in Row /\ saved.pinned = rows[i].pinned /\ saved.value = rows[i].value
        /\ saved.active = IF "active" \in a.fields THEN a.row.active ELSE rows[i].active
    BY <2>2, MergeType
  <2>4. {rows[i].active, copy.active, a.row.active} \subseteq BOOLEAN
    BY <2>2 DEF Row
  <2> HIDE DEF saved
  <2>5. rows[i].active # copy.active => saved.active = rows[i].active
    <3>1. CASE "active" \in a.fields
      <4>1. saved.active = a.row.active /\ a.row.active # copy.active
        BY <2>3, <3>1
      <4> HIDE DEF copy
      <4> QED BY <2>4, <4>1
    <3>2. CASE "active" \notin a.fields
      BY <2>3, <3>2
    <3> QED BY <3>1, <3>2
  <2>6. copy.pinned => saved.active = rows[i].active
    BY <2>3
  <2>7. Stands(s, i)
    BY <2>1, <2>3, <2>5, <2>6, NoRowIsNone DEF Stands, Types
  <2>8. ASSUME NEW t \in Scanners, NEW j \in Ids, Finishes(t, j) PROVE Stands(t, j)
    <3>1. CASE j # i
      <4>1. rows'[j] = rows[j]
        BY <2>1, <3>1 DEF Types
      <4> QED BY <4>1 DEF Stands, Exists
    <3>2. CASE j = i /\ t # s
      <4>1. scan'[t] = scan[t]
        BY <3>2 DEF ScanSave, After, Types
      <4> QED BY <2>8, <4>1 DEF Finishes
    <3> QED BY <2>7, <3>1, <3>2
  <2> QED BY <2>8 DEF AllStand
<1> QED BY <1>1, <1>2

\* A step that starts or extends a job finishes no row.
LEMMA JobStands ==
    ASSUME Inv, NEW s \in Scanners, ScanStep(s)
    PROVE  AllStand
<1> USE DEF Inv
<1>1. ASSUME NEW v \in Values, NEW i \in Ids, NEW auto \in BOOLEAN, EntryAdded(s, v, i, auto)
      PROVE  AllStand
  <2>1. NewRow(v) # NoRow
    BY NewRowType, NoRowIsNone
  <2>2. ASSUME NEW t \in Scanners, NEW j \in Ids, scan'[t].todo[j] = NoRow
        PROVE  scan[t].todo[j] = NoRow
    BY <1>1, <2>1, <2>2 DEF EntryAdded, Types, ScanRecord
  <2> QED BY <2>2 DEF AllStand, Finishes
<1>2. ASSUME NEW raw \in Thresholds, ThresholdSaved(s, raw) PROVE AllStand
  BY <1>2, UntouchedStands DEF ThresholdSaved
<1>3. ASSUME NEW i \in Ids, NEW verdict \in Verdicts, RowScored(s, i, verdict) PROVE AllStand
  <2> DEFINE a == Scored(scan[s].todo[i], verdict, threshold)
  <2>1. scan[s].todo[i] \in Row /\ ScanSave(s, i, a)
    BY <1>3, HeldCopy DEF RowScored, Querying
  <2>2. /\ a.row \in Row
        /\ "active" \in a.fields =>
             a.row.active # scan[s].todo[i].active /\ ~scan[s].todo[i].pinned
    BY <2>1, ScoredType DEF Types
  <2> HIDE DEF a
  <2> QED BY <2>1, <2>2, SaveStands
<1>4. ASSUME NEW i \in Ids, RowNotFound(s, i) PROVE AllStand
  <2> DEFINE copy == scan[s].todo[i]
             a == IF IsUrl(copy) THEN MarkedNotFound(copy) ELSE Scored(copy, Unknown, threshold)
  <2>1. copy \in Row /\ ScanSave(s, i, a)
    BY <1>4, HeldCopy DEF RowNotFound, Querying
  <2>2. /\ a.row \in Row
        /\ "active" \in a.fields => a.row.active # copy.active /\ ~copy.pinned
    BY <2>1, ScoredType, MarkedType, VerdictAssumption DEF Types
  <2> HIDE DEF a
  <2> QED BY <2>1, <2>2, SaveStands
<1>5. ASSUME NEW i \in Ids, RowReapplied(s, i) PROVE AllStand
  <2> DEFINE copy == scan[s].todo[i]
             a == Reapplied(copy, scan[s].rule)
  <2>1. copy \in Row
    BY <1>5, HeldCopy DEF RowReapplied
  <2>2. CASE ~copy.pinned /\ copy.score = Null
    BY <1>5, <2>2, UntouchedStands DEF RowReapplied
  <2>3. CASE copy.pinned \/ copy.score # Null
    <3>1. ScanSave(s, i, a)
      BY <1>5, <2>3 DEF RowReapplied
    <3>2. /\ a.row \in Row
          /\ "active" \in a.fields => a.row.active # copy.active /\ ~copy.pinned
      BY <2>1, <2>3, ReappliedType DEF Types, ScanRecord
    <3> HIDE DEF a
    <3> QED BY <2>1, <3>1, <3>2, SaveStands
  <2> QED BY <2>2, <2>3
<1>6. ASSUME \/ \E urls \in BOOLEAN, unchecked \in BOOLEAN : RefreshStarted(s, urls, unchecked)
             \/ \E S \in RescorePicks : RescoreStarted(s, S)
             \/ HashesLoaded(s)
             \/ UrlsLoaded(s)
             \/ \E i \in Ids : RowUnanswered(s, i)
      PROVE  AllStand
  <2>1. rows' = rows
    BY <1>6 DEF RefreshStarted, RescoreStarted, HashesLoaded, UrlsLoaded, RowUnanswered
  <2> QED BY <2>1, UntouchedStands
<1> QED BY <1>1, <1>2, <1>3, <1>4, <1>5, <1>6
       DEF ScanStep, HashesRefreshed, UrlsRefreshed, HashesRescored, UrlsRescored,
           HashAdded, UrlAdded, Values

\* Only jobs finish rows; a restart drops them.
LEMMA StepStands == Inv /\ [Next]_vars => AllStand
<1> SUFFICES ASSUME Inv, [Next]_vars PROVE AllStand
  OBVIOUS
<1>1. ASSUME NEW w \in Reporters, ReportStep(w) PROVE AllStand
  <2>1. scan' = scan
    BY <1>1 DEF ReportStep, HashReported, UrlReported, ReportReceived, ReportAnswered, ReportApplied, ReportUnanswered
  <2> QED BY <2>1, UntouchedStands
<1>2. ASSUME NEW e \in Editors, EditStep(e) PROVE AllStand
  <2>1. scan' = scan
    BY <1>2 DEF EditStep, EntryEdited, EntryLoaded, EntryDeleted, EntrySwitched, EntryPinned,
                LoadedSwitched, LoadedToggled, HashEdited, UrlEdited, HashDeleted, UrlDeleted,
                HashToggled, UrlToggled, HashSwitched, UrlSwitched, HashPinned, UrlPinned
  <2> QED BY <2>1, UntouchedStands
<1>3. ASSUME NEW i \in Ids, Purged(i) PROVE AllStand
  BY <1>3, UntouchedStands DEF Purged
<1>4. ASSUME Crash PROVE AllStand
  BY <1>4 DEF Crash, AllStand, Finishes, Inv, Types
<1>5. ASSUME UNCHANGED vars PROVE AllStand
  BY <1>5, UntouchedStands DEF vars
<1> QED BY <1>1, <1>2, <1>3, <1>4, <1>5, JobStands DEF Next, HashPurged, UrlPurged

\* A row switched on or off, edited, pinned or deleted after a job loaded it is
\* left so by the job's late save (_apply_score_to_entry, _mark_not_found,
\* reapply_vt_threshold), for any number of concurrent jobs.
THEOREM OperatorDecides == Spec => OperatorWins
<1> DEFINE Wins == \A s \in Scanners, i \in Ids : Finishes(s, i) =>
         IF Exists(i)
         THEN /\ rows'[i] # NoRow
              /\ rows'[i].pinned = rows[i].pinned
              /\ rows'[i].value = rows[i].value
              /\ rows[i].active # scan[s].todo[i].active => rows'[i].active = rows[i].active
         ELSE rows'[i] = NoRow
<1>1. Inv /\ [Next]_vars => [Wins]_vars
  BY StepStands DEF AllStand, Stands
<1> QED BY <1>1, AlwaysInv, PTL DEF Spec, OperatorWins

\* No job switches a row that was pinned when the job loaded it.
THEOREM PinIsHeld == Spec => PinHeld
<1> DEFINE Holds == \A s \in Scanners, i \in Ids :
         Finishes(s, i) /\ scan[s].todo[i].pinned /\ Exists(i) /\ rows'[i] # NoRow
         => rows'[i].active = rows[i].active
<1>1. Inv /\ [Next]_vars => [Holds]_vars
  BY StepStands DEF AllStand, Stands
<1> QED BY <1>1, AlwaysInv, PTL DEF Spec, PinHeld

=============================================================================
