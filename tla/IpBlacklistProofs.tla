--------------------------- MODULE IpBlacklistProofs ---------------------------
(***************************************************************************)
(* Proofs about IpBlacklist, for every value of its constants.             *)
(***************************************************************************)
EXTENDS IpBlacklistProps, TLAPS

-----------------------------------------------------------------------------
(* What the rules return *)

Fields == {"group", "active", "score", "expires"}

\* An expiry no longer than the longest duration from t.
Bounded(e, t) == e = Null \/ (e \in Nat /\ e <= t + Duration["30d"])

\* Clamping makes settings of anything an administrator types in.
LEMMA ClampedType ==
    ASSUME NEW raw \in RawSettings
    PROVE  Clamped(raw) \in Settings
<1> DEFINE t30d == Higher(0, Lower(100, raw.t30d))
           t24h == Higher(0, Lower(t30d - 1, raw.t24h))
<1>1. raw.t30d \in Int /\ raw.t24h \in Int
  BY DEF RawSettings
<1>2. t30d \in 0 .. 100
  BY <1>1 DEF Higher, Lower
<1>3. t24h \in 0 .. 100
  BY <1>1, <1>2 DEF Higher, Lower
<1> HIDE DEF t30d, t24h
<1>4. [raw EXCEPT !.t24h = t24h, !.t30d = t30d] \in Settings
  BY <1>2, <1>3 DEF RawSettings, Settings
<1> QED BY <1>4 DEF Clamped, t30d, t24h

\* A renewed row is a row; only its expiry changed, and it is bounded.
LEMMA RenewedType ==
    ASSUME NEW row \in Row, NEW t \in Nat
    PROVE  /\ Renewed(row, t) \in Row
           /\ Bounded(Renewed(row, t).expires, t)
           /\ Renewed(row, t).cidr = row.cidr
           /\ Renewed(row, t).group = row.group
           /\ Renewed(row, t).active = row.active
           /\ Renewed(row, t).pinned = row.pinned
           /\ Renewed(row, t).score = row.score
           /\ Renewed(row, t).hits = row.hits
BY DurationAssumption, NullAssumption DEF Row, Renewed, Groups, Published, Bounded

\* save() changes nothing but the state of a no_group row.
LEMMA NormalType ==
    ASSUME NEW row \in Row
    PROVE  /\ Normal(row) \in Row
           /\ Normal(row).expires = row.expires
           /\ Normal(row).cidr = row.cidr
           /\ Normal(row).group = row.group
           /\ Normal(row).score = row.score
           /\ Normal(row).hits = row.hits
           /\ Normal(row).active => row.active
BY DEF Row, Normal

\* Recording a report yields a history.
LEMMA RecordedHitType ==
    ASSUME NEW hits \in [Times -> Nat], NEW t \in Times
    PROVE  RecordedHit(hits, t) \in [Times -> Nat]
BY DEF RecordedHit

\* A partial save leaves cidr, pin and history alone.
LEMMA MergeType ==
    ASSUME NEW stored \in Row, NEW copy \in Row, NEW fields
    PROVE  /\ Merge(stored, copy, fields) \in Row
           /\ Merge(stored, copy, fields).cidr = stored.cidr
           /\ Merge(stored, copy, fields).pinned = stored.pinned
           /\ Merge(stored, copy, fields).hits = stored.hits
           /\ Merge(stored, copy, fields).expires =
                IF "expires" \in fields THEN copy.expires ELSE stored.expires
           /\ Merge(stored, copy, fields).active =>
                IF "active" \in fields THEN copy.active ELSE stored.active
<1>1. Normal(copy) \in Row /\ Normal(copy).expires = copy.expires
      /\ (Normal(copy).active => copy.active)
  BY NormalType
<1> QED BY <1>1 DEF Merge, Row

\* A score at or above the 24h threshold has a published target.
LEMMA TargetType ==
    ASSUME NEW row, NEW score, NEW s, NEW t, score >= s.t24h
    PROVE  Target(row, score, s, t) \in Published
BY DEF Target, GroupByScore, Published

\* A scored copy is a row, saved on the four score columns only; it never turns
\* active, and a saved expiry is bounded.
LEMMA AppliedType ==
    ASSUME NEW copy \in Row, NEW score \in Scores, NEW s \in Settings,
           NEW t \in Nat, NEW taken
    PROVE  LET a == Applied(copy, score, s, t, taken)
           IN /\ a.row \in Row
              /\ a.fields \subseteq Fields
              /\ "active" \in a.fields => ~a.row.active
              /\ "expires" \in a.fields => Bounded(a.row.expires, t)
<1> DEFINE scored == [copy EXCEPT !.score = score]
           target == Target(copy, score, s, t)
           moved == target # copy.group /\ target \notin taken
           placed == IF moved THEN [scored EXCEPT !.group = target] ELSE scored
<1>1. scored \in Row
  BY DEF Row
<1>2. [scored EXCEPT !.active = FALSE] \in Row
      /\ ~[scored EXCEPT !.active = FALSE].active
  BY <1>1 DEF Row
<1>3. score >= s.t24h => placed \in Row
  <2>1. score >= s.t24h => target \in Groups
    BY TargetType DEF Published, Groups
  <2> HIDE DEF target
  <2> QED BY <1>1, <2>1 DEF Row
<1>4. score >= s.t24h => /\ Renewed(placed, t) \in Row
                         /\ Bounded(Renewed(placed, t).expires, t)
  BY <1>3, RenewedType
<1>5. score < s.t24h \/ score >= s.t24h
  BY ScoresAssumption DEF Settings
<1> DEFINE fresh == IF moved \/ copy.score # score THEN Renewed(placed, t) ELSE placed
           a == Applied(copy, score, s, t, taken)
<1>6. CASE copy.pinned
  BY <1>1, <1>6 DEF Applied, Fields
<1>7. CASE ~copy.pinned /\ score < s.t24h
  BY <1>2, <1>7 DEF Applied, Fields
<1>8. CASE ~copy.pinned /\ score >= s.t24h
  <2>1. ~(score < s.t24h)
    BY <1>8, ScoresAssumption DEF Settings
  <2>2. a = [row    |-> fresh,
             fields |-> {"score"} \cup (IF moved THEN {"group"} ELSE {})
                                  \cup (IF moved \/ copy.score # score
                                        THEN ExpiryField(copy, fresh) ELSE {})]
    BY <1>8, <2>1, Zenon DEF Applied
  <2>3. ExpiryField(copy, fresh) \subseteq {"expires"}
    BY DEF ExpiryField
  <2>4. fresh \in Row
    BY <1>3, <1>4, <1>8
  <2>5. "expires" \in a.fields => Bounded(fresh.expires, t)
    BY <1>4, <1>8, <2>2
  <2> QED BY <2>2, <2>3, <2>4, <2>5 DEF Fields
<1> QED BY <1>5, <1>6, <1>7, <1>8

\* A re-evaluated copy likewise, except that it may turn active.
LEMMA ReappliedType ==
    ASSUME NEW copy \in Row, NEW s \in Settings, NEW t \in Nat,
           NEW promotionOnly \in BOOLEAN, NEW taken
    PROVE  LET a == Reapplied(copy, s, t, promotionOnly, taken)
           IN /\ a.row \in Row
              /\ a.fields \subseteq Fields
              /\ "expires" \in a.fields => Bounded(a.row.expires, t)
<1> DEFINE target == Target(copy, copy.score, s, t)
           woken == ~promotionOnly /\ ~copy.active
           moved == target # copy.group /\ target \notin taken
           placed == [copy EXCEPT !.group = IF moved THEN target ELSE @,
                                  !.active = @ \/ woken]
<1>1. [copy EXCEPT !.active = FALSE] \in Row
  BY DEF Row
<1>2. copy.score >= s.t24h => target \in Groups
  BY TargetType DEF Published, Groups
<1>3. copy.score >= s.t24h => placed \in Row
  <2>1. copy.active \in BOOLEAN
    BY DEF Row
  <2>2. (copy.active \/ woken) \in BOOLEAN
    OBVIOUS
  <2> QED BY <1>2, <2>2 DEF Row
<1>4. copy.score >= s.t24h => /\ Renewed(placed, t) \in Row
                              /\ Bounded(Renewed(placed, t).expires, t)
  BY <1>3, RenewedType
<1> QED BY <1>1, <1>4 DEF Reapplied, Fields

-----------------------------------------------------------------------------
(* The inductive invariant: types, and what a task in flight has already got *)

ReportWell(r) ==
    /\ r \in TypeReport
    /\ r.pc # "idle" => r.cidr \in Cidrs
    /\ r.pc \notin {"idle", "querying"} => r.group \in Groups
    /\ r.pc \in {"found", "created", "stored"} => r.id \in Ids /\ r.copy \in Row
    /\ r.pc = "stored" => r.score \in Scores

ScanWell(r) ==
    /\ r \in TypeScan
    /\ r.job \in {"bands", "promotion"} => r.rule \in Settings

EditWell(r) ==
    /\ r \in TypeEdit
    /\ r.pc # "idle" => r.id \in Ids /\ r.copy \in Row

InFlight ==
    /\ \A w \in Reporters : ReportWell(report[w])
    /\ \A s \in Scanners : ScanWell(scan[s])
    /\ \A e \in Editors : EditWell(edit[e])

Inv == TypeOK /\ InFlight

Table == [Ids -> CopyOrNone]

LEMMA NothingToDoType == NothingToDo \in Table
BY DEF NothingToDo, Table, CopyOrNone

LEMMA IdleWell ==
    /\ ReportWell(IdleReport)
    /\ ScanWell(IdleScan)
    /\ EditWell(IdleEdit)
    /\ IdleSweep \in TypeSweep
    /\ IdleFeed \in TypeFeed
BY NothingToDoType DEF IdleReport, IdleScan, IdleEdit, IdleSweep, IdleFeed, ReportWell,
   ScanWell, EditWell, TypeReport, TypeScan, TypeEdit, TypeSweep, TypeFeed, CopyOrNone, Table

LEMMA NewRowType ==
    ASSUME NEW c \in Cidrs, NEW g \in Groups
    PROVE  NewRow(c, g) \in Row
<1>1. NoHits \in [Times -> Nat]
  BY DEF NoHits
<1> QED BY <1>1 DEF NewRow, Row

\* What the database holds after one save of some columns, or of a whole row.
LEMMA SavedType ==
    ASSUME rows \in Table, NEW i \in Ids, NEW copy \in Row, NEW fields
    PROVE  /\ [rows EXCEPT ![i] = copy] \in Table
           /\ Exists(i) => /\ rows[i] \in Row
                           /\ [rows EXCEPT ![i] = Merge(@, copy, fields)] \in Table
<1>1. Exists(i) => rows[i] \in Row
  BY DEF Table, CopyOrNone, Exists
<1>2. Exists(i) => Merge(rows[i], copy, fields) \in Row
  BY <1>1, MergeType
<1> QED BY <1>1, <1>2 DEF Table, CopyOrNone

LEMMA CopiesType ==
    ASSUME rows \in Table, NEW S
    PROVE  Copies(S) \in Table
BY DEF Copies, Table, CopyOrNone

-----------------------------------------------------------------------------
(* Steps of a report *)

LEMMA ReportMoves ==
    ASSUME Inv, NEW w \in Reporters, NEW r, ReportWell(r), rows' \in Table,
           report' = [report EXCEPT ![w] = r], filed' \in Nat,
           UNCHANGED <<now, wl, settings, scan, sweep, edit, feed, steady, expired, crashes>>
    PROVE  Inv'
<1>1. TypeOK'
  BY DEF Inv, TypeOK, ReportWell, Table
<1>2. \A v \in Reporters : ReportWell(report'[v])
  BY DEF Inv, InFlight, TypeOK
<1>3. (\A s \in Scanners : ScanWell(scan[s]))' /\ (\A e \in Editors : EditWell(edit[e]))'
  BY DEF Inv, InFlight, ScanWell, EditWell
<1> QED BY <1>1, <1>2, <1>3 DEF Inv, InFlight, ReportWell

LEMMA StoredWell ==
    ASSUME NEW r, ReportWell(r), r.pc \in {"found", "created"}, NEW copy \in Row
    PROVE  ReportWell(Stored(r, copy))
BY IdleWell DEF Stored, ReportWell, TypeReport, CopyOrNone

LEMMA ReportStepInv ==
    ASSUME Inv, NEW w \in Reporters, ReportStep(w)
    PROVE  Inv'
<1> DEFINE r == report[w]
<1>0. /\ ReportWell(r) /\ r \in TypeReport
      /\ rows \in Table /\ report \in [Reporters -> TypeReport] /\ filed \in Nat
      /\ now \in Times /\ now \in Nat /\ settings \in Settings
  BY TimeAssumption DEF Inv, InFlight, TypeOK, ReportWell, Table, Times
<1>1. CASE \E c \in Hosts : ReportReceived(w, c)
  <2>1. PICK c \in Hosts : ReportReceived(w, c)
    BY <1>1
  <2> DEFINE new == [IdleReport EXCEPT !.pc = "querying", !.cidr = c]
  <2>2. ReportWell(new)
    BY IdleWell, CidrAssumption DEF IdleReport, ReportWell, TypeReport
  <2>3. report' = [report EXCEPT ![w] = new] /\ filed' \in Nat /\ rows' \in Table
    BY <1>0, <2>1 DEF ReportReceived
  <2> HIDE DEF new
  <2> QED BY <2>1, <2>2, <2>3, ReportMoves DEF ReportReceived
<1>2. CASE \E score \in Scores \cup {Null} : ReportScored(w, score)
  <2>1. PICK score \in Scores \cup {Null} : ReportScored(w, score)
    BY <1>2
  <2> DEFINE g == IF score = Null THEN Null ELSE GroupByScore(score, settings)
             group == IF g = Null THEN "no_group" ELSE g
             new == [r EXCEPT !.pc = "scored", !.score = score, !.group = group]
  <2>2. group \in Groups
    BY DEF GroupByScore, Groups
  <2>3. r.pc = "querying" /\ report' = [report EXCEPT ![w] = new]
    BY <1>0, <2>1 DEF ReportScored
  <2> HIDE DEF group
  <2>4. ReportWell(new)
    BY <1>0, <2>2, <2>3 DEF ReportWell, TypeReport
  <2> QED BY <1>0, <2>1, <2>3, <2>4, ReportMoves DEF ReportScored
<1>3. CASE \E i \in Ids : ReportFound(w, i)
  <2>1. PICK i \in Ids : ReportFound(w, i)
    BY <1>3
  <2> DEFINE dups == {j \in Ids : Exists(j) /\ rows[j].cidr = r.cidr} \ {i}
             new == [r EXCEPT !.pc = "found", !.id = i, !.copy = rows[i], !.dups = dups]
  <2>2. r.pc = "scored" /\ rows[i] \in Row
    BY <1>0, <2>1 DEF ReportFound, Exists, Table, CopyOrNone
  <2>3. report' = [report EXCEPT ![w] = new]
    BY <1>0, <2>1 DEF ReportFound
  <2>4. ReportWell(new)
    BY <1>0, <2>2 DEF ReportWell, TypeReport, CopyOrNone
  <2> QED BY <1>0, <2>1, <2>3, <2>4, ReportMoves DEF ReportFound
<1>4. CASE ReportAbsent(w)
  <2> DEFINE new == IF Covered(r.cidr, r.group) THEN IdleReport ELSE [r EXCEPT !.pc = "absent"]
  <2>1. ReportWell(new)
    BY <1>0, <1>4, IdleWell DEF ReportAbsent, ReportWell, TypeReport
  <2> QED BY <1>0, <1>4, <2>1, ReportMoves DEF ReportAbsent
<1>5. CASE ReportRefreshed(w)
  <2> DEFINE kept == [i \in Ids |-> IF i \in r.dups THEN NoRow ELSE rows[i]]
             hit == [r.copy EXCEPT !.group = r.group, !.active = TRUE,
                                   !.hits = RecordedHit(@, now)]
             copy == Normal(Renewed(hit, now))
             refused == Clash(kept, r.id, copy)
             new == IF refused THEN IdleReport ELSE Stored(r, copy)
  <2>1. r.pc = "found" /\ r.copy \in Row /\ r.group \in Groups /\ r.id \in Ids
    BY <1>0, <1>5 DEF ReportRefreshed, ReportWell
  <2>2. RecordedHit(r.copy.hits, now) \in [Times -> Nat]
    BY <1>0, <2>1, RecordedHitType DEF Row
  <2>3. hit \in Row
    BY <2>1, <2>2 DEF Row
  <2>4. copy \in Row
    BY <1>0, <2>3, RenewedType, NormalType
  <2>5. ReportWell(new)
    BY <1>0, <2>1, <2>4, IdleWell, StoredWell
  <2>6. kept \in Table /\ [kept EXCEPT ![r.id] = copy] \in Table
    BY <1>0, <2>4 DEF Table, CopyOrNone
  <2>7. rows' = (IF refused THEN kept ELSE [kept EXCEPT ![r.id] = copy])
    BY <1>5 DEF ReportRefreshed
  <2>8. report' = [report EXCEPT ![w] = new]
    BY <1>5 DEF ReportRefreshed
  <2> QED BY <1>0, <1>5, <2>5, <2>6, <2>7, <2>8, ReportMoves DEF ReportRefreshed
<1>6. CASE \E i \in Ids : ReportCreated(w, i)
  <2>1. PICK i \in Ids : ReportCreated(w, i)
    BY <1>6
  <2> DEFINE copy == Normal(NewRow(r.cidr, r.group))
             refused == Clash(rows, Null, copy)
             new == IF refused THEN IdleReport
                    ELSE [r EXCEPT !.pc = "created", !.id = i, !.copy = copy]
  <2>2. r.pc = "absent" /\ copy \in Row
    BY <1>0, <2>1, NewRowType, NormalType DEF ReportCreated, ReportWell
  <2>3. rows' \in Table
    BY <1>0, <2>1, <2>2, SavedType DEF ReportCreated
  <2> HIDE DEF copy
  <2>4. ReportWell(new)
    BY <1>0, <2>2, IdleWell DEF ReportWell, TypeReport, CopyOrNone
  <2>5. report' = [report EXCEPT ![w] = new]
    BY <2>1 DEF ReportCreated, copy
  <2> QED BY <1>0, <2>1, <2>3, <2>4, <2>5, ReportMoves DEF ReportCreated
<1>7. CASE ReportCompleted(w)
  <2> DEFINE hit == [r.copy EXCEPT !.hits = RecordedHit(@, now)]
             copy == Normal(Renewed(hit, now))
             refused == Clash(rows, r.id, copy)
             new == IF refused THEN IdleReport ELSE Stored(r, copy)
  <2>1. r.pc = "created" /\ r.copy \in Row /\ r.id \in Ids
    BY <1>0, <1>7 DEF ReportCompleted, ReportWell
  <2>2. RecordedHit(r.copy.hits, now) \in [Times -> Nat]
    BY <1>0, <2>1, RecordedHitType DEF Row
  <2>3. hit \in Row
    BY <2>1, <2>2 DEF Row
  <2>4. copy \in Row
    BY <1>0, <2>3, RenewedType, NormalType
  <2>5. ReportWell(new)
    BY <1>0, <2>1, <2>4, IdleWell, StoredWell
  <2>6. [rows EXCEPT ![r.id] = copy] \in Table
    BY <1>0, <2>1, <2>4, SavedType
  <2>7. rows' = (IF refused THEN rows ELSE [rows EXCEPT ![r.id] = copy])
    BY <1>7 DEF ReportCompleted
  <2>8. report' = [report EXCEPT ![w] = new]
    BY <1>7 DEF ReportCompleted
  <2> QED BY <1>0, <1>7, <2>5, <2>6, <2>7, <2>8, ReportMoves DEF ReportCompleted
<1>8. CASE ReportApplied(w)
  <2> DEFINE taken == TakenGroups(rows, r.id, r.cidr)
             a == Applied(r.copy, r.score, settings, now, taken)
  <2>1. r.copy \in Row /\ r.score \in Scores /\ r.id \in Ids
    BY <1>0, <1>8 DEF ReportApplied, ReportWell
  <2>2. a.row \in Row
    BY <1>0, <2>1, AppliedType
  <2>3. rows' \in Table
    BY <1>0, <1>8, <2>1, <2>2, SavedType DEF ReportApplied, CanUpdate
  <2> QED BY <1>0, <1>8, <2>3, IdleWell, ReportMoves DEF ReportApplied
<1> QED BY <1>1, <1>2, <1>3, <1>4, <1>5, <1>6, <1>7, <1>8 DEF ReportStep

-----------------------------------------------------------------------------
(* Steps of a scan *)

LEMMA ScanMoves ==
    ASSUME Inv, NEW s \in Scanners, NEW r, ScanWell(r), rows' \in Table,
           scan' = [scan EXCEPT ![s] = r], settings' \in Settings,
           UNCHANGED <<now, wl, report, sweep, edit, feed, steady, expired, filed, crashes>>
    PROVE  Inv'
<1>1. TypeOK'
  BY DEF Inv, TypeOK, ScanWell, Table
<1>2. \A v \in Scanners : ScanWell(scan'[v])
  BY DEF Inv, InFlight, TypeOK
<1>3. (\A w \in Reporters : ReportWell(report[w]))' /\ (\A e \in Editors : EditWell(edit[e]))'
  BY DEF Inv, InFlight, ReportWell, EditWell
<1> QED BY <1>1, <1>2, <1>3 DEF Inv, InFlight, ScanWell

LEMMA SettledWell ==
    ASSUME NEW r, ScanWell(r)
    PROVE  ScanWell(Settled(r))
BY IdleWell DEF Settled

LEMMA StartScanInv ==
    ASSUME Inv, NEW s \in Scanners, NEW job \in {"score", "bands", "promotion"}, NEW S,
           NEW rule \in Settings, StartScan(s, job, S, rule), settings' \in Settings
    PROVE  Inv'
<1> DEFINE r == [job |-> job, todo |-> Copies(S), rule |-> rule]
<1>1. rows \in Table
  BY DEF Inv, TypeOK, Table
<1>2. ScanWell(r)
  BY <1>1, CopiesType DEF ScanWell, TypeScan, Table
<1>3. ScanWell(Settled(r))
  BY <1>2, SettledWell
<1>4. /\ scan' = [scan EXCEPT ![s] = Settled(r)]
      /\ rows' \in Table
      /\ UNCHANGED <<now, wl, report, sweep, edit, feed, steady, expired, filed, crashes>>
  BY <1>1 DEF StartScan
<1> HIDE DEF r
<1> QED BY <1>3, <1>4, ScanMoves

LEMMA AfterWell ==
    ASSUME Inv, NEW s \in Scanners, NEW i \in Ids, NEW failed \in BOOLEAN,
           After(s, i, failed)
    PROVE  \E r : ScanWell(r) /\ scan' = [scan EXCEPT ![s] = r]
<1> DEFINE rest == [scan[s] EXCEPT !.todo[i] = NoRow]
<1>1. ScanWell(scan[s]) /\ scan[s] \in TypeScan
  BY DEF Inv, InFlight, ScanWell
<1>2. ScanWell(rest)
  BY <1>1 DEF ScanWell, TypeScan, CopyOrNone
<1>3. ScanWell(Settled(rest))
  BY <1>2, SettledWell
<1> DEFINE r == IF failed THEN IdleScan ELSE Settled(rest)
<1>4. scan' = [scan EXCEPT ![s] = r]
  BY DEF After
<1>5. ScanWell(r)
  BY <1>3, IdleWell
<1> QED BY <1>4, <1>5

LEMMA ScanSaveInv ==
    ASSUME Inv, NEW s \in Scanners, NEW i \in Ids, NEW a, a.row \in Row, ScanSave(s, i, a)
    PROVE  Inv'
<1> DEFINE failed == a.fields # {} /\ ~CanUpdate(i, a.row, a.fields)
<1>1. rows \in Table /\ settings \in Settings
  BY DEF Inv, TypeOK, Table
<1>2. rows' \in Table
  BY <1>1, SavedType DEF ScanSave, CanUpdate
<1>3. PICK r : ScanWell(r) /\ scan' = [scan EXCEPT ![s] = r]
  BY AfterWell DEF ScanSave
<1> QED BY <1>1, <1>2, <1>3, ScanMoves DEF ScanSave

LEMMA ScanStepInv ==
    ASSUME Inv, NEW s \in Scanners, ScanStep(s)
    PROVE  Inv'
<1>0. /\ ScanWell(scan[s]) /\ scan[s] \in TypeScan
      /\ now \in Nat /\ settings \in Settings /\ rows \in Table
  BY TimeAssumption DEF Inv, InFlight, TypeOK, ScanWell, Table, Times
<1>1. CASE RefreshStarted(s)
  BY <1>0, <1>1, StartScanInv DEF RefreshStarted
<1>2. CASE \E S \in RescorePicks : RescoreStarted(s, S)
  BY <1>0, <1>2, StartScanInv DEF RescoreStarted
<1>3. CASE \E raw \in SettingsChoices : SettingsSaved(s, raw)
  <2>1. PICK raw \in SettingsChoices : SettingsSaved(s, raw)
    BY <1>3
  <2>2. Clamped(raw) \in Settings
    BY BoundAssumption, ClampedType
  <2> QED BY <2>1, <2>2, StartScanInv DEF SettingsSaved
<1>4. CASE \E i \in Ids, score \in Scores : RowScored(s, i, score)
  <2>1. PICK i \in Ids, score \in Scores : RowScored(s, i, score)
    BY <1>4
  <2> DEFINE copy == scan[s].todo[i]
             taken == TakenGroups(rows, i, copy.cidr)
  <2>2. copy \in Row
    BY <1>0, <2>1 DEF RowScored, TypeScan, CopyOrNone
  <2>3. Applied(copy, score, settings, now, taken).row \in Row
    BY <1>0, <2>2, AppliedType
  <2> QED BY <2>1, <2>3, ScanSaveInv DEF RowScored
<1>5. CASE \E i \in Ids, all \in BOOLEAN : ScanGaveUp(s, i, all)
  <2>1. PICK i \in Ids, all \in BOOLEAN : ScanGaveUp(s, i, all)
    BY <1>5
  <2>2. PICK r : ScanWell(r) /\ scan' = [scan EXCEPT ![s] = r]
    BY <2>1, AfterWell DEF ScanGaveUp
  <2> QED BY <1>0, <2>1, <2>2, ScanMoves DEF ScanGaveUp
<1>6. CASE \E i \in Ids : RowReapplied(s, i)
  <2>1. PICK i \in Ids : RowReapplied(s, i)
    BY <1>6
  <2> DEFINE copy == scan[s].todo[i]
             taken == TakenGroups(rows, i, copy.cidr)
             only == scan[s].job = "promotion"
  <2>2. copy \in Row /\ scan[s].rule \in Settings
    BY <1>0, <2>1 DEF RowReapplied, ScanWell, TypeScan, CopyOrNone
  <2>3. Reapplied(copy, scan[s].rule, now, only, taken).row \in Row
    BY <1>0, <2>2, ReappliedType
  <2> QED BY <2>1, <2>3, ScanSaveInv DEF RowReapplied
<1> QED BY <1>1, <1>2, <1>3, <1>4, <1>5, <1>6 DEF ScanStep

-----------------------------------------------------------------------------
(* Steps of the whitelist sweeps *)

LEMMA SweepMoves ==
    ASSUME Inv, NEW a \in Sweepers, rows' \in Table,
           sweep' \in [Sweepers -> TypeSweep],
           wl' \in [Cidrs -> {"absent", "inactive", "active"}],
           steady' \in [Readers -> SUBSET Cidrs],
           UNCHANGED <<now, settings, report, scan, edit, feed, expired, filed, crashes>>
    PROVE  Inv'
<1>1. TypeOK'
  BY DEF Inv, TypeOK, Table
<1>2. InFlight'
  BY DEF Inv, InFlight, ReportWell, ScanWell, EditWell
<1> QED BY <1>1, <1>2 DEF Inv

LEMMA SweptSettledType ==
    ASSUME NEW r \in TypeSweep
    PROVE  SweptSettled(r) \in TypeSweep
BY IdleWell DEF SweptSettled

LEMMA WhitelistBecomesType ==
    ASSUME Inv, NEW new \in [Cidrs -> {"absent", "inactive", "active"}],
           WhitelistBecomes(new)
    PROVE  /\ wl' \in [Cidrs -> {"absent", "inactive", "active"}]
           /\ steady' \in [Readers -> SUBSET Cidrs]
BY DEF WhitelistBecomes, ActiveWl, Inv, TypeOK

LEMMA SweepStepInv ==
    ASSUME Inv, NEW a \in Sweepers, SweepStep(a)
    PROVE  Inv'
<1> DEFINE Wl == [Cidrs -> {"absent", "inactive", "active"}]
<1>0. /\ rows \in Table /\ wl \in Wl /\ steady \in [Readers -> SUBSET Cidrs]
      /\ sweep \in [Sweepers -> TypeSweep] /\ sweep[a] \in TypeSweep /\ now \in Nat
  BY TimeAssumption DEF Inv, TypeOK, Table, Times
<1>1. CASE \E C \in SUBSET Cidrs : WhitelistOn(a, C)
  <2>1. PICK C \in SUBSET Cidrs : WhitelistOn(a, C)
    BY <1>1
  <2> DEFINE new == [c \in Cidrs |-> IF c \in C THEN "active" ELSE wl[c]]
  <2>2. new \in Wl
    BY <1>0
  <2>3. WhitelistBecomes(new)
    BY <2>1 DEF WhitelistOn
  <2>4. [IdleSweep EXCEPT !.job = "off", !.cidrs = C] \in TypeSweep
    BY IdleWell DEF TypeSweep
  <2>5. sweep' \in [Sweepers -> TypeSweep] /\ rows' \in Table
    BY <1>0, <2>1, <2>4 DEF WhitelistOn
  <2> QED BY <2>1, <2>2, <2>3, <2>5, WhitelistBecomesType, SweepMoves DEF WhitelistOn
<1>2. CASE \E C \in SUBSET Cidrs, how \in {"absent", "inactive"} : WhitelistOff(a, C, how)
  <2>1. PICK C \in SUBSET Cidrs, how \in {"absent", "inactive"} : WhitelistOff(a, C, how)
    BY <1>2
  <2> DEFINE new == [c \in Cidrs |-> IF c \in C THEN how ELSE wl[c]]
  <2>2. new \in Wl
    BY <1>0
  <2>3. WhitelistBecomes(new)
    BY <2>1 DEF WhitelistOff
  <2>4. [IdleSweep EXCEPT !.job = "on", !.cidrs = C] \in TypeSweep
    BY IdleWell DEF TypeSweep
  <2>5. sweep' \in [Sweepers -> TypeSweep] /\ rows' \in Table
    BY <1>0, <2>1, <2>4 DEF WhitelistOff
  <2> QED BY <2>1, <2>2, <2>3, <2>5, WhitelistBecomesType, SweepMoves DEF WhitelistOff
<1>3. CASE \E c \in Cidrs : SweepRead(a, c)
  <2>1. PICK c \in Cidrs : SweepRead(a, c)
    BY <1>3
  <2>2. \A S : SweptSettled([sweep[a] EXCEPT !.cidrs = @ \ {c}, !.todo = Copies(S)]) \in TypeSweep
    <3> SUFFICES ASSUME NEW S
                 PROVE [sweep[a] EXCEPT !.cidrs = @ \ {c}, !.todo = Copies(S)] \in TypeSweep
      BY SweptSettledType
    <3> QED BY <1>0, CopiesType DEF TypeSweep, Table
  <2>3. sweep' \in [Sweepers -> TypeSweep] /\ rows' \in Table /\ wl' \in Wl
        /\ steady' \in [Readers -> SUBSET Cidrs]
    BY <1>0, <2>1, <2>2 DEF SweepRead
  <2> QED BY <2>1, <2>3, SweepMoves DEF SweepRead
<1>4. CASE \E c, d \in Cidrs : WhitelistEdited(a, c, d)
  <2>1. PICK c \in Cidrs, d \in Cidrs : WhitelistEdited(a, c, d)
    BY <1>4
  <2> DEFINE new == [wl EXCEPT ![d] = wl[c], ![c] = "absent"]
  <2>2. new \in Wl
    BY <1>0
  <2>3. WhitelistBecomes(new) /\ rows' \in Table /\ sweep' \in [Sweepers -> TypeSweep]
    BY <1>0, <2>1 DEF WhitelistEdited
  <2> QED BY <2>1, <2>2, <2>3, WhitelistBecomesType, SweepMoves DEF WhitelistEdited
<1>5. CASE \E i \in Ids : SweepSaved(a, i)
  <2>1. PICK i \in Ids : SweepSaved(a, i)
    BY <1>5
  <2> DEFINE copy == sweep[a].todo[i]
             off == sweep[a].job = "off"
             new == IF off THEN [copy EXCEPT !.active = FALSE]
                    ELSE Renewed([copy EXCEPT !.active = TRUE], now)
             fields == IF off THEN {"active"} ELSE {"active", "expires"}
  <2>2. copy \in Row
    BY <1>0, <2>1 DEF SweepSaved, TypeSweep, CopyOrNone
  <2>3. [copy EXCEPT !.active = FALSE] \in Row /\ [copy EXCEPT !.active = TRUE] \in Row
    BY <2>2 DEF Row
  <2>4. new \in Row
    BY <1>0, <2>3, RenewedType
  <2>5. rows' = IF ~Exists(i) THEN rows ELSE [rows EXCEPT ![i] = Merge(@, new, fields)]
    BY <2>1 DEF SweepSaved
  <2>6. rows' \in Table
    BY <1>0, <2>4, <2>5, SavedType
  <2>7. [sweep[a] EXCEPT !.todo[i] = NoRow] \in TypeSweep
    BY <1>0 DEF TypeSweep, CopyOrNone
  <2>8. sweep' \in [Sweepers -> TypeSweep]
    BY <1>0, <2>1, <2>7, IdleWell, SweptSettledType DEF SweepSaved
  <2> QED BY <1>0, <2>1, <2>6, <2>8, SweepMoves DEF SweepSaved
<1> QED BY <1>1, <1>2, <1>3, <1>4, <1>5 DEF SweepStep, WhitelistCreated, WhitelistImported,
          WhitelistActivated, WhitelistBulkActivated, WhitelistDeleted,
          WhitelistBulkDeleted, WhitelistDeactivated, WhitelistBulkDeactivated

-----------------------------------------------------------------------------
(* Steps of the operators' pages *)

LEMMA EditMoves ==
    ASSUME Inv, NEW e \in Editors, NEW r, EditWell(r), rows' \in Table,
           edit' = [edit EXCEPT ![e] = r],
           UNCHANGED <<now, wl, settings, report, scan, sweep, feed, steady, expired,
                       filed, crashes>>
    PROVE  Inv'
<1>1. TypeOK'
  BY DEF Inv, TypeOK, EditWell, Table
<1>2. \A v \in Editors : EditWell(edit'[v])
  BY DEF Inv, InFlight, TypeOK
<1>3. (\A w \in Reporters : ReportWell(report[w]))' /\ (\A s \in Scanners : ScanWell(scan[s]))'
  BY DEF Inv, InFlight, ReportWell, ScanWell
<1> QED BY <1>1, <1>2, <1>3 DEF Inv, InFlight, EditWell

\* A step that writes nothing but the table keeps the invariant if the table
\* keeps its type; so does one that changes only the clock, the ids the cleanup
\* holds, the feed or the restart counter.
LEMMA RestMoves ==
    ASSUME Inv, rows' \in Table, now' \in Times, expired' \in SUBSET Ids,
           feed' \in [Readers -> TypeFeed], steady' \in [Readers -> SUBSET Cidrs],
           UNCHANGED <<wl, settings, report, scan, sweep, edit, filed, crashes>>
    PROVE  Inv'
<1>1. TypeOK'
  BY DEF Inv, TypeOK, Table
<1>2. InFlight'
  BY DEF Inv, InFlight, ReportWell, ScanWell, EditWell
<1> QED BY <1>1, <1>2 DEF Inv

LEMMA SaveWholeInv ==
    ASSUME Inv, NEW e \in Editors, edit[e].id \in Ids, NEW row \in Row, SaveWhole(e, row)
    PROVE  Inv'
<1>1. rows \in Table /\ Normal(row) \in Row
  BY NormalType DEF Inv, TypeOK, Table
<1>2. rows' \in Table
  BY <1>1, SavedType DEF SaveWhole
<1> QED BY <1>2, IdleWell, EditMoves DEF SaveWhole

LEMMA SaveFieldsInv ==
    ASSUME Inv, NEW e \in Editors, edit[e].id \in Ids, NEW row \in Row, NEW fields,
           SaveFields(e, row, fields)
    PROVE  Inv'
<1>1. rows \in Table
  BY DEF Inv, TypeOK, Table
<1>2. rows' \in Table
  BY <1>1, SavedType DEF SaveFields, CanUpdate
<1> QED BY <1>2, IdleWell, EditMoves DEF SaveFields

LEMMA EditStepInv ==
    ASSUME Inv, NEW e \in Editors, EditStep(e)
    PROVE  Inv'
<1>0. /\ rows \in Table /\ now \in Times /\ now \in Nat /\ EditWell(edit[e])
      /\ expired \in SUBSET Ids /\ feed \in [Readers -> TypeFeed]
      /\ steady \in [Readers -> SUBSET Cidrs]
  BY TimeAssumption DEF Inv, InFlight, TypeOK, Table, Times
<1>1. CASE \E i \in Ids, c \in Hosts, g \in Groups : EntryAdded(e, c, g, i)
  <2>1. PICK i \in Ids, c \in Hosts, g \in Groups : EntryAdded(e, c, g, i)
    BY <1>1
  <2> DEFINE same == {j \in Ids : Exists(j) /\ rows[j].cidr = c /\ rows[j].group = g}
             row == IF i \in same THEN [rows[i] EXCEPT !.active = TRUE] ELSE NewRow(c, g)
  <2>2. NewRow(c, g) \in Row
    BY NewRowType, CidrAssumption
  <2>3. row \in Row
    BY <1>0, <2>2 DEF Exists, Table, CopyOrNone, Row
  <2>4. Normal(Renewed(row, now)) \in Row
    BY <1>0, <2>3, RenewedType, NormalType
  <2>5. rows' \in Table
    BY <1>0, <2>1, <2>4, SavedType DEF EntryAdded
  <2> QED BY <1>0, <2>1, <2>5, RestMoves DEF EntryAdded, tasks
<1>2. CASE \E i \in Ids, c \in Hosts, g \in Groups : EntryImported(e, c, g, i)
  <2>1. PICK i \in Ids, c \in Hosts, g \in Groups : EntryImported(e, c, g, i)
    BY <1>2
  <2> DEFINE copy == Normal(NewRow(c, g))
             new == [pc |-> "imported", id |-> i, copy |-> copy]
  <2>2. copy \in Row
    BY NewRowType, NormalType, CidrAssumption
  <2>3. rows' \in Table
    BY <1>0, <2>1, <2>2, SavedType DEF EntryImported
  <2>4. EditWell(new)
    BY <2>2 DEF EditWell, TypeEdit, CopyOrNone
  <2> QED BY <2>1, <2>3, <2>4, EditMoves DEF EntryImported
<1>3. CASE \E i \in Ids : EntryLoaded(e, i)
  <2>1. PICK i \in Ids : EntryLoaded(e, i)
    BY <1>3
  <2> DEFINE new == [pc |-> "loaded", id |-> i, copy |-> rows[i]]
  <2>2. EditWell(new)
    BY <1>0, <2>1 DEF EntryLoaded, Exists, EditWell, TypeEdit, CopyOrNone, Table
  <2> QED BY <1>0, <2>1, <2>2, EditMoves DEF EntryLoaded
<1>4. CASE \E i \in Ids : EntryDeactivated(e, i) \/ EntryDeleted(e, i)
           \/ \E v \in BOOLEAN : EntryPinned(e, i, v)
  <2>1. PICK i \in Ids : EntryDeactivated(e, i) \/ EntryDeleted(e, i)
                         \/ \E v \in BOOLEAN : EntryPinned(e, i, v)
    BY <1>4
  <2>2. Exists(i) => rows[i] \in Row
    BY <1>0 DEF Exists, Table, CopyOrNone
  <2>3. Exists(i) => /\ [rows[i] EXCEPT !.active = FALSE] \in Row
                     /\ \A v \in BOOLEAN : [rows[i] EXCEPT !.pinned = v] \in Row
    BY <2>2 DEF Row
  <2>4. rows' \in Table
    BY <1>0, <2>1, <2>3 DEF EntryDeactivated, EntryDeleted, EntryPinned, Table, CopyOrNone
  <2> QED BY <1>0, <2>1, <2>4, RestMoves DEF EntryDeactivated, EntryDeleted, EntryPinned, tasks
<1>5. CASE ImportCompleted(e)
  <2>1. edit[e].id \in Ids /\ Renewed(edit[e].copy, now) \in Row
    BY <1>0, <1>5, RenewedType DEF ImportCompleted, EditWell
  <2> QED BY <1>5, <2>1, SaveWholeInv DEF ImportCompleted
<1>6. CASE \E c \in Cidrs, g \in Groups : EntryEdited(e, c, g)
  <2>1. PICK c \in Cidrs, g \in Groups : EntryEdited(e, c, g)
    BY <1>6
  <2>2. edit[e].id \in Ids /\ [edit[e].copy EXCEPT !.cidr = c, !.group = g] \in Row
    BY <1>0, <2>1 DEF EntryEdited, EditWell, Row
  <2> QED BY <1>0, <2>1, <2>2, RenewedType, SaveWholeInv DEF EntryEdited
<1>7. CASE EntryReactivated(e) \/ EntryBulkActivated(e)
  <2>1. edit[e].id \in Ids /\ [edit[e].copy EXCEPT !.active = TRUE] \in Row
    BY <1>0, <1>7 DEF EntryReactivated, EntryBulkActivated, EditWell, Row
  <2>2. Renewed([edit[e].copy EXCEPT !.active = TRUE], now) \in Row
    BY <1>0, <2>1, RenewedType
  <2> QED BY <1>7, <2>1, <2>2, SaveWholeInv, SaveFieldsInv
          DEF EntryReactivated, EntryBulkActivated
<1>8. CASE \E g \in Groups : GroupBulkEdited(e, g)
  <2>1. PICK g \in Groups : GroupBulkEdited(e, g)
    BY <1>8
  <2>2. edit[e].id \in Ids /\ [edit[e].copy EXCEPT !.group = g] \in Row
    BY <1>0, <2>1 DEF GroupBulkEdited, EditWell, Row
  <2> QED BY <1>0, <2>1, <2>2, RenewedType, SaveFieldsInv DEF GroupBulkEdited
<1>9. CASE \E i \in Ids, c \in Hosts, g \in Groups : EntryFound(e, c, g, i)
  <2>1. PICK i \in Ids, c \in Hosts, g \in Groups : EntryFound(e, c, g, i)
    BY <1>9
  <2> DEFINE new == [pc |-> "imported", id |-> i, copy |-> [rows[i] EXCEPT !.active = TRUE]]
  <2>2. rows[i] \in Row
    BY <1>0, <2>1 DEF EntryFound, Exists, Table, CopyOrNone
  <2>3. EditWell(new)
    BY <2>2 DEF EditWell, TypeEdit, CopyOrNone, Row
  <2> QED BY <1>0, <2>1, <2>3, EditMoves DEF EntryFound
<1>10. CASE EntryPinToggled(e)
  <2>1. \A i \in Ids, v \in BOOLEAN : Exists(i) => [rows[i] EXCEPT !.pinned = v] \in Row
    BY <1>0 DEF Exists, Table, CopyOrNone, Row
  <2>2. edit[e].id \in Ids /\ edit[e].copy.pinned \in BOOLEAN
    BY <1>0, <1>10 DEF EntryPinToggled, EditWell, Row
  <2>3. rows' \in Table
    BY <1>0, <1>10, <2>1, <2>2 DEF EntryPinToggled, Table, CopyOrNone
  <2> QED BY <1>10, <2>3, IdleWell, EditMoves DEF EntryPinToggled
<1>13. CASE EntrySwitchedOff(e)
  <2>1. edit[e].id \in Ids /\ [edit[e].copy EXCEPT !.active = FALSE] \in Row
    BY <1>0, <1>13 DEF EntrySwitchedOff, EditWell, Row
  <2> QED BY <1>13, <2>1, SaveFieldsInv DEF EntrySwitchedOff
<1>11. CASE EntryRemoved(e)
  <2>1. rows' \in Table
    BY <1>0, <1>11 DEF EntryRemoved, Table, CopyOrNone
  <2> QED BY <1>11, <2>1, IdleWell, EditMoves DEF EntryRemoved
<1>12. CASE \E S \in SUBSET Ids : AllDeactivated(e, S)
  <2>1. PICK S \in SUBSET Ids : AllDeactivated(e, S)
    BY <1>12
  <2>2. \A i \in S : [rows[i] EXCEPT !.active = FALSE] \in Row
    BY <1>0, <2>1 DEF AllDeactivated, Exists, Table, CopyOrNone, Row
  <2>3. rows' \in Table
    BY <1>0, <2>1, <2>2 DEF AllDeactivated, Table, CopyOrNone
  <2> QED BY <1>0, <2>1, <2>3, RestMoves DEF AllDeactivated, tasks
<1> QED BY <1>1, <1>2, <1>3, <1>4, <1>5, <1>6, <1>7, <1>8, <1>9, <1>10, <1>11, <1>12,
           <1>13 DEF EditStep

-----------------------------------------------------------------------------
(* The invariant holds *)

LEMMA InitInv == Init => Inv
<1> SUFFICES ASSUME Init PROVE Inv
  OBVIOUS
<1>1. settings \in Settings
  BY ClampedType, BoundAssumption DEF Init
<1>2. rows \in Table /\ 0 \in Times
  BY NothingToDoType, TimeAssumption DEF Init, Times
<1>3. TypeOK
  BY <1>1, <1>2, IdleWell DEF Init, TypeOK, ReportWell, ScanWell, EditWell, Table
<1>4. InFlight
  BY IdleWell DEF Init, InFlight
<1> QED BY <1>3, <1>4 DEF Inv

LEMMA NextInv == Inv /\ [Next]_vars => Inv'
<1> SUFFICES ASSUME Inv, [Next]_vars PROVE Inv'
  OBVIOUS
<1>0. /\ rows \in Table /\ now \in Times /\ expired \in SUBSET Ids
      /\ feed \in [Readers -> TypeFeed] /\ steady \in [Readers -> SUBSET Cidrs]
      /\ \A i \in Ids : Exists(i) => rows[i] \in Row
  BY DEF Inv, TypeOK, Table, CopyOrNone, Exists
<1>1. CASE \E w \in Reporters : ReportStep(w)
  BY <1>1, ReportStepInv
<1>2. CASE \E s \in Scanners : ScanStep(s)
  BY <1>2, ScanStepInv
<1>3. CASE \E a \in Sweepers : SweepStep(a)
  BY <1>3, SweepStepInv
<1>4. CASE \E e \in Editors : EditStep(e)
  BY <1>4, EditStepInv
<1>5. CASE \E f \in Readers : FeedStep(f)
  <2>1. PICK f \in Readers : FeedStep(f)
    BY <1>5
  <2>2. CASE FeedServed(f)
    <3>1. [feed[f] EXCEPT !.pc = "served", !.out = {c \in @ : ~Whitelisted(c)}] \in TypeFeed
      BY <1>0 DEF TypeFeed
    <3>2. feed' \in [Readers -> TypeFeed]
      BY <1>0, <2>2, <3>1 DEF FeedServed
    <3> QED BY <1>0, <2>2, <3>2, RestMoves DEF FeedServed
  <2>3. CASE \E G \in {Published, {"24h"}, {"30d"}} : FeedRead(f, G)
    <3>1. PICK G \in {Published, {"24h"}, {"30d"}} : FeedRead(f, G)
      BY <2>3
    <3> DEFINE S == {j \in Ids : Exists(j) /\ rows[j].group \in G /\ Live(rows[j])}
               out == {rows[i].cidr : i \in S}
    <3>2. out \in SUBSET Cidrs
      BY <1>0 DEF Row
    <3>3. [pc |-> "read", out |-> out] \in TypeFeed
      BY <3>2 DEF TypeFeed
    <3>4. feed' = [feed EXCEPT ![f] = [pc |-> "read", out |-> out]]
      BY <3>1 DEF FeedRead
    <3>5. feed' \in [Readers -> TypeFeed]
      BY <1>0, <3>3, <3>4
    <3>6. steady' \in [Readers -> SUBSET Cidrs]
      BY <1>0, <3>1 DEF FeedRead, ActiveWl
    <3> QED BY <1>0, <3>1, <3>5, <3>6, RestMoves DEF FeedRead
  <2> QED BY <2>1, <2>2, <2>3 DEF FeedStep
<1>6. CASE \E i \in Ids : Purged(i)
  BY <1>0, <1>6, RestMoves DEF Purged, tasks, Table, CopyOrNone
<1>7. CASE CleanupRead
  <2>1. expired' \in SUBSET Ids
    BY <1>7 DEF CleanupRead
  <2> QED BY <1>0, <1>7, <2>1, RestMoves DEF CleanupRead
<1>8. CASE CleanupWrite
  <2>1. \A i \in Ids : Exists(i) => [rows[i] EXCEPT !.active = FALSE] \in Row
    BY <1>0 DEF Row
  <2>2. rows' \in Table
    BY <1>0, <1>8, <2>1 DEF CleanupWrite, Table, CopyOrNone
  <2> QED BY <1>0, <1>8, <2>2, RestMoves DEF CleanupWrite
<1>9. CASE Tick
  <2>1. now' \in Times
    BY <1>0, <1>9, TimeAssumption DEF Tick, Times
  <2> QED BY <1>0, <1>9, <2>1, RestMoves DEF Tick, tasks
<1>10. CASE Crash
  <2>1. TypeOK'
    BY <1>0, <1>10, IdleWell DEF Crash, Inv, TypeOK, ReportWell, ScanWell, EditWell, Table
  <2>2. InFlight'
    BY <1>10, IdleWell DEF Crash, InFlight, ReportWell, ScanWell, EditWell
  <2> QED BY <2>1, <2>2 DEF Inv
<1>11. CASE UNCHANGED vars
  BY <1>0, <1>11, RestMoves DEF vars, tasks
<1> QED BY <1>1, <1>2, <1>3, <1>4, <1>5, <1>6, <1>7, <1>8, <1>9, <1>10, <1>11 DEF Next

\* Every task in flight holds complete rows and valid ids, and every variable
\* stays in its domain, in every behaviour of the blacklist.
THEOREM AlwaysInv == Spec => []Inv
BY InitInv, NextInv, PTL DEF Spec

\* Type correctness for any number of rows, networks and concurrent tasks.
THEOREM TypeCorrect == Spec => []TypeOK
<1>1. Inv => TypeOK
  BY DEF Inv
<1> QED BY <1>1, AlwaysInv, PTL

-----------------------------------------------------------------------------
(* Expiries: a step keeps the one a row has or writes a bounded one.       *)

ExpiryKept ==
    \A i \in Ids : rows'[i] # NoRow =>
        \/ rows[i] # NoRow /\ rows'[i].expires = rows[i].expires
        \/ Bounded(rows'[i].expires, now)

LEMMA KeptBySave ==
    ASSUME rows \in Table, NEW i \in Ids, NEW row \in Row, Bounded(row.expires, now),
           rows' = [rows EXCEPT ![i] = row]
    PROVE  ExpiryKept
BY DEF Table, ExpiryKept

LEMMA KeptByMerge ==
    ASSUME rows \in Table, NEW i \in Ids, Exists(i), NEW copy \in Row, NEW fields,
           "expires" \in fields => Bounded(copy.expires, now),
           rows' = [rows EXCEPT ![i] = Merge(@, copy, fields)]
    PROVE  ExpiryKept
<1>1. rows[i] \in Row
  BY DEF Table, CopyOrNone, Exists
<1>2. Merge(rows[i], copy, fields).expires =
        IF "expires" \in fields THEN copy.expires ELSE rows[i].expires
  BY <1>1, MergeType
<1> QED BY <1>2 DEF Table, ExpiryKept, Exists

LEMMA KeptSame ==
    ASSUME rows' = rows
    PROVE  ExpiryKept
BY DEF ExpiryKept

\* The row a report or an operator creates has no expiry yet.
LEMMA NewRowUnexpiring ==
    ASSUME NEW c \in Cidrs, NEW g \in Groups
    PROVE  /\ Normal(NewRow(c, g)) \in Row
           /\ Bounded(Normal(NewRow(c, g)).expires, now)
<1>1. NewRow(c, g) \in Row /\ NewRow(c, g).expires = Null
  BY NewRowType DEF NewRow
<1> QED BY <1>1, NormalType DEF Bounded

\* Renewing and saving a row writes a bounded expiry.
LEMMA RenewedBounded ==
    ASSUME NEW row \in Row, now \in Nat
    PROVE  /\ Renewed(row, now) \in Row
           /\ Bounded(Renewed(row, now).expires, now)
           /\ Normal(Renewed(row, now)) \in Row
           /\ Bounded(Normal(Renewed(row, now)).expires, now)
BY RenewedType, NormalType

LEMMA ReportStepExpiry ==
    ASSUME Inv, NEW w \in Reporters, ReportStep(w)
    PROVE  ExpiryKept
<1> DEFINE r == report[w]
<1>0. /\ ReportWell(r) /\ rows \in Table /\ now \in Times /\ now \in Nat
      /\ settings \in Settings
  BY TimeAssumption DEF Inv, InFlight, TypeOK, Table, Times
<1>1. CASE rows' = rows
  BY <1>1, KeptSame
<1>2. CASE ReportRefreshed(w) /\ rows' # rows
  <2> DEFINE kept == [i \in Ids |-> IF i \in r.dups THEN NoRow ELSE rows[i]]
             hit == [r.copy EXCEPT !.group = r.group, !.active = TRUE,
                                   !.hits = RecordedHit(@, now)]
             copy == Normal(Renewed(hit, now))
  <2>1. r.copy \in Row /\ r.group \in Groups /\ r.id \in Ids
    BY <1>0, <1>2 DEF ReportRefreshed, ReportWell
  <2>2. RecordedHit(r.copy.hits, now) \in [Times -> Nat]
    BY <1>0, <2>1, RecordedHitType DEF Row
  <2>3. hit \in Row
    BY <2>1, <2>2 DEF Row
  <2>4. Bounded(copy.expires, now)
    BY <1>0, <2>3, RenewedBounded
  <2>5. rows' = kept \/ rows' = [kept EXCEPT ![r.id] = copy]
    BY <1>2 DEF ReportRefreshed
  <2> HIDE DEF copy
  <2> QED BY <2>1, <2>4, <2>5 DEF ExpiryKept
<1>3. CASE \E i \in Ids : ReportCreated(w, i) /\ rows' # rows
  <2>1. PICK i \in Ids : ReportCreated(w, i) /\ rows' # rows
    BY <1>3
  <2>2. r.cidr \in Cidrs /\ r.group \in Groups
    BY <1>0, <2>1 DEF ReportCreated, ReportWell
  <2>3. rows' = [rows EXCEPT ![i] = Normal(NewRow(r.cidr, r.group))]
    BY <2>1 DEF ReportCreated
  <2> QED BY <1>0, <2>2, <2>3, NewRowUnexpiring, KeptBySave
<1>4. CASE ReportCompleted(w) /\ rows' # rows
  <2> DEFINE hit == [r.copy EXCEPT !.hits = RecordedHit(@, now)]
  <2>1. r.copy \in Row /\ r.id \in Ids
    BY <1>0, <1>4 DEF ReportCompleted, ReportWell
  <2>2. RecordedHit(r.copy.hits, now) \in [Times -> Nat]
    BY <1>0, <2>1, RecordedHitType DEF Row
  <2>3. hit \in Row
    BY <2>1, <2>2 DEF Row
  <2>4. rows' = [rows EXCEPT ![r.id] = Normal(Renewed(hit, now))]
    BY <1>4 DEF ReportCompleted
  <2> QED BY <1>0, <2>1, <2>3, <2>4, RenewedBounded, KeptBySave
<1>5. CASE ReportApplied(w) /\ rows' # rows
  <2> DEFINE taken == TakenGroups(rows, r.id, r.cidr)
             a == Applied(r.copy, r.score, settings, now, taken)
  <2>1. r.copy \in Row /\ r.score \in Scores /\ r.id \in Ids
    BY <1>0, <1>5 DEF ReportApplied, ReportWell
  <2>2. a.row \in Row /\ ("expires" \in a.fields => Bounded(a.row.expires, now))
    BY <1>0, <2>1, AppliedType
  <2>3. Exists(r.id) /\ rows' = [rows EXCEPT ![r.id] = Merge(@, a.row, a.fields)]
    BY <1>5 DEF ReportApplied, CanUpdate
  <2> QED BY <1>0, <2>1, <2>2, <2>3, KeptByMerge
<1> QED BY <1>1, <1>2, <1>3, <1>4, <1>5 DEF ReportStep, ReportReceived, ReportScored,
        ReportFound, ReportAbsent

LEMMA ScanSaveExpiry ==
    ASSUME Inv, NEW s \in Scanners, NEW i \in Ids, NEW a, a.row \in Row,
           "expires" \in a.fields => Bounded(a.row.expires, now), ScanSave(s, i, a)
    PROVE  ExpiryKept
<1>1. rows \in Table
  BY DEF Inv, TypeOK, Table
<1>2. CASE rows' = rows
  BY <1>2, KeptSame
<1>3. CASE rows' # rows
  <2>1. Exists(i) /\ rows' = [rows EXCEPT ![i] = Merge(@, a.row, a.fields)]
    BY <1>3 DEF ScanSave, CanUpdate
  <2> QED BY <1>1, <2>1, KeptByMerge
<1> QED BY <1>2, <1>3

LEMMA ScanStepExpiry ==
    ASSUME Inv, NEW s \in Scanners, ScanStep(s)
    PROVE  ExpiryKept
<1>0. /\ ScanWell(scan[s]) /\ scan[s] \in TypeScan
      /\ now \in Nat /\ settings \in Settings /\ rows \in Table
  BY TimeAssumption DEF Inv, InFlight, TypeOK, ScanWell, Table, Times
<1>1. CASE rows' = rows
  BY <1>1, KeptSame
<1>2. CASE \E i \in Ids, score \in Scores : RowScored(s, i, score)
  <2>1. PICK i \in Ids, score \in Scores : RowScored(s, i, score)
    BY <1>2
  <2> DEFINE copy == scan[s].todo[i]
             taken == TakenGroups(rows, i, copy.cidr)
             a == Applied(copy, score, settings, now, taken)
  <2>2. copy \in Row
    BY <1>0, <2>1 DEF RowScored, TypeScan, CopyOrNone
  <2>3. a.row \in Row /\ ("expires" \in a.fields => Bounded(a.row.expires, now))
    BY <1>0, <2>2, AppliedType
  <2> QED BY <2>1, <2>3, ScanSaveExpiry DEF RowScored
<1>3. CASE \E i \in Ids : RowReapplied(s, i)
  <2>1. PICK i \in Ids : RowReapplied(s, i)
    BY <1>3
  <2> DEFINE copy == scan[s].todo[i]
             taken == TakenGroups(rows, i, copy.cidr)
             only == scan[s].job = "promotion"
             a == Reapplied(copy, scan[s].rule, now, only, taken)
  <2>2. copy \in Row /\ scan[s].rule \in Settings
    BY <1>0, <2>1 DEF RowReapplied, ScanWell, TypeScan, CopyOrNone
  <2>3. a.row \in Row /\ ("expires" \in a.fields => Bounded(a.row.expires, now))
    BY <1>0, <2>2, ReappliedType
  <2> QED BY <2>1, <2>3, ScanSaveExpiry DEF RowReapplied
<1> QED BY <1>1, <1>2, <1>3 DEF ScanStep, RefreshStarted, RescoreStarted, SettingsSaved,
        StartScan, ScanGaveUp

LEMMA SweepStepExpiry ==
    ASSUME Inv, NEW a \in Sweepers, SweepStep(a)
    PROVE  ExpiryKept
<1>0. rows \in Table /\ sweep[a] \in TypeSweep /\ now \in Nat
  BY TimeAssumption DEF Inv, TypeOK, Table, Times
<1>1. CASE rows' = rows
  BY <1>1, KeptSame
<1>2. CASE \E i \in Ids : SweepSaved(a, i) /\ rows' # rows
  <2>1. PICK i \in Ids : SweepSaved(a, i) /\ rows' # rows
    BY <1>2
  <2> DEFINE copy == sweep[a].todo[i]
             off == [copy EXCEPT !.active = FALSE]
             on == Renewed([copy EXCEPT !.active = TRUE], now)
  <2>2. copy \in Row
    BY <1>0, <2>1 DEF SweepSaved, TypeSweep, CopyOrNone
  <2>3. off \in Row /\ [copy EXCEPT !.active = TRUE] \in Row
    BY <2>2 DEF Row
  <2>4. on \in Row /\ Bounded(on.expires, now)
    BY <1>0, <2>3, RenewedType
  <2>5. Exists(i)
    BY <2>1 DEF SweepSaved
  <2>6. \/ rows' = [rows EXCEPT ![i] = Merge(@, off, {"active"})]
        \/ rows' = [rows EXCEPT ![i] = Merge(@, on, {"active", "expires"})]
    BY <2>1, <2>5 DEF SweepSaved
  <2> HIDE DEF on, off
  <2> QED BY <1>0, <2>3, <2>4, <2>5, <2>6, KeptByMerge
<1> QED BY <1>1, <1>2 DEF SweepStep, WhitelistCreated, WhitelistImported,
          WhitelistActivated, WhitelistBulkActivated, WhitelistDeleted,
          WhitelistBulkDeleted, WhitelistDeactivated, WhitelistBulkDeactivated,
          WhitelistOn, WhitelistOff, WhitelistEdited, SweepRead

LEMMA EditStepExpiry ==
    ASSUME Inv, NEW e \in Editors, EditStep(e)
    PROVE  ExpiryKept
<1>0. /\ rows \in Table /\ now \in Nat /\ EditWell(edit[e])
      /\ \A i \in Ids : Exists(i) => rows[i] \in Row
  BY TimeAssumption DEF Inv, InFlight, TypeOK, Table, Times, Exists, CopyOrNone
<1>1. CASE rows' = rows
  BY <1>1, KeptSame
<1>2. CASE \E i \in Ids, c \in Hosts, g \in Groups : EntryAdded(e, c, g, i)
  <2>1. PICK i \in Ids, c \in Hosts, g \in Groups : EntryAdded(e, c, g, i)
    BY <1>2
  <2> DEFINE same == {j \in Ids : Exists(j) /\ rows[j].cidr = c /\ rows[j].group = g}
             row == IF i \in same THEN [rows[i] EXCEPT !.active = TRUE] ELSE NewRow(c, g)
  <2>2. NewRow(c, g) \in Row
    BY NewRowType, CidrAssumption
  <2>3. row \in Row
    BY <1>0, <2>2 DEF Row
  <2>4. rows' = [rows EXCEPT ![i] = Normal(Renewed(row, now))]
    BY <2>1 DEF EntryAdded
  <2> HIDE DEF row
  <2> QED BY <1>0, <2>3, <2>4, RenewedBounded, KeptBySave
<1>3. CASE \E i \in Ids, c \in Hosts, g \in Groups : EntryImported(e, c, g, i)
  <2>1. PICK i \in Ids, c \in Hosts, g \in Groups : EntryImported(e, c, g, i)
    BY <1>3
  <2>2. rows' = [rows EXCEPT ![i] = Normal(NewRow(c, g))]
    BY <2>1 DEF EntryImported
  <2> QED BY <1>0, <2>2, NewRowUnexpiring, CidrAssumption, KeptBySave
<1>4. CASE \E i \in Ids : EntryDeactivated(e, i) \/ EntryDeleted(e, i)
           \/ \E v \in BOOLEAN : EntryPinned(e, i, v)
  BY <1>0, <1>4 DEF EntryDeactivated, EntryDeleted, EntryPinned, ExpiryKept, Table, Exists, Row
<1>5. CASE rows' # rows /\ \E row \in Row : SaveWhole(e, Renewed(row, now))
                                            /\ edit[e].id \in Ids
  <2>1. PICK row \in Row : SaveWhole(e, Renewed(row, now)) /\ edit[e].id \in Ids
    BY <1>5
  <2>2. rows' = [rows EXCEPT ![edit[e].id] = Normal(Renewed(row, now))]
    BY <1>5, <2>1 DEF SaveWhole
  <2> QED BY <1>0, <2>1, <2>2, RenewedBounded, KeptBySave
<1>6. CASE rows' # rows /\ \E row \in Row, fields \in SUBSET Fields :
                              SaveFields(e, Renewed(row, now), fields) /\ edit[e].id \in Ids
  <2>1. PICK row \in Row, fields \in SUBSET Fields :
          SaveFields(e, Renewed(row, now), fields) /\ edit[e].id \in Ids
    BY <1>6
  <2>2. /\ Exists(edit[e].id)
        /\ rows' = [rows EXCEPT ![edit[e].id] = Merge(@, Renewed(row, now), fields)]
    BY <1>6, <2>1 DEF SaveFields, CanUpdate
  <2> QED BY <1>0, <2>1, <2>2, RenewedBounded, KeptByMerge
<1>7. ImportCompleted(e) =>
        \E row \in Row : SaveWhole(e, Renewed(row, now)) /\ edit[e].id \in Ids
  BY <1>0 DEF ImportCompleted, EditWell
<1>8. ASSUME NEW c \in Cidrs, NEW g \in Groups, EntryEdited(e, c, g)
      PROVE \E row \in Row : SaveWhole(e, Renewed(row, now)) /\ edit[e].id \in Ids
  <2>1. [edit[e].copy EXCEPT !.cidr = c, !.group = g] \in Row /\ edit[e].id \in Ids
    BY <1>0, <1>8 DEF EntryEdited, EditWell, Row
  <2> QED BY <1>8, <2>1 DEF EntryEdited
<1>9. edit[e].pc = "loaded" => [edit[e].copy EXCEPT !.active = TRUE] \in Row
                               /\ edit[e].id \in Ids
  BY <1>0 DEF EditWell, Row
<1>10. EntryReactivated(e) =>
        \E row \in Row : SaveWhole(e, Renewed(row, now)) /\ edit[e].id \in Ids
  BY <1>9 DEF EntryReactivated
<1>11. EntryBulkActivated(e) =>
        \E row \in Row, fields \in SUBSET Fields :
            SaveFields(e, Renewed(row, now), fields) /\ edit[e].id \in Ids
  <2>1. {"active", "expires"} \in SUBSET Fields
    BY DEF Fields
  <2> QED BY <1>9, <2>1 DEF EntryBulkActivated
<1>12. ASSUME NEW g \in Groups, GroupBulkEdited(e, g)
       PROVE \E row \in Row, fields \in SUBSET Fields :
               SaveFields(e, Renewed(row, now), fields) /\ edit[e].id \in Ids
  <2>1. {"group", "expires"} \in SUBSET Fields
    BY DEF Fields
  <2>2. [edit[e].copy EXCEPT !.group = g] \in Row /\ edit[e].id \in Ids
    BY <1>0, <1>12 DEF GroupBulkEdited, EditWell, Row
  <2> QED BY <1>12, <2>1, <2>2 DEF GroupBulkEdited
<1>13. /\ (\E i \in Ids : EntryLoaded(e, i)) => rows' = rows
       /\ (\E i \in Ids, c \in Hosts, g \in Groups : EntryFound(e, c, g, i)) => rows' = rows
  BY DEF EntryLoaded, EntryFound
<1>14. CASE rows' # rows /\ EntrySwitchedOff(e)
  <2>1. rows' = [rows EXCEPT ![edit[e].id] = Merge(@, [edit[e].copy EXCEPT !.active = FALSE],
                                                   {"active"})]
    BY <1>14 DEF EntrySwitchedOff, SaveFields
  <2>2. \A row, copy : Merge(row, copy, {"active"}).expires = row.expires
    BY DEF Merge
  <2>3. Exists(edit[e].id)
    BY <1>14 DEF EntrySwitchedOff, SaveFields, CanUpdate
  <2> QED BY <1>0, <2>1, <2>2, <2>3 DEF ExpiryKept, Table, Exists
<1>16. CASE rows' # rows /\ EntryPinToggled(e)
  <2>1. /\ Exists(edit[e].id)
        /\ rows' = [rows EXCEPT ![edit[e].id].pinned = ~edit[e].copy.pinned]
    BY <1>16 DEF EntryPinToggled
  <2> QED BY <1>0, <2>1 DEF ExpiryKept, Table, Exists, Row
<1>15. CASE EntryRemoved(e) \/ \E S \in SUBSET Ids : AllDeactivated(e, S)
  BY <1>0, <1>15 DEF EntryRemoved, AllDeactivated, ExpiryKept, Table, Exists, Row
<1> QED BY <1>1, <1>2, <1>3, <1>4, <1>5, <1>6, <1>7, <1>8, <1>10, <1>11, <1>12, <1>13,
           <1>14, <1>15, <1>16 DEF EditStep

\* The pages touch the table and their own loaded copy, nothing else.
LEMMA EditFrame ==
    ASSUME NEW e \in Editors, EditStep(e)
    PROVE  UNCHANGED <<now, wl, settings, report, scan, sweep, feed, steady, expired,
                       filed, crashes>>
<1>1. ASSUME NEW i \in Ids, NEW c \in Hosts, NEW g \in Groups,
             EntryAdded(e, c, g, i) \/ EntryImported(e, c, g, i) \/ EntryFound(e, c, g, i)
      PROVE  UNCHANGED <<now, wl, settings, report, scan, sweep, feed, steady, expired,
                         filed, crashes>>
  BY <1>1 DEF EntryAdded, EntryImported, EntryFound, tasks
<1>2. ASSUME NEW i \in Ids, \/ EntryLoaded(e, i) \/ EntryDeactivated(e, i) \/ EntryDeleted(e, i)
                             \/ \E v \in BOOLEAN : EntryPinned(e, i, v)
      PROVE  UNCHANGED <<now, wl, settings, report, scan, sweep, feed, steady, expired,
                         filed, crashes>>
  BY <1>2 DEF EntryLoaded, EntryDeactivated, EntryDeleted, EntryPinned, tasks
<1>3. ASSUME \/ \E c \in Cidrs, g \in Groups : EntryEdited(e, c, g)
             \/ \E g \in Groups : GroupBulkEdited(e, g)
             \/ ImportCompleted(e) \/ EntryReactivated(e) \/ EntryBulkActivated(e)
             \/ EntrySwitchedOff(e)
      PROVE  UNCHANGED <<now, wl, settings, report, scan, sweep, feed, steady, expired,
                         filed, crashes>>
  BY <1>3 DEF EntryEdited, GroupBulkEdited, ImportCompleted, EntryReactivated,
     EntryBulkActivated, EntrySwitchedOff, SaveWhole, SaveFields
<1>4. ASSUME EntryPinToggled(e) \/ EntryRemoved(e) \/ \E S \in SUBSET Ids : AllDeactivated(e, S)
      PROVE  UNCHANGED <<now, wl, settings, report, scan, sweep, feed, steady, expired,
                         filed, crashes>>
  BY <1>4 DEF EntryPinToggled, EntryRemoved, AllDeactivated, tasks
<1> QED BY <1>1, <1>2, <1>3, <1>4 DEF EditStep

\* Only the clock's own step moves it.
LEMMA ClockSteps ==
    ASSUME [Next]_vars
    PROVE  now' = now \/ now' = now + 1
<1>1. ASSUME NEW w \in Reporters, ReportStep(w) PROVE now' = now
  BY <1>1 DEF ReportStep, ReportReceived, ReportScored, ReportFound, ReportAbsent,
     ReportRefreshed, ReportCreated, ReportCompleted, ReportApplied
<1>2. ASSUME NEW s \in Scanners, ScanStep(s) PROVE now' = now
  BY <1>2 DEF ScanStep, RefreshStarted, RescoreStarted, SettingsSaved, StartScan,
     RowScored, ScanGaveUp, RowReapplied, ScanSave
<1>3. ASSUME NEW a \in Sweepers, SweepStep(a) PROVE now' = now
  BY <1>3 DEF SweepStep, WhitelistCreated, WhitelistImported, WhitelistActivated,
     WhitelistBulkActivated, WhitelistDeleted, WhitelistBulkDeleted, WhitelistDeactivated,
     WhitelistBulkDeactivated, WhitelistOn, WhitelistOff, WhitelistEdited, SweepRead, SweepSaved
<1>4. ASSUME NEW e \in Editors, EditStep(e) PROVE now' = now
  BY <1>4, EditFrame
<1>5. ASSUME NEW f \in Readers, FeedStep(f) PROVE now' = now
  BY <1>5 DEF FeedStep, FeedRead, FeedServed
<1>6. (\E i \in Ids : Purged(i)) \/ CleanupRead \/ CleanupWrite \/ Crash \/ UNCHANGED vars
        => now' = now
  BY DEF Purged, CleanupRead, CleanupWrite, Crash, vars
<1>7. Tick => now' = now + 1
  BY DEF Tick
<1> QED BY <1>1, <1>2, <1>3, <1>4, <1>5, <1>6, <1>7 DEF Next

LEMMA NextExpiry ==
    ASSUME Inv, [Next]_vars
    PROVE  ExpiryKept
<1>1. rows \in Table /\ \A i \in Ids : Exists(i) => rows[i] \in Row
  BY DEF Inv, TypeOK, Table, Exists, CopyOrNone
<1>2. CASE rows' = rows
  BY <1>2, KeptSame
<1>3. CASE (\E i \in Ids : Purged(i)) \/ CleanupWrite
  BY <1>1, <1>3 DEF Purged, CleanupWrite, ExpiryKept, Table, Exists, Row
<1>4. (\E f \in Readers : FeedStep(f)) \/ CleanupRead \/ Tick \/ Crash \/ UNCHANGED vars
        => rows' = rows
  BY DEF FeedStep, FeedRead, FeedServed, CleanupRead, Tick, Crash, vars
<1> QED BY <1>2, <1>3, <1>4, ReportStepExpiry, ScanStepExpiry, SweepStepExpiry,
          EditStepExpiry DEF Next

\* Whatever stale copies are saved over a row, it never expires later than the
\* longest group's duration from now.
THEOREM ExpiryIsBounded == Spec => []ExpiryBounded
<1>1. Init => ExpiryBounded
  BY DEF Init, ExpiryBounded, Exists, NothingToDo
<1>2. Inv /\ ExpiryBounded /\ [Next]_vars => ExpiryBounded'
  <2> SUFFICES ASSUME Inv, ExpiryBounded, [Next]_vars,
                      NEW i \in Ids, rows'[i] # NoRow, rows'[i].expires # Null
               PROVE  rows'[i].expires <= now' + Duration["30d"]
    BY DEF ExpiryBounded, Exists
  <2>1. ExpiryKept /\ (now' = now \/ now' = now + 1)
    BY NextExpiry, ClockSteps
  <2>2. now \in Nat /\ Duration["30d"] \in Nat
    BY TimeAssumption, DurationAssumption DEF Inv, TypeOK, Times, Published
  <2>3. rows[i] # NoRow => rows[i] \in Row
    BY DEF Inv, TypeOK, CopyOrNone
  <2>4. rows'[i].expires \in Nat /\ rows'[i].expires <= now + Duration["30d"]
    BY <2>1, <2>2, <2>3 DEF ExpiryKept, Bounded, ExpiryBounded, Exists, Row
  <2> QED BY <2>1, <2>2, <2>4
<1> QED BY <1>1, <1>2, AlwaysInv, PTL DEF Spec

-----------------------------------------------------------------------------
(* The feed and the whitelist *)

\* Between its read and its answer a request only remembers entries that are
\* still active; what it answered overlaps none of those.
FeedInv ==
    \A f \in Readers :
        /\ feed[f].pc = "read" => steady[f] \subseteq ActiveWl(wl)
        /\ feed[f].pc = "served" =>
             \A c \in feed[f].out, d \in steady[f] : ~Overlaps(c, d)

LEMMA FeedFrame ==
    ASSUME FeedInv, UNCHANGED <<feed, wl, steady>>
    PROVE  FeedInv'
BY DEF FeedInv, ActiveWl, Overlaps

\* A whitelist change drops the entries that left it from every request.
LEMMA FeedWhitelist ==
    ASSUME FeedInv, Inv, NEW new, WhitelistBecomes(new), UNCHANGED feed
    PROVE  FeedInv'
<1>1. wl' = new /\ \A f \in Readers : steady'[f] = steady[f] \cap ActiveWl(new)
  BY DEF WhitelistBecomes
<1> QED BY <1>1 DEF FeedInv, ActiveWl, Overlaps

LEMMA FeedStepInv ==
    ASSUME FeedInv, Inv, NEW f \in Readers, FeedStep(f)
    PROVE  FeedInv'
<1>0. feed \in [Readers -> TypeFeed] /\ steady \in [Readers -> SUBSET Cidrs]
  BY DEF Inv, TypeOK
<1>1. CASE FeedServed(f)
  <2>1. /\ feed[f].pc = "read" /\ UNCHANGED <<wl, steady>>
        /\ feed'[f].pc = "served"
        /\ feed'[f].out = {c \in feed[f].out : ~Whitelisted(c)}
        /\ \A g \in Readers \ {f} : feed'[g] = feed[g]
    BY <1>0, <1>1 DEF FeedServed, TypeFeed
  <2>2. \A c \in feed'[f].out, d \in steady[f] : ~Overlaps(c, d)
    BY <2>1 DEF FeedInv, Whitelisted
  <2> QED BY <2>1, <2>2 DEF FeedInv, ActiveWl, Overlaps
<1>2. CASE \E G \in {Published, {"24h"}, {"30d"}} : FeedRead(f, G)
  <2>1. /\ feed'[f].pc = "read" /\ UNCHANGED wl /\ steady'[f] = ActiveWl(wl)
        /\ \A g \in Readers \ {f} : feed'[g] = feed[g] /\ steady'[g] = steady[g]
    BY <1>0, <1>2 DEF FeedRead
  <2> QED BY <2>1 DEF FeedInv, ActiveWl, Overlaps
<1> QED BY <1>1, <1>2 DEF FeedStep

\* Only the feed and the whitelist disturb FeedInv.
LEMMA NextFeedInv ==
    ASSUME FeedInv, Inv, [Next]_vars
    PROVE  FeedInv'
<1>1. ASSUME NEW w \in Reporters, ReportStep(w) PROVE UNCHANGED <<feed, wl, steady>>
  BY <1>1 DEF ReportStep, ReportReceived, ReportScored, ReportFound, ReportAbsent,
     ReportRefreshed, ReportCreated, ReportCompleted, ReportApplied
<1>2. ASSUME NEW s \in Scanners, ScanStep(s) PROVE UNCHANGED <<feed, wl, steady>>
  BY <1>2 DEF ScanStep, RefreshStarted, RescoreStarted, SettingsSaved, StartScan,
     RowScored, ScanGaveUp, RowReapplied, ScanSave
<1>3. ASSUME NEW e \in Editors, EditStep(e) PROVE UNCHANGED <<feed, wl, steady>>
  BY <1>3, EditFrame
<1>4. (\E i \in Ids : Purged(i)) \/ CleanupRead \/ CleanupWrite \/ Tick \/ UNCHANGED vars
        => UNCHANGED <<feed, wl, steady>>
  BY DEF Purged, CleanupRead, CleanupWrite, Tick, vars, tasks
<1>5. ASSUME NEW a \in Sweepers, SweepStep(a) PROVE FeedInv'
  <2>1. CASE UNCHANGED <<feed, wl, steady>>
    BY <2>1, FeedFrame
  <2>2. CASE UNCHANGED feed /\ \E new : WhitelistBecomes(new)
    BY <2>2, FeedWhitelist
  <2> QED BY <1>5, <2>1, <2>2 DEF SweepStep, WhitelistCreated, WhitelistImported,
             WhitelistActivated, WhitelistBulkActivated, WhitelistDeleted,
             WhitelistBulkDeleted, WhitelistDeactivated, WhitelistBulkDeactivated,
             WhitelistOn, WhitelistOff, WhitelistEdited, SweepRead, SweepSaved
<1>6. CASE Crash
  BY <1>6 DEF Crash, FeedInv, IdleFeed
<1> QED BY <1>1, <1>2, <1>3, <1>4, <1>5, <1>6, FeedFrame, FeedStepInv DEF Next

\* No answer of the feed holds a network overlapping an entry that was on the
\* whitelist, active, for the whole request.
THEOREM FeedIsFiltered == Spec => []FeedRespectsWhitelist
<1>1. Init => FeedInv
  BY DEF Init, FeedInv, IdleFeed
<1>2. FeedInv => FeedRespectsWhitelist
  BY DEF FeedInv, FeedRespectsWhitelist
<1> QED BY <1>1, <1>2, NextFeedInv, AlwaysInv, PTL DEF Spec

-----------------------------------------------------------------------------
(* Scores applied late *)

LEMMA NothingScored ==
    ASSUME UNCHANGED <<report, scan>>, NEW i \in Ids
    PROVE  ~ScoreWritten(i)
BY DEF ScoreWritten

\* What the step of a scored row, or of any row that is left alone, satisfies.
Undone(i) ==
    IF Exists(i)
    THEN /\ rows'[i] # NoRow
         /\ rows'[i].pinned = rows[i].pinned
         /\ rows'[i].hits = rows[i].hits
         /\ rows'[i].cidr = rows[i].cidr
         /\ rows'[i].active => rows[i].active
    ELSE rows'[i] = NoRow

LEMMA ScoreSaved ==
    ASSUME rows \in Table, NEW i \in Ids, NEW j \in Ids, NEW copy \in Row,
           NEW score \in Scores, settings \in Settings, now \in Nat, NEW taken,
           LET a == Applied(copy, score, settings, now, taken)
           IN \/ rows' = rows
              \/ Exists(j) /\ rows' = [rows EXCEPT ![j] = Merge(@, a.row, a.fields)]
    PROVE  Undone(i)
<1> DEFINE a == Applied(copy, score, settings, now, taken)
<1>1. a.row \in Row /\ ("active" \in a.fields => ~a.row.active)
  BY AppliedType
<1>2. CASE rows' = rows
  BY <1>2 DEF Undone, Exists
<1>3. CASE Exists(j) /\ rows' = [rows EXCEPT ![j] = Merge(@, a.row, a.fields)]
  <2> HIDE DEF a
  <2>1. rows[j] \in Row
    BY <1>3 DEF Table, CopyOrNone, Exists
  <2>2. /\ Merge(rows[j], a.row, a.fields) \in Row
        /\ Merge(rows[j], a.row, a.fields).cidr = rows[j].cidr
        /\ Merge(rows[j], a.row, a.fields).pinned = rows[j].pinned
        /\ Merge(rows[j], a.row, a.fields).hits = rows[j].hits
        /\ Merge(rows[j], a.row, a.fields).active => rows[j].active
    BY <1>1, <2>1, MergeType
  <2> QED BY <1>3, <2>2, NoRowAssumption DEF Table, Undone, Exists
<1> QED BY <1>2, <1>3

\* Every step that writes a score undoes nothing.
LEMMA NextUndone ==
    ASSUME Inv, Next, NEW i \in Ids, ScoreWritten(i)
    PROVE  Undone(i)
<1>0. /\ rows \in Table /\ now \in Nat /\ settings \in Settings
      /\ report \in [Reporters -> TypeReport] /\ scan \in [Scanners -> TypeScan]
  BY TimeAssumption DEF Inv, TypeOK, Table, Times
<1>1. CASE rows' = rows
  BY <1>1 DEF Undone, Exists
<1>2. ASSUME NEW w \in Reporters, ReportApplied(w) PROVE Undone(i)
  <2> DEFINE r == report[w]
             taken == TakenGroups(rows, r.id, r.cidr)
             a == Applied(r.copy, r.score, settings, now, taken)
  <2>1. r.copy \in Row /\ r.score \in Scores /\ r.id \in Ids
    BY <1>2 DEF ReportApplied, Inv, InFlight, ReportWell
  <2>2. \/ rows' = rows
        \/ Exists(r.id) /\ rows' = [rows EXCEPT ![r.id] = Merge(@, a.row, a.fields)]
    BY <1>2 DEF ReportApplied, CanUpdate
  <2> QED BY <1>0, <2>1, <2>2, ScoreSaved
<1>3. ASSUME NEW s \in Scanners, NEW j \in Ids, NEW score \in Scores, RowScored(s, j, score)
      PROVE Undone(i)
  <2> DEFINE copy == scan[s].todo[j]
             taken == TakenGroups(rows, j, copy.cidr)
             a == Applied(copy, score, settings, now, taken)
  <2>1. copy \in Row
    BY <1>0, <1>3 DEF RowScored, TypeScan, CopyOrNone
  <2>2. \/ rows' = rows
        \/ Exists(j) /\ rows' = [rows EXCEPT ![j] = Merge(@, a.row, a.fields)]
    BY <1>3 DEF RowScored, ScanSave, CanUpdate
  <2> QED BY <1>0, <2>1, <2>2, ScoreSaved
<1>4. ASSUME NEW w \in Reporters, ReportStep(w), ~ReportApplied(w), rows' # rows PROVE FALSE
  <2>1. /\ scan' = scan
        /\ report[w].pc \in {"found", "absent", "created"}
        /\ \A v \in Reporters \ {w} : report'[v] = report[v]
    BY <1>0, <1>4 DEF ReportStep, ReportReceived, ReportScored, ReportFound, ReportAbsent,
       ReportRefreshed, ReportCreated, ReportCompleted
  <2> QED BY <2>1 DEF ScoreWritten
<1>5. ASSUME NEW s \in Scanners, ScanStep(s), rows' # rows,
             ~\E j \in Ids, score \in Scores : RowScored(s, j, score)
      PROVE FALSE
  <2>1. PICK j \in Ids : RowReapplied(s, j)
    BY <1>5 DEF ScanStep, RefreshStarted, RescoreStarted, SettingsSaved, StartScan, ScanGaveUp
  <2>2. /\ scan[s].job # "score" /\ report' = report
        /\ \A v \in Scanners \ {s} : scan'[v] = scan[v]
    BY <1>0, <2>1 DEF RowReapplied, ScanSave, After
  <2> QED BY <2>2 DEF ScoreWritten
<1>6. ASSUME NEW a \in Sweepers, SweepStep(a) PROVE UNCHANGED <<report, scan>>
  BY <1>6 DEF SweepStep, WhitelistCreated, WhitelistImported, WhitelistActivated,
     WhitelistBulkActivated, WhitelistDeleted, WhitelistBulkDeleted, WhitelistDeactivated,
     WhitelistBulkDeactivated, WhitelistOn, WhitelistOff, WhitelistEdited, SweepRead, SweepSaved
<1>7. ASSUME NEW e \in Editors, EditStep(e) PROVE UNCHANGED <<report, scan>>
  BY <1>7, EditFrame
<1>8. (\E j \in Ids : Purged(j)) \/ CleanupWrite => UNCHANGED <<report, scan>>
  BY DEF Purged, CleanupWrite, tasks
<1>9. (\E f \in Readers : FeedStep(f)) \/ CleanupRead \/ Tick \/ Crash => rows' = rows
  BY DEF FeedStep, FeedRead, FeedServed, CleanupRead, Tick, Crash
<1>10. ~UNCHANGED <<report, scan>>
  BY NothingScored
<1> QED BY <1>1, <1>2, <1>3, <1>4, <1>5, <1>6, <1>7, <1>8, <1>9, <1>10 DEF Next

\* A score applied to a copy that was loaded before a slow query undoes no pin,
\* no recorded hit, no rename, no deactivation and no deletion.
THEOREM ScoringIsMonotone == Spec => ScoringNeverUndoes
<1>1. Inv /\ [Next]_vars =>
        [\A i \in Ids : ScoreWritten(i) =>
           IF Exists(i)
           THEN /\ rows'[i] # NoRow
                /\ rows'[i].pinned = rows[i].pinned
                /\ rows'[i].hits = rows[i].hits
                /\ rows'[i].cidr = rows[i].cidr
                /\ rows'[i].active => rows[i].active
           ELSE rows'[i] = NoRow]_vars
  BY NextUndone DEF Undone
<1> QED BY <1>1, AlwaysInv, PTL DEF Spec, ScoringNeverUndoes

-----------------------------------------------------------------------------
(* Pins *)

\* A re-evaluation of a pinned copy saves its score, or nothing.
LEMMA PinnedFields ==
    ASSUME NEW copy, copy.pinned
    PROVE  /\ \A score, s, t, taken : Applied(copy, score, s, t, taken).fields = {"score"}
           /\ \A s, t, only, taken : Reapplied(copy, s, t, only, taken).fields = {}
BY DEF Applied, Reapplied

\* What a job may do to a pinned row it loaded.
PinKept(i) ==
    /\ rows'[i].group = rows[i].group
    /\ rows'[i].active = rows[i].active
    /\ rows'[i].expires = rows[i].expires

\* A job that has saved a row is done with that row alone.
LEMMA SavedOnly ==
    ASSUME NEW s \in Scanners, NEW j \in Ids, NEW a, scan[s] \in TypeScan,
           scan \in [Scanners -> TypeScan], ScanSave(s, j, a), rows' # rows
    PROVE  /\ scan'[s].todo = [scan[s].todo EXCEPT ![j] = NoRow]
           /\ \A v \in Scanners \ {s} : scan'[v] = scan[v]
           /\ a.fields # {} /\ Exists(j) /\ rows' = [rows EXCEPT ![j] = Merge(@, a.row, a.fields)]
<1> DEFINE done == [scan[s] EXCEPT !.todo[j] = NoRow]
<1>1. a.fields # {} /\ CanUpdate(j, a.row, a.fields)
      /\ rows' = [rows EXCEPT ![j] = Merge(@, a.row, a.fields)]
  BY DEF ScanSave
<1>2. scan' = [scan EXCEPT ![s] = Settled(done)]
  BY <1>1 DEF ScanSave, After
<1>3. done.todo = [scan[s].todo EXCEPT ![j] = NoRow]
  BY DEF TypeScan
<1> HIDE DEF done
<1>4. Settled(done).todo = done.todo
  BY DEF Settled, IdleScan
<1> QED BY <1>1, <1>2, <1>3, <1>4 DEF CanUpdate

LEMMA NextPin ==
    ASSUME Inv, Next, NEW s \in Scanners, NEW i \in Ids,
           scan[s].todo[i] # NoRow, scan'[s].todo[i] = NoRow, scan[s].todo[i].pinned
    PROVE  PinKept(i)
<1>0. rows \in Table /\ scan \in [Scanners -> TypeScan]
  BY DEF Inv, TypeOK, Table
<1>1. CASE rows' = rows
  BY <1>1 DEF PinKept
<1>2. CASE rows' # rows
  <2>1. PICK v \in Scanners : ScanStep(v)
    <3>1. ASSUME NEW w \in Reporters, ReportStep(w) PROVE scan' = scan
      BY <3>1 DEF ReportStep, ReportReceived, ReportScored, ReportFound, ReportAbsent,
         ReportRefreshed, ReportCreated, ReportCompleted, ReportApplied
    <3>2. ASSUME NEW a \in Sweepers, SweepStep(a) PROVE scan' = scan
      BY <3>2 DEF SweepStep, WhitelistCreated, WhitelistImported, WhitelistActivated,
         WhitelistBulkActivated, WhitelistDeleted, WhitelistBulkDeleted, WhitelistDeactivated,
         WhitelistBulkDeactivated, WhitelistOn, WhitelistOff, WhitelistEdited, SweepRead, SweepSaved
    <3>3. ASSUME NEW e \in Editors, EditStep(e) PROVE scan' = scan
      BY <3>3, EditFrame
    <3>4. (\E j \in Ids : Purged(j)) \/ CleanupWrite => scan' = scan
      BY DEF Purged, CleanupWrite, tasks
    <3>5. ~((\E f \in Readers : FeedStep(f)) \/ CleanupRead \/ Tick \/ Crash)
      BY <1>2 DEF FeedStep, FeedRead, FeedServed, CleanupRead, Tick, Crash
    <3>6. scan' # scan
      OBVIOUS
    <3> QED BY <3>1, <3>2, <3>3, <3>4, <3>5, <3>6 DEF Next
  <2>2. PICK j \in Ids : \E a : /\ ScanSave(v, j, a)
                                /\ scan[v].todo[j].pinned => a.fields \in {{}, {"score"}}
    <3>1. (\E j \in Ids, score \in Scores : RowScored(v, j, score)) \/ (\E j \in Ids : RowReapplied(v, j))
      BY <1>2, <2>1 DEF ScanStep, RefreshStarted, RescoreStarted, SettingsSaved, StartScan, ScanGaveUp
    <3>2. CASE \E j \in Ids, score \in Scores : RowScored(v, j, score)
      <4>1. PICK j \in Ids, score \in Scores : RowScored(v, j, score)
        BY <3>2
      <4> DEFINE a == Applied(scan[v].todo[j], score, settings, now,
                              TakenGroups(rows, j, scan[v].todo[j].cidr))
      <4>2. ScanSave(v, j, a)
        BY <4>1 DEF RowScored
      <4>3. scan[v].todo[j].pinned => a.fields = {"score"}
        BY PinnedFields
      <4> HIDE DEF a
      <4> QED BY <4>2, <4>3
    <3>3. CASE \E j \in Ids : RowReapplied(v, j)
      <4>1. PICK j \in Ids : RowReapplied(v, j)
        BY <3>3
      <4> DEFINE a == Reapplied(scan[v].todo[j], scan[v].rule, now, scan[v].job = "promotion",
                                TakenGroups(rows, j, scan[v].todo[j].cidr))
      <4>2. ScanSave(v, j, a)
        BY <4>1 DEF RowReapplied
      <4>3. scan[v].todo[j].pinned => a.fields = {}
        BY PinnedFields
      <4> HIDE DEF a
      <4> QED BY <4>2, <4>3
    <3> QED BY <3>1, <3>2, <3>3
  <2> PICK a : ScanSave(v, j, a) /\ (scan[v].todo[j].pinned => a.fields \in {{}, {"score"}})
    BY <2>2
  <2>3. /\ scan'[v].todo = [scan[v].todo EXCEPT ![j] = NoRow]
        /\ \A u \in Scanners \ {v} : scan'[u] = scan[u]
        /\ a.fields # {} /\ Exists(j) /\ rows' = [rows EXCEPT ![j] = Merge(@, a.row, a.fields)]
    BY <1>0, <1>2, SavedOnly
  <2>4. v = s /\ j = i
    BY <1>0, <2>3 DEF TypeScan
  <2>5. a.fields = {"score"}
    BY <2>3, <2>4
  <2>6. rows'[i] = Merge(rows[i], a.row, {"score"})
    BY <1>0, <2>3, <2>4, <2>5 DEF Table
  <2> QED BY <2>6 DEF PinKept, Merge
<1> QED BY <1>1, <1>2

\* A row that was pinned when a refresh, a rescore or a re-evaluation loaded it
\* keeps its group, its state and its expiry through that job.
THEOREM PinSurvivesScans == Spec => PinHeldThroughScan
<1>1. Inv /\ [Next]_vars =>
        [\A s \in Scanners, i \in Ids :
           /\ scan[s].todo[i] # NoRow
           /\ scan'[s].todo[i] = NoRow
           /\ scan[s].todo[i].pinned
           /\ Exists(i) /\ rows'[i] # NoRow
           => /\ rows'[i].group = rows[i].group
              /\ rows'[i].active = rows[i].active
              /\ rows'[i].expires = rows[i].expires]_vars
  BY NextPin DEF PinKept
<1> QED BY <1>1, AlwaysInv, PTL DEF Spec, PinHeldThroughScan

-----------------------------------------------------------------------------
(* One row of an address *)

\* What a report found is a row of its address.
FoundOwn == \A w \in Reporters : report[w].pc = "found" => report[w].copy.cidr = report[w].cidr

LEMMA ReportFrame ==
    ASSUME Next, ~Crash, NEW w \in Reporters, report'[w] # report[w], Inv
    PROVE  ReportStep(w)
<1>0. report \in [Reporters -> TypeReport]
  BY DEF Inv, TypeOK
<1>1. ASSUME NEW v \in Reporters, ReportStep(v) PROVE v = w
  BY <1>0, <1>1 DEF ReportStep, ReportReceived, ReportScored, ReportFound, ReportAbsent,
     ReportRefreshed, ReportCreated, ReportCompleted, ReportApplied
<1>2. ASSUME NEW s \in Scanners, ScanStep(s) PROVE report' = report
  BY <1>2 DEF ScanStep, RefreshStarted, RescoreStarted, SettingsSaved, StartScan,
     RowScored, ScanGaveUp, RowReapplied, ScanSave
<1>3. ASSUME NEW a \in Sweepers, SweepStep(a) PROVE report' = report
  BY <1>3 DEF SweepStep, WhitelistCreated, WhitelistImported, WhitelistActivated,
     WhitelistBulkActivated, WhitelistDeleted, WhitelistBulkDeleted, WhitelistDeactivated,
     WhitelistBulkDeactivated, WhitelistOn, WhitelistOff, WhitelistEdited, SweepRead, SweepSaved
<1>4. ASSUME NEW e \in Editors, EditStep(e) PROVE report' = report
  BY <1>4, EditFrame
<1>5. ASSUME NEW f \in Readers, FeedStep(f) PROVE report' = report
  BY <1>5 DEF FeedStep, FeedRead, FeedServed
<1>6. (\E i \in Ids : Purged(i)) \/ CleanupRead \/ CleanupWrite \/ Tick => report' = report
  BY DEF Purged, CleanupRead, CleanupWrite, Tick, tasks
<1> QED BY <1>1, <1>2, <1>3, <1>4, <1>5, <1>6 DEF Next

LEMMA NextFoundOwn ==
    ASSUME Inv, FoundOwn, [Next]_vars
    PROVE  FoundOwn'
<1> SUFFICES ASSUME NEW w \in Reporters, report'[w].pc = "found"
             PROVE  report'[w].copy.cidr = report'[w].cidr
  BY DEF FoundOwn
<1>0. report \in [Reporters -> TypeReport]
  BY DEF Inv, TypeOK
<1>1. CASE report'[w] = report[w]
  BY <1>1 DEF FoundOwn
<1>2. CASE Crash
  BY <1>2 DEF Crash, IdleReport
<1>3. CASE report'[w] # report[w] /\ ~Crash
  <2>1. ReportStep(w)
    <3>1. UNCHANGED vars => report' = report
      BY DEF vars, tasks
    <3>2. Next
      BY <1>3, <3>1
    <3> QED BY <1>3, <3>2, ReportFrame
  <2>2. PICK i \in Ids : ReportFound(w, i)
    <3>1. ASSUME NEW c \in Hosts, ReportReceived(w, c) PROVE report'[w].pc = "querying"
      BY <1>0, <3>1 DEF ReportReceived, IdleReport
    <3>2. ASSUME NEW score \in Scores \cup {Null}, ReportScored(w, score) PROVE report'[w].pc = "scored"
      BY <1>0, <3>2 DEF ReportScored, TypeReport
    <3>3. ASSUME ReportAbsent(w) PROVE report'[w].pc \in {"idle", "absent"}
      BY <1>0, <3>3 DEF ReportAbsent, IdleReport, TypeReport
    <3>4. \A k \in TypeReport : \A copy : Stored(k, copy).pc \in {"idle", "stored"}
      BY DEF Stored, IdleReport, TypeReport
    <3>5. ASSUME ReportRefreshed(w) \/ ReportCompleted(w) PROVE report'[w].pc \in {"idle", "stored"}
      BY <1>0, <3>4, <3>5 DEF ReportRefreshed, ReportCompleted, IdleReport
    <3>6. ASSUME NEW i \in Ids, ReportCreated(w, i) PROVE report'[w].pc \in {"idle", "created"}
      BY <1>0, <3>6 DEF ReportCreated, IdleReport, TypeReport
    <3>7. ASSUME ReportApplied(w) PROVE report'[w].pc = "idle"
      BY <1>0, <3>7 DEF ReportApplied, IdleReport
    <3> QED BY <2>1, <3>1, <3>2, <3>3, <3>5, <3>6, <3>7 DEF ReportStep
  <2>3. report'[w].copy = rows[i] /\ report'[w].cidr = report[w].cidr /\ rows[i].cidr = report[w].cidr
    BY <1>0, <2>2 DEF ReportFound, TypeReport
  <2> QED BY <2>3
<1> QED BY <1>1, <1>2, <1>3

\* The rows of a table that block an address.
RowsOf(table, c) == {i \in Ids : table[i] # NoRow /\ table[i].cidr = c}

LEMMA NextCollapses ==
    ASSUME Inv, FoundOwn, Next, NEW w \in Reporters,
           report[w].pc = "found", report'[w].pc \in {"idle", "stored"}, crashes' = crashes,
           RowsOf(rows, report[w].cidr) \subseteq report[w].dups \cup {report[w].id}
    PROVE  /\ RowsOf(rows', report[w].cidr) = {report[w].id}
           /\ rows'[report[w].id].group = report[w].group
<1> DEFINE r == report[w]
           kept == [i \in Ids |-> IF i \in r.dups THEN NoRow ELSE rows[i]]
           hit == [r.copy EXCEPT !.group = r.group, !.active = TRUE, !.hits = RecordedHit(@, now)]
           copy == Normal(Renewed(hit, now))
<1>0. /\ report \in [Reporters -> TypeReport] /\ rows \in Table /\ now \in Times /\ now \in Nat
      /\ ReportWell(r) /\ crashes \in Nat
  BY TimeAssumption DEF Inv, InFlight, TypeOK, Table, Times
<1>1. ReportRefreshed(w)
  <2>1. ~Crash
    BY <1>0 DEF Crash
  <2>2. ReportStep(w)
    BY <2>1, ReportFrame
  <2> QED BY <1>0, <2>2 DEF ReportStep, ReportReceived, ReportScored, ReportFound, ReportAbsent,
             ReportCreated, ReportCompleted, ReportApplied, TypeReport
<1>2. r.copy \in Row /\ r.group \in Groups /\ r.id \in Ids /\ r.copy.cidr = r.cidr
  BY <1>0 DEF ReportWell, FoundOwn
<1>3. RecordedHit(r.copy.hits, now) \in [Times -> Nat]
  BY <1>0, <1>2, RecordedHitType DEF Row
<1>4. hit \in Row /\ hit.cidr = r.cidr /\ hit.group = r.group
  BY <1>2, <1>3 DEF Row
<1> HIDE DEF hit
<1>5. copy \in Row /\ copy.cidr = r.cidr /\ copy.group = r.group
  <2>1. copy \in Row
    BY <1>0, <1>4, RenewedBounded
  <2>2. Renewed(hit, now).cidr = hit.cidr /\ Renewed(hit, now).group = hit.group
        /\ Renewed(hit, now) \in Row
    BY <1>0, <1>4, RenewedBounded DEF Renewed, Row
  <2>3. copy.cidr = Renewed(hit, now).cidr /\ copy.group = Renewed(hit, now).group
    BY <2>2 DEF Normal, Row
  <2> QED BY <1>4, <2>1, <2>2, <2>3
<1>6. rows' = IF Clash(kept, r.id, copy) THEN kept ELSE [kept EXCEPT ![r.id] = copy]
  BY <1>1 DEF ReportRefreshed, hit
<1> HIDE DEF copy
<1>7. \A j \in Ids \ {r.id} : kept[j] # NoRow => kept[j].cidr # r.cidr
  BY DEF RowsOf
<1>8. ~Clash(kept, r.id, copy)
  BY <1>5, <1>7 DEF Clash, TakenGroups
<1>9. /\ rows'[r.id] = copy /\ copy # NoRow
      /\ \A j \in Ids \ {r.id} : rows'[j] # NoRow => rows'[j].cidr # r.cidr
  BY <1>2, <1>5, <1>6, <1>7, <1>8, NoRowAssumption
<1>10. RowsOf(rows', r.cidr) = {r.id}
  BY <1>2, <1>5, <1>9 DEF RowsOf
<1> QED BY <1>5, <1>9, <1>10

\* A report that finds rows of its address leaves exactly one, in the group its
\* score asks for, unless a row it did not see appeared after its lookup.
THEOREM ReportsCollapse == Spec => ReportCollapses
<1>1. Init => FoundOwn
  BY DEF Init, FoundOwn, IdleReport
<1>2. Inv /\ FoundOwn /\ [Next]_vars =>
        [\A w \in Reporters :
           LET r == report[w]
               of(table) == {i \in Ids : table[i] # NoRow /\ table[i].cidr = r.cidr}
           IN /\ r.pc = "found"
              /\ report'[w].pc \in {"idle", "stored"}
              /\ crashes' = crashes
              /\ of(rows) \subseteq r.dups \cup {r.id}
              => of(rows') = {r.id} /\ rows'[r.id].group = r.group]_vars
  BY NextCollapses DEF RowsOf
<1> QED BY <1>1, <1>2, NextFoundOwn, AlwaysInv, PTL DEF Spec, ReportCollapses

-----------------------------------------------------------------------------
(* Rows that never expire                                                  *)
(*                                                                         *)
(* NoPermanentBlock is not true of every behaviour.  What follows shows    *)
(* that there are only two ways to break it: a restart between the two     *)
(* saves of a new row, and a rescore that holds a no_group copy which      *)
(* still carries an expiry.                                                *)

\* A published row that no job will ever retire.
Endless(row) == row.active /\ row.expires = Null /\ row.group \in Published

\* No refresh or rescore holds a no_group row that still carries an expiry.
RescoresClean ==
    \A s \in Scanners, i \in Ids :
        /\ scan[s].job = "score"
        /\ scan[s].todo[i] # NoRow
        /\ scan[s].todo[i].group = "no_group"
        => scan[s].todo[i].expires = Null

\* A restart does not fall between the two saves of a new row.
SavesUninterrupted ==
    Crash => /\ \A w \in Reporters : report[w].pc # "created"
             /\ \A e \in Editors : edit[e].pc # "imported"

\* Somebody inserted row i as it is and still owes it its expiry.
Creating(i, row) ==
    \/ \E w \in Reporters : /\ report[w].pc = "created" /\ report[w].id = i
                            /\ report[w].copy.cidr = row.cidr
                            /\ report[w].copy.group = row.group
    \/ \E e \in Editors : /\ edit[e].pc = "imported" /\ edit[e].id = i
                          /\ edit[e].copy.cidr = row.cidr
                          /\ edit[e].copy.group = row.group

Owned == \A i \in Ids : Exists(i) /\ Endless(rows[i]) => Creating(i, rows[i])

\* unique_together: at most one row of an address in a group.
Single(table) ==
    \A i, j \in Ids :
        (/\ table[i] # NoRow /\ table[j] # NoRow
         /\ table[i].cidr = table[j].cidr
         /\ table[i].group = table[j].group) => i = j

\* The copy a report is about to score has no expiry if it is in no_group.
StoredClean ==
    \A w \in Reporters :
        report[w].pc = "stored" /\ report[w].copy.group = "no_group"
        => report[w].copy.expires = Null

EndlessInv == Owned /\ Single(rows) /\ StoredClean

-----------------------------------------------------------------------------
(* What one save does *)

\* Renewing gives every published row an expiry.
LEMMA RenewedEnds ==
    ASSUME NEW row \in Row, now \in Nat
    PROVE  /\ ~Endless(Renewed(row, now))
           /\ ~Endless(Normal(Renewed(row, now)))
           /\ Renewed(row, now).group = "no_group" => Renewed(row, now).expires = Null
<1>1. \A g \in Published : Duration[g] # Null /\ now + Duration[g] # Null
  BY DurationAssumption, NullAssumption DEF Published
<1>2. /\ Renewed(row, now) \in Row /\ Renewed(row, now).group = row.group
      /\ Renewed(row, now).expires = IF Duration[row.group] = Null THEN Null
                                     ELSE now + Duration[row.group]
  BY RenewedType DEF Renewed, Row
<1>3. row.group \in Published => Renewed(row, now).expires # Null
  BY <1>1, <1>2
<1>4. /\ Normal(Renewed(row, now)).group = row.group
      /\ Normal(Renewed(row, now)).expires = Renewed(row, now).expires
  BY <1>2, NormalType
<1>5. row.group = "no_group" => Renewed(row, now).expires = Null
  BY <1>2, DurationAssumption
<1> QED BY <1>2, <1>3, <1>4, <1>5 DEF Endless

\* Columns whose save never leaves a row published without an expiry, unless the
\* row was so before.
Safe(copy, fields) ==
    \/ fields \cap {"expires", "group", "active"} = {}
    \/ "expires" \in fields /\ copy.expires # Null
    \/ "active" \in fields /\ ~Normal(copy).active
    \/ "group" \in fields /\ copy.group = "no_group"

LEMMA SafeMerge ==
    ASSUME NEW stored \in Row, NEW copy \in Row, NEW fields, Safe(copy, fields),
           Endless(Merge(stored, copy, fields))
    PROVE  /\ Endless(stored)
           /\ Merge(stored, copy, fields).cidr = stored.cidr
           /\ Merge(stored, copy, fields).group = stored.group
<1> DEFINE m == Merge(stored, copy, fields)
<1>1. Normal(copy).group = copy.group /\ Normal(copy).expires = copy.expires
  BY NormalType
<1>2. /\ m.cidr = stored.cidr
      /\ m.group = IF "group" \in fields THEN copy.group ELSE stored.group
      /\ m.active = IF "active" \in fields THEN Normal(copy).active ELSE stored.active
      /\ m.expires = IF "expires" \in fields THEN copy.expires ELSE stored.expires
  BY <1>1 DEF Merge
<1> HIDE DEF m
<1>3. m.active /\ m.expires = Null /\ m.group \in Published
  BY DEF Endless, m
<1>4. fields \cap {"expires", "group", "active"} = {}
  BY <1>2, <1>3 DEF Safe, Published
<1>5. m.cidr = stored.cidr /\ m.group = stored.group /\ m.active = stored.active
      /\ m.expires = stored.expires
  BY <1>2, <1>4
<1> QED BY <1>3, <1>5 DEF Endless, m

\* A renewed copy may be saved with its state, or with its group.
LEMMA RenewedSafe ==
    ASSUME NEW row \in Row, now \in Nat, NEW fields, "expires" \in fields,
           "active" \in fields \/ "group" \in fields
    PROVE  Safe(Renewed(row, now), fields)
<1> DEFINE new == Renewed(row, now)
<1>1. new \in Row /\ new.group = row.group /\ (row.group \in Published => new.expires # Null)
  <2>1. \A g \in Published : Duration[g] # Null /\ now + Duration[g] # Null
    BY DurationAssumption, NullAssumption DEF Published
  <2> QED BY <2>1, RenewedType DEF Renewed, Row
<1>2. new.group = "no_group" => ~Normal(new).active
  BY <1>1 DEF Normal, Row
<1>3. row.group \in Published \/ row.group = "no_group"
  BY DEF Row, Groups, Published
<1> QED BY <1>1, <1>2, <1>3 DEF Safe

\* A fresh score is saved safely from a copy without a stale expiry.
LEMMA AppliedSafe ==
    ASSUME NEW copy \in Row, NEW score \in Scores, settings \in Settings, now \in Nat,
           NEW taken, copy.group = "no_group" => copy.expires = Null
    PROVE  LET a == Applied(copy, score, settings, now, taken) IN Safe(a.row, a.fields)
<1> DEFINE scored == [copy EXCEPT !.score = score]
           target == Target(copy, score, settings, now)
           moved == target # copy.group /\ target \notin taken
           placed == IF moved THEN [scored EXCEPT !.group = target] ELSE scored
           fresh == IF moved \/ copy.score # score THEN Renewed(placed, now) ELSE placed
           a == Applied(copy, score, settings, now, taken)
<1> SUFFICES Safe(a.row, a.fields)
  OBVIOUS
<1>1. scored \in Row /\ scored.group = copy.group
  BY DEF Row
<1>2. CASE copy.pinned
  <2>1. a.fields = {"score"}
    BY <1>2, PinnedFields
  <2> QED BY <2>1 DEF Safe
<1>3. CASE ~copy.pinned /\ score < settings.t24h
  <2>1. /\ a.row = [scored EXCEPT !.active = FALSE]
        /\ a.fields = {"score"} \cup (IF copy.active THEN {"active"} ELSE {})
    BY <1>3 DEF Applied
  <2>2. ~Normal(a.row).active
    BY <1>1, <2>1 DEF Normal, Row
  <2> HIDE DEF a
  <2> QED BY <2>1, <2>2 DEF Safe
<1>4. CASE ~copy.pinned /\ score >= settings.t24h
  <2>1. ~(score < settings.t24h)
    BY <1>4, ScoresAssumption DEF Settings
  <2>2. a = [row    |-> fresh,
             fields |-> {"score"} \cup (IF moved THEN {"group"} ELSE {})
                                  \cup (IF moved \/ copy.score # score
                                        THEN ExpiryField(copy, fresh) ELSE {})]
    BY <1>4, <2>1, Zenon DEF Applied
  <2>3. target \in Published
    BY <1>4, TargetType
  <2> HIDE DEF target, a
  <2>4. placed \in Row /\ placed.group = IF moved THEN target ELSE copy.group
    BY <1>1, <2>3 DEF Row, Groups, Published
  <2>5. placed.group \in Published => Renewed(placed, now).expires # Null
    BY <2>4, DurationAssumption, NullAssumption DEF Renewed, Row, Published
  <2>6. placed.group = "no_group" => Renewed(placed, now).expires = Null
    BY <2>4, RenewedEnds, RenewedType
  <2> HIDE DEF placed
  <2>7. CASE moved
    <3>1. fresh.expires # Null
      BY <2>3, <2>4, <2>5, <2>7
    <3>2. "expires" \in a.fields /\ a.row = fresh
      BY <2>2, <2>7, <3>1 DEF ExpiryField
    <3> QED BY <3>1, <3>2 DEF Safe
  <2>8. CASE ~moved /\ copy.score # score /\ copy.group \in Published
    <3>1. fresh.expires # Null
      BY <2>4, <2>5, <2>8
    <3>2. "expires" \in a.fields /\ a.row = fresh
      BY <2>2, <2>8, <3>1 DEF ExpiryField
    <3> QED BY <3>1, <3>2 DEF Safe
  <2>9. CASE ~moved /\ (copy.score = score \/ copy.group = "no_group")
    <3>1. a.fields = {"score"}
      BY <2>2, <2>4, <2>6, <2>9 DEF ExpiryField
    <3> QED BY <3>1 DEF Safe
  <2> QED BY <2>7, <2>8, <2>9 DEF Row, Groups, Published
<1> QED BY <1>2, <1>3, <1>4, ScoresAssumption DEF Settings

\* A re-evaluation is saved safely, whatever copy it started from.
LEMMA ReappliedSafe ==
    ASSUME NEW copy \in Row, NEW s \in Settings, now \in Nat,
           NEW promotionOnly \in BOOLEAN, NEW taken
    PROVE  LET a == Reapplied(copy, s, now, promotionOnly, taken) IN Safe(a.row, a.fields)
<1> DEFINE target == Target(copy, copy.score, s, now)
           exempt == copy.pinned \/ (promotionOnly /\ ~copy.active)
           covered == copy.score >= s.t24h
           woken == ~promotionOnly /\ ~copy.active
           moved == target # copy.group /\ target \notin taken
           placed == [copy EXCEPT !.group = IF moved THEN target ELSE @,
                                  !.active = @ \/ woken]
           changed == (IF woken THEN {"active"} ELSE {}) \cup (IF moved THEN {"group"} ELSE {})
           a == Reapplied(copy, s, now, promotionOnly, taken)
<1> SUFFICES Safe(a.row, a.fields)
  OBVIOUS
<1>1. \/ a.fields = {}
      \/ a = [row |-> [copy EXCEPT !.active = FALSE], fields |-> {"active"}]
      \/ covered /\ changed # {} /\ a = [row |-> Renewed(placed, now), fields |-> changed \cup {"expires"}]
  BY DEF Reapplied
<1>2. CASE a.fields = {}
  BY <1>2 DEF Safe
<1>3. CASE a = [row |-> [copy EXCEPT !.active = FALSE], fields |-> {"active"}]
  <2>1. ~Normal([copy EXCEPT !.active = FALSE]).active
    BY DEF Normal, Row
  <2> HIDE DEF a
  <2> QED BY <1>3, <2>1 DEF Safe
<1>4. CASE covered /\ changed # {} /\ a = [row |-> Renewed(placed, now), fields |-> changed \cup {"expires"}]
  <2>1. target \in Groups
    BY <1>4, TargetType DEF Published, Groups
  <2>2. placed \in Row
    <3>1. (copy.active \/ woken) \in BOOLEAN
      OBVIOUS
    <3> HIDE DEF target, woken
    <3> QED BY <2>1, <3>1 DEF Row
  <2>3. "active" \in changed \/ "group" \in changed
    BY <1>4
  <2> HIDE DEF placed, changed, a
  <2>4. Safe(Renewed(placed, now), changed \cup {"expires"})
    BY <2>2, <2>3, RenewedSafe
  <2> QED BY <1>4, <2>4
<1> QED BY <1>1, <1>2, <1>3, <1>4

-----------------------------------------------------------------------------
(* What one step does *)

\* Rows published without an expiry were so before the step, in the same place.
NoneEndless ==
    \A i \in Ids : rows'[i] # NoRow /\ Endless(rows'[i]) =>
        /\ Exists(i) /\ Endless(rows[i])
        /\ rows'[i].cidr = rows[i].cidr
        /\ rows'[i].group = rows[i].group

CreatorsStay == \A i \in Ids, row \in Row : Creating(i, row) => Creating(i, row)'

\* The same of all but the one who inserted row i as the copy old.
OthersStay(i, old) ==
    \A j \in Ids, row \in Row : Creating(j, row) =>
        Creating(j, row)' \/ (j = i /\ old.cidr = row.cidr /\ old.group = row.group)

LEMMA OwnedKept ==
    ASSUME Inv, Owned, NoneEndless, CreatorsStay
    PROVE  Owned'
<1> SUFFICES ASSUME NEW i \in Ids, rows'[i] # NoRow, Endless(rows'[i])
             PROVE  Creating(i, rows[i])'
  BY DEF Owned, Exists, Endless
<1>1. /\ Exists(i) /\ Endless(rows[i]) /\ rows[i] \in Row
      /\ rows'[i].cidr = rows[i].cidr /\ rows'[i].group = rows[i].group
  BY DEF NoneEndless, Inv, TypeOK, CopyOrNone, Exists
<1>2. Creating(i, rows[i])
  BY <1>1 DEF Owned
<1>3. \A old \in Row : Creating(i, old) => Creating(i, old)'
  BY DEF CreatorsStay
<1>4. ASSUME NEW old \in Row, Creating(i, old)',
             rows'[i].cidr = old.cidr, rows'[i].group = old.group
      PROVE  Creating(i, rows[i])'
  BY <1>4 DEF Creating
<1>5. PICK old \in Row : old = rows[i]
  BY <1>1
<1> QED BY <1>1, <1>2, <1>3, <1>4, <1>5

\* A report that is not between its two saves, a page that is not, and all the
\* others leave whoever is.
LEMMA ReportCreators ==
    ASSUME NEW w \in Reporters, report[w].pc # "created", edit' = edit,
           \A v \in Reporters \ {w} : report'[v] = report[v]
    PROVE  CreatorsStay
BY DEF CreatorsStay, Creating

LEMMA EditCreators ==
    ASSUME NEW e \in Editors, edit[e].pc # "imported", NEW r,
           edit' = [edit EXCEPT ![e] = r], report' = report
    PROVE  CreatorsStay
BY DEF CreatorsStay, Creating

LEMMA OtherCreators ==
    ASSUME UNCHANGED <<report, edit>>
    PROVE  CreatorsStay
BY DEF CreatorsStay, Creating

LEMMA SingleSave ==
    ASSUME NEW table \in Table, Single(table), NEW i \in Ids, NEW row \in Row,
           ~Clash(table, i, row)
    PROVE  Single([table EXCEPT ![i] = row])
<1> DEFINE new == [table EXCEPT ![i] = row]
<1>1. new[i] = row /\ \A j \in Ids \ {i} : new[j] = table[j]
  BY DEF Table
<1>2. \A j \in Ids \ {i} : table[j] # NoRow /\ table[j].cidr = row.cidr
                           => table[j].group # row.group
  BY DEF Clash, TakenGroups
<1> HIDE DEF new
<1>3. SUFFICES Single(new)
  BY DEF new
<1> QED BY <1>1, <1>2 DEF Single

LEMMA SingleKept ==
    ASSUME Single(rows),
           \A i \in Ids : rows'[i] # NoRow =>
               Exists(i) /\ rows'[i].cidr = rows[i].cidr /\ rows'[i].group = rows[i].group
    PROVE  Single(rows')
BY DEF Single, Exists

\* A whole row saved with an expiry, where the index admits it.
LEMMA WholeSave ==
    ASSUME rows \in Table, Single(rows), NEW i \in Ids, NEW row \in Row,
           ~Endless(row), ~Clash(rows, i, row), rows' = [rows EXCEPT ![i] = row]
    PROVE  NoneEndless /\ Single(rows')
<1>1. Single(rows')
  BY SingleSave
<1>2. rows'[i] = row /\ \A j \in Ids \ {i} : rows'[j] = rows[j]
  BY DEF Table
<1> QED BY <1>1, <1>2 DEF NoneEndless, Exists

\* Some columns of a copy saved safely over a row.
LEMMA PartSave ==
    ASSUME rows \in Table, Single(rows), NEW i \in Ids, NEW copy \in Row, NEW fields,
           Safe(copy, fields), Exists(i),
           "group" \in fields => CanUpdate(i, copy, fields),
           rows' = [rows EXCEPT ![i] = Merge(@, copy, fields)]
    PROVE  NoneEndless /\ Single(rows')
<1> DEFINE m == Merge(rows[i], copy, fields)
<1>1. rows[i] \in Row
  BY DEF Table, CopyOrNone, Exists
<1>2. m \in Row /\ m.cidr = rows[i].cidr
  BY <1>1, MergeType
<1>3. Endless(m) => Endless(rows[i]) /\ m.cidr = rows[i].cidr /\ m.group = rows[i].group
  BY <1>1, SafeMerge
<1>4. "group" \notin fields => m.group = rows[i].group
  BY DEF Merge
<1>5. "group" \in fields => ~Clash(rows, i, m)
  BY DEF CanUpdate
<1> HIDE DEF m
<1>6. rows' = [rows EXCEPT ![i] = m]
  BY DEF m
<1>7. rows'[i] = m /\ \A j \in Ids \ {i} : rows'[j] = rows[j]
  BY <1>6 DEF Table
<1>8. NoneEndless
  BY <1>3, <1>7 DEF NoneEndless, Exists
<1>9. Single(rows')
  <2>1. CASE "group" \in fields
    BY <1>2, <1>5, <1>6, <2>1, SingleSave
  <2>2. CASE "group" \notin fields
    BY <1>2, <1>4, <1>7, <2>2, SingleKept DEF Exists
  <2> QED BY <2>1, <2>2
<1> QED BY <1>8, <1>9

LEMMA SameRows ==
    ASSUME Single(rows), rows' = rows
    PROVE  NoneEndless /\ Single(rows')
BY DEF NoneEndless, Exists

\* Rows that only vanish or are switched off.
LEMMA RowsRetired ==
    ASSUME Single(rows),
           \A i \in Ids : \/ rows'[i] = rows[i] \/ rows'[i] = NoRow
                          \/ /\ Exists(i) /\ rows'[i].cidr = rows[i].cidr
                             /\ rows'[i].group = rows[i].group
                             /\ rows'[i].active => rows[i].active
                             /\ rows'[i].expires = rows[i].expires
    PROVE  NoneEndless /\ Single(rows')
<1>1. \A i \in Ids : rows'[i] # NoRow =>
               Exists(i) /\ rows'[i].cidr = rows[i].cidr /\ rows'[i].group = rows[i].group
  BY DEF Exists
<1> QED BY <1>1, SingleKept DEF NoneEndless, Endless, Exists

\* The first save of a new row: its creator owes it an expiry.
LEMMA Inserted ==
    ASSUME Inv, Owned, Single(rows), CreatorsStay, NEW i \in Ids, NEW copy \in Row,
           ~Clash(rows, Null, copy), rows' = [rows EXCEPT ![i] = copy], Creating(i, copy)'
    PROVE  Owned' /\ Single(rows')
<1>0. rows \in Table
  BY DEF Inv, TypeOK, Table
<1>1. ~Clash(rows, i, copy)
  BY NullIsNoValue DEF Clash, TakenGroups
<1>2. Single(rows')
  BY <1>0, <1>1, SingleSave
<1>3. rows'[i] = copy /\ \A j \in Ids \ {i} : rows'[j] = rows[j]
  BY <1>0 DEF Table
<1>4. ASSUME NEW j \in Ids, rows'[j] # NoRow, Endless(rows'[j])
      PROVE  Creating(j, rows[j])'
  <2>1. CASE j = i
    BY <1>3, <2>1 DEF Creating
  <2>2. CASE j # i
    <3>1. rows'[j] = rows[j] /\ Creating(j, rows[j]) /\ rows[j] \in Row
      BY <1>0, <1>3, <1>4, <2>2 DEF Owned, Exists, Table, CopyOrNone
    <3>2. PICK old \in Row : old = rows[j]
      BY <3>1
    <3>3. Creating(j, old)'
      BY <3>1, <3>2 DEF CreatorsStay
    <3> QED BY <3>1, <3>2, <3>3 DEF Creating
  <2> QED BY <2>1, <2>2
<1> QED BY <1>2, <1>4 DEF Owned, Exists, Endless

\* The second save, by whoever held the copy old.  The index refuses it only to a
\* row that is not the one inserted any more, and that row has its expiry.
LEMMA Completed ==
    ASSUME Inv, Owned, Single(rows), NEW i \in Ids, NEW old \in Row, NEW new \in Row,
           new.cidr = old.cidr, new.group = old.group, ~Endless(new),
           rows' = IF Clash(rows, i, new) THEN rows ELSE [rows EXCEPT ![i] = new],
           OthersStay(i, old)
    PROVE  Owned' /\ Single(rows')
<1>0. rows \in Table
  BY DEF Inv, TypeOK, Table
<1>1. Single(rows') /\ \A j \in Ids : rows'[j] = rows[j] \/ (j = i /\ ~Endless(rows'[j]))
  BY <1>0, SingleSave DEF Table
<1>2. ASSUME NEW j \in Ids, rows'[j] # NoRow, Endless(rows'[j])
      PROVE  Creating(j, rows[j])'
  <2>1. rows'[j] = rows[j] /\ Creating(j, rows[j]) /\ rows[j] \in Row
    BY <1>0, <1>1, <1>2 DEF Owned, Exists, Table, CopyOrNone
  <2>2. ~(j = i /\ old.cidr = rows[j].cidr /\ old.group = rows[j].group)
    <3> SUFFICES ASSUME j = i, old.cidr = rows[j].cidr, old.group = rows[j].group
                 PROVE  FALSE
      OBVIOUS
    <3>1. Clash(rows, i, new)
      BY <1>0, <1>2 DEF Table
    <3>2. PICK k \in Ids \ {i} : rows[k] # NoRow /\ rows[k].cidr = new.cidr
                                 /\ rows[k].group = new.group
      BY <3>1 DEF Clash, TakenGroups
    <3> QED BY <1>2, <2>1, <3>2 DEF Single
  <2>3. PICK row \in Row : row = rows[j]
    BY <2>1
  <2>4. Creating(j, row)'
    BY <2>1, <2>2, <2>3 DEF OthersStay
  <2> QED BY <2>1, <2>3, <2>4 DEF Creating
<1> QED BY <1>1, <1>2 DEF Owned, Exists, Endless

-----------------------------------------------------------------------------
(* Steps of every actor *)

LEMMA ReportStepEndless ==
    ASSUME Inv, EndlessInv, NEW w \in Reporters, ReportStep(w)
    PROVE  Owned' /\ Single(rows')
<1> DEFINE r == report[w]
<1>0. /\ ReportWell(r) /\ rows \in Table /\ now \in Times /\ now \in Nat
      /\ settings \in Settings /\ Single(rows) /\ Owned
      /\ report \in [Reporters -> TypeReport]
  BY TimeAssumption DEF Inv, InFlight, TypeOK, Table, Times, EndlessInv
<1>others. \A v \in Reporters \ {w} : report'[v] = report[v]
  BY <1>0 DEF ReportStep, ReportReceived, ReportScored, ReportFound, ReportAbsent,
     ReportRefreshed, ReportCreated, ReportCompleted, ReportApplied
<1>1. CASE \/ \E c \in Hosts : ReportReceived(w, c)
           \/ \E score \in Scores \cup {Null} : ReportScored(w, score)
           \/ \E i \in Ids : ReportFound(w, i)
           \/ ReportAbsent(w)
  <2>1. r.pc # "created" /\ rows' = rows /\ edit' = edit
    BY <1>1 DEF ReportReceived, ReportScored, ReportFound, ReportAbsent
  <2>2. CreatorsStay
    BY <1>others, <2>1, ReportCreators
  <2> QED BY <1>0, <2>1, <2>2, SameRows, OwnedKept
<1>2. CASE ReportRefreshed(w)
  <2> DEFINE kept == [i \in Ids |-> IF i \in r.dups THEN NoRow ELSE rows[i]]
             hit == [r.copy EXCEPT !.group = r.group, !.active = TRUE,
                                   !.hits = RecordedHit(@, now)]
             copy == Normal(Renewed(hit, now))
  <2>1. r.copy \in Row /\ r.group \in Groups /\ r.id \in Ids /\ r.pc = "found"
    BY <1>0, <1>2 DEF ReportRefreshed, ReportWell
  <2>2. RecordedHit(r.copy.hits, now) \in [Times -> Nat]
    BY <1>0, <2>1, RecordedHitType DEF Row
  <2>3. hit \in Row
    BY <2>1, <2>2 DEF Row
  <2>4. copy \in Row /\ ~Endless(copy)
    BY <1>0, <2>3, RenewedBounded, RenewedEnds
  <2>5. rows' = IF Clash(kept, r.id, copy) THEN kept ELSE [kept EXCEPT ![r.id] = copy]
    BY <1>2 DEF ReportRefreshed
  <2>6. kept \in Table /\ Single(kept)
    BY <1>0 DEF Table, CopyOrNone, Single
  <2>7. CreatorsStay
    BY <1>others, <1>2, <2>1, ReportCreators DEF ReportRefreshed
  <2> HIDE DEF copy
  <2>8. Single(rows')
    <3> HIDE DEF kept
    <3> QED BY <2>1, <2>4, <2>5, <2>6, SingleSave
  <2>9. \A i \in Ids : rows'[i] = rows[i] \/ rows'[i] = NoRow \/ ~Endless(rows'[i])
    BY <2>1, <2>4, <2>5
  <2>10. NoneEndless
    BY <2>9 DEF NoneEndless, Exists
  <2> QED BY <1>0, <2>7, <2>8, <2>10, OwnedKept
<1>3. CASE \E i \in Ids : ReportCreated(w, i)
  <2>1. PICK i \in Ids : ReportCreated(w, i)
    BY <1>3
  <2> DEFINE copy == Normal(NewRow(r.cidr, r.group))
             new == [r EXCEPT !.pc = "created", !.id = i, !.copy = copy]
  <2>2. r.pc = "absent" /\ r.cidr \in Cidrs /\ r.group \in Groups /\ edit' = edit
    BY <1>0, <2>1 DEF ReportCreated, ReportWell
  <2>3. copy \in Row
    BY <2>2, NewRowUnexpiring
  <2>4. CreatorsStay
    BY <1>others, <2>1, <2>2, ReportCreators DEF ReportCreated
  <2>5. CASE Clash(rows, Null, copy)
    BY <1>0, <2>1, <2>4, <2>5, SameRows, OwnedKept DEF ReportCreated
  <2>6. CASE ~Clash(rows, Null, copy)
    <3>1. rows' = [rows EXCEPT ![i] = copy] /\ report' = [report EXCEPT ![w] = new]
      BY <2>1, <2>6 DEF ReportCreated
    <3>2. new.pc = "created" /\ new.id = i /\ new.copy = copy
      BY <1>0 DEF TypeReport
    <3> HIDE DEF copy, new
    <3>3. PICK row \in Row : row = copy
      BY <2>3
    <3>4. Creating(i, row)'
      BY <1>0, <3>1, <3>2, <3>3 DEF Creating
    <3> QED BY <1>0, <2>4, <2>6, <3>1, <3>3, <3>4, Inserted
  <2> QED BY <2>5, <2>6
<1>4. CASE ReportCompleted(w)
  <2> DEFINE hit == [r.copy EXCEPT !.hits = RecordedHit(@, now)]
             copy == Normal(Renewed(hit, now))
  <2>1. r.copy \in Row /\ r.id \in Ids /\ r.pc = "created" /\ edit' = edit
    BY <1>0, <1>4 DEF ReportCompleted, ReportWell
  <2>2. RecordedHit(r.copy.hits, now) \in [Times -> Nat]
    BY <1>0, <2>1, RecordedHitType DEF Row
  <2>3. hit \in Row /\ hit.cidr = r.copy.cidr /\ hit.group = r.copy.group
    BY <2>1, <2>2 DEF Row
  <2> HIDE DEF hit
  <2>4. /\ copy \in Row /\ ~Endless(copy)
        /\ copy.cidr = r.copy.cidr /\ copy.group = r.copy.group
    BY <1>0, <2>3, RenewedType, NormalType, RenewedEnds
  <2>5. rows' = IF Clash(rows, r.id, copy) THEN rows ELSE [rows EXCEPT ![r.id] = copy]
    BY <1>4 DEF ReportCompleted, hit
  <2> HIDE DEF copy
  <2>6. OthersStay(r.id, r.copy)
    BY <1>others, <2>1 DEF OthersStay, Creating
  <2>7. PICK i \in Ids, old \in Row, new \in Row : i = r.id /\ old = r.copy /\ new = copy
    BY <2>1, <2>4
  <2>8. /\ rows' = IF Clash(rows, i, new) THEN rows ELSE [rows EXCEPT ![i] = new]
        /\ new.cidr = old.cidr /\ new.group = old.group /\ ~Endless(new)
    BY <2>4, <2>5, <2>7
  <2>9. OthersStay(i, old)
    BY <2>6, <2>7
  <2> QED BY <1>0, <2>8, <2>9, Completed
<1>5. CASE ReportApplied(w)
  <2> DEFINE taken == TakenGroups(rows, r.id, r.cidr)
             a == Applied(r.copy, r.score, settings, now, taken)
  <2>1. r.copy \in Row /\ r.score \in Scores /\ r.id \in Ids /\ r.pc = "stored"
    BY <1>0, <1>5 DEF ReportApplied, ReportWell
  <2>2. r.copy.group = "no_group" => r.copy.expires = Null
    BY <2>1 DEF EndlessInv, StoredClean
  <2>3. a.row \in Row /\ Safe(a.row, a.fields)
    BY <1>0, <2>1, <2>2, AppliedType, AppliedSafe
  <2>4. CreatorsStay
    BY <1>others, <1>5, <2>1, ReportCreators DEF ReportApplied
  <2>5. rows' = IF CanUpdate(r.id, a.row, a.fields)
                THEN [rows EXCEPT ![r.id] = Merge(@, a.row, a.fields)] ELSE rows
    BY <1>5 DEF ReportApplied
  <2> HIDE DEF a
  <2>6. NoneEndless /\ Single(rows')
    BY <1>0, <2>1, <2>3, <2>5, PartSave, SameRows DEF CanUpdate
  <2> QED BY <1>0, <2>4, <2>6, OwnedKept
<1> QED BY <1>1, <1>2, <1>3, <1>4, <1>5 DEF ReportStep

\* What a report keeps for scoring has just been renewed.
LEMMA ReportStepStored ==
    ASSUME Inv, StoredClean, NEW w \in Reporters, ReportStep(w)
    PROVE  StoredClean'
<1> DEFINE r == report[w]
           Fit(q) == q.pc = "stored" /\ q.copy.group = "no_group" => q.copy.expires = Null
<1>0. /\ ReportWell(r) /\ report \in [Reporters -> TypeReport] /\ now \in Times /\ now \in Nat
  BY TimeAssumption DEF Inv, InFlight, TypeOK, Times
<1>1. SUFFICES \E q : Fit(q) /\ report' = [report EXCEPT ![w] = q]
  BY DEF StoredClean
<1>2. Fit(IdleReport)
  BY DEF IdleReport
<1>3. ASSUME NEW hit \in Row PROVE Fit(Stored(r, Normal(Renewed(hit, now))))
  <2> DEFINE copy == Normal(Renewed(hit, now))
  <2>1. copy.group = "no_group" => copy.expires = Null
    BY <1>0, RenewedType, NormalType, RenewedEnds
  <2>2. Stored(r, copy).pc = "stored" => Stored(r, copy).copy = copy
    BY <1>0 DEF Stored, IdleReport, ReportWell, TypeReport
  <2> HIDE DEF copy
  <2> QED BY <2>1, <2>2 DEF copy
<1>4. CASE \E c \in Hosts : ReportReceived(w, c)
  BY <1>4 DEF ReportReceived, IdleReport
<1>5. CASE \E score \in Scores \cup {Null} : ReportScored(w, score)
  <2>1. PICK score \in Scores \cup {Null} : ReportScored(w, score)
    BY <1>5
  <2> DEFINE g == IF score = Null THEN Null ELSE GroupByScore(score, settings)
             group == IF g = Null THEN "no_group" ELSE g
             new == [r EXCEPT !.pc = "scored", !.score = score, !.group = group]
  <2>2. report' = [report EXCEPT ![w] = new]
    BY <1>0, <2>1 DEF ReportScored
  <2>3. new.pc = "scored"
    BY <1>0 DEF TypeReport
  <2> QED BY <2>2, <2>3
<1>6. CASE \E i \in Ids : ReportFound(w, i)
  <2>1. PICK i \in Ids : ReportFound(w, i)
    BY <1>6
  <2> DEFINE dups == {j \in Ids : Exists(j) /\ rows[j].cidr = r.cidr} \ {i}
             new == [r EXCEPT !.pc = "found", !.id = i, !.copy = rows[i], !.dups = dups]
  <2>2. report' = [report EXCEPT ![w] = new]
    BY <1>0, <2>1 DEF ReportFound
  <2>3. new.pc = "found"
    BY <1>0 DEF TypeReport
  <2> QED BY <2>2, <2>3
<1>7. CASE ReportAbsent(w)
  <2> DEFINE new == IF Covered(r.cidr, r.group) THEN IdleReport ELSE [r EXCEPT !.pc = "absent"]
  <2>1. report' = [report EXCEPT ![w] = new]
    BY <1>7 DEF ReportAbsent
  <2>2. new.pc \in {"idle", "absent"}
    BY <1>0 DEF TypeReport, IdleReport
  <2> QED BY <2>1, <2>2
<1>8. CASE \E i \in Ids : ReportCreated(w, i)
  <2>1. PICK i \in Ids : ReportCreated(w, i)
    BY <1>8
  <2> DEFINE copy == Normal(NewRow(r.cidr, r.group))
             new == IF Clash(rows, Null, copy) THEN IdleReport
                    ELSE [r EXCEPT !.pc = "created", !.id = i, !.copy = copy]
  <2>2. report' = [report EXCEPT ![w] = new]
    BY <2>1 DEF ReportCreated
  <2>3. new.pc \in {"idle", "created"}
    BY <1>0 DEF TypeReport, IdleReport
  <2> QED BY <2>2, <2>3
<1>9. CASE ReportRefreshed(w)
  <2> DEFINE hit == [r.copy EXCEPT !.group = r.group, !.active = TRUE,
                                   !.hits = RecordedHit(@, now)]
  <2>1. r.copy \in Row /\ r.group \in Groups
    BY <1>0, <1>9 DEF ReportRefreshed, ReportWell
  <2>2. RecordedHit(r.copy.hits, now) \in [Times -> Nat]
    BY <1>0, <2>1, RecordedHitType DEF Row
  <2>3. hit \in Row
    BY <2>1, <2>2 DEF Row
  <2>4. \/ report' = [report EXCEPT ![w] = IdleReport]
        \/ report' = [report EXCEPT ![w] = Stored(r, Normal(Renewed(hit, now)))]
    BY <1>9 DEF ReportRefreshed
  <2> HIDE DEF hit
  <2> QED BY <1>2, <1>3, <2>3, <2>4
<1>10. CASE ReportCompleted(w)
  <2> DEFINE hit == [r.copy EXCEPT !.hits = RecordedHit(@, now)]
  <2>1. r.copy \in Row
    BY <1>0, <1>10 DEF ReportCompleted, ReportWell
  <2>2. RecordedHit(r.copy.hits, now) \in [Times -> Nat]
    BY <1>0, <2>1, RecordedHitType DEF Row
  <2>3. hit \in Row
    BY <2>1, <2>2 DEF Row
  <2>4. \/ report' = [report EXCEPT ![w] = IdleReport]
        \/ report' = [report EXCEPT ![w] = Stored(r, Normal(Renewed(hit, now)))]
    BY <1>10 DEF ReportCompleted
  <2> HIDE DEF hit
  <2> QED BY <1>2, <1>3, <2>3, <2>4
<1>11. CASE ReportApplied(w)
  BY <1>2, <1>11 DEF ReportApplied
<1> QED BY <1>4, <1>5, <1>6, <1>7, <1>8, <1>9, <1>10, <1>11 DEF ReportStep

LEMMA ScanSaveEndless ==
    ASSUME Inv, Owned, Single(rows), NEW s \in Scanners, NEW i \in Ids, NEW a,
           a.row \in Row, Safe(a.row, a.fields), ScanSave(s, i, a)
    PROVE  Owned' /\ Single(rows')
<1>1. rows \in Table
  BY DEF Inv, TypeOK, Table
<1>2. CreatorsStay
  BY OtherCreators DEF ScanSave
<1>3. \/ rows' = rows
      \/ CanUpdate(i, a.row, a.fields) /\ rows' = [rows EXCEPT ![i] = Merge(@, a.row, a.fields)]
  BY DEF ScanSave
<1>4. NoneEndless /\ Single(rows')
  BY <1>1, <1>3, PartSave, SameRows DEF CanUpdate
<1> QED BY <1>2, <1>4, OwnedKept

LEMMA ScanStepEndless ==
    ASSUME Inv, RescoresClean, Owned, Single(rows), NEW s \in Scanners, ScanStep(s)
    PROVE  Owned' /\ Single(rows')
<1>0. /\ ScanWell(scan[s]) /\ scan[s] \in TypeScan
      /\ now \in Nat /\ settings \in Settings /\ rows \in Table
  BY TimeAssumption DEF Inv, InFlight, TypeOK, ScanWell, Table, Times
<1>1. CASE \E i \in Ids, score \in Scores : RowScored(s, i, score)
  <2>1. PICK i \in Ids, score \in Scores : RowScored(s, i, score)
    BY <1>1
  <2> DEFINE copy == scan[s].todo[i]
             taken == TakenGroups(rows, i, copy.cidr)
             a == Applied(copy, score, settings, now, taken)
  <2>2. copy \in Row /\ (copy.group = "no_group" => copy.expires = Null)
    BY <1>0, <2>1 DEF RowScored, TypeScan, CopyOrNone, RescoresClean
  <2>3. a.row \in Row /\ Safe(a.row, a.fields)
    BY <1>0, <2>2, AppliedType, AppliedSafe
  <2> QED BY <2>1, <2>3, ScanSaveEndless DEF RowScored
<1>2. CASE \E i \in Ids : RowReapplied(s, i)
  <2>1. PICK i \in Ids : RowReapplied(s, i)
    BY <1>2
  <2> DEFINE copy == scan[s].todo[i]
             taken == TakenGroups(rows, i, copy.cidr)
             only == scan[s].job = "promotion"
             a == Reapplied(copy, scan[s].rule, now, only, taken)
  <2>2. copy \in Row /\ scan[s].rule \in Settings
    BY <1>0, <2>1 DEF RowReapplied, ScanWell, TypeScan, CopyOrNone
  <2>3. a.row \in Row /\ Safe(a.row, a.fields)
    BY <1>0, <2>2, ReappliedType, ReappliedSafe
  <2> QED BY <2>1, <2>3, ScanSaveEndless DEF RowReapplied
<1>3. CASE UNCHANGED <<rows, report, edit>>
  BY <1>3, SameRows, OtherCreators, OwnedKept
<1> QED BY <1>1, <1>2, <1>3 DEF ScanStep, RefreshStarted, RescoreStarted, SettingsSaved,
        StartScan, ScanGaveUp

LEMMA SweepStepEndless ==
    ASSUME Inv, Owned, Single(rows), NEW a \in Sweepers, SweepStep(a)
    PROVE  Owned' /\ Single(rows')
<1>0. rows \in Table /\ sweep[a] \in TypeSweep /\ now \in Nat
  BY TimeAssumption DEF Inv, TypeOK, Table, Times
<1>1. UNCHANGED <<report, edit>>
  BY DEF SweepStep, WhitelistCreated, WhitelistImported,
          WhitelistActivated, WhitelistBulkActivated, WhitelistDeleted,
          WhitelistBulkDeleted, WhitelistDeactivated, WhitelistBulkDeactivated,
          WhitelistOn, WhitelistOff, WhitelistEdited, SweepRead, SweepSaved
<1>2. CASE rows' = rows
  BY <1>1, <1>2, SameRows, OtherCreators, OwnedKept
<1>3. CASE \E i \in Ids : SweepSaved(a, i) /\ rows' # rows
  <2>1. PICK i \in Ids : SweepSaved(a, i) /\ rows' # rows
    BY <1>3
  <2> DEFINE copy == sweep[a].todo[i]
             off == [copy EXCEPT !.active = FALSE]
             awake == [copy EXCEPT !.active = TRUE]
             on == Renewed(awake, now)
  <2>2. copy \in Row /\ Exists(i)
    BY <1>0, <2>1 DEF SweepSaved, TypeSweep, CopyOrNone
  <2>3. off \in Row /\ awake \in Row /\ ~Normal(off).active
    BY <2>2 DEF Row, Normal
  <2>4. Safe(off, {"active"})
    BY <2>3 DEF Safe
  <2>5. on \in Row /\ Safe(on, {"active", "expires"})
    BY <1>0, <2>3, RenewedType, RenewedSafe
  <2>6. \/ rows' = [rows EXCEPT ![i] = Merge(@, off, {"active"})]
        \/ rows' = [rows EXCEPT ![i] = Merge(@, on, {"active", "expires"})]
    BY <2>1, <2>2 DEF SweepSaved
  <2> HIDE DEF on, off
  <2>7. NoneEndless /\ Single(rows')
    BY <1>0, <2>2, <2>3, <2>4, <2>5, <2>6, PartSave
  <2> QED BY <1>1, <2>7, OtherCreators, OwnedKept
<1> QED BY <1>2, <1>3 DEF SweepStep, WhitelistCreated, WhitelistImported,
          WhitelistActivated, WhitelistBulkActivated, WhitelistDeleted,
          WhitelistBulkDeleted, WhitelistDeactivated, WhitelistBulkDeactivated,
          WhitelistOn, WhitelistOff, WhitelistEdited, SweepRead

LEMMA EditStepEndless ==
    ASSUME Inv, Owned, Single(rows), NEW e \in Editors, EditStep(e)
    PROVE  Owned' /\ Single(rows')
<1>0. /\ rows \in Table /\ now \in Nat /\ EditWell(edit[e])
      /\ edit \in [Editors -> TypeEdit]
      /\ \A i \in Ids : Exists(i) => rows[i] \in Row
  BY TimeAssumption DEF Inv, InFlight, TypeOK, Table, Times, Exists, CopyOrNone
<1>others. report' = report
  BY EditFrame
<1>1. CASE \E i \in Ids, c \in Hosts, g \in Groups : EntryAdded(e, c, g, i)
  <2>1. PICK i \in Ids, c \in Hosts, g \in Groups : EntryAdded(e, c, g, i)
    BY <1>1
  <2> DEFINE same == {j \in Ids : Exists(j) /\ rows[j].cidr = c /\ rows[j].group = g}
             row == IF i \in same THEN [rows[i] EXCEPT !.active = TRUE] ELSE NewRow(c, g)
             new == Normal(Renewed(row, now))
  <2>2. NewRow(c, g) \in Row /\ NewRow(c, g).cidr = c /\ NewRow(c, g).group = g
    BY NewRowType, CidrAssumption DEF NewRow
  <2>3. row \in Row /\ row.cidr = c /\ row.group = g
    BY <1>0, <2>2 DEF Row
  <2>4. same = {} \/ i \in same
    BY <2>1 DEF EntryAdded
  <2>5. \A j \in same : j = i
    BY <2>4 DEF Single, Exists
  <2>6. rows' = [rows EXCEPT ![i] = new] /\ edit' = edit
    BY <2>1 DEF EntryAdded, tasks
  <2> HIDE DEF row
  <2>7. new \in Row /\ new.cidr = c /\ new.group = g /\ ~Endless(new)
    BY <1>0, <2>3, RenewedType, NormalType, RenewedEnds
  <2> HIDE DEF new
  <2>8. ~Clash(rows, i, new)
    BY <2>5, <2>7 DEF Clash, TakenGroups, Exists
  <2>9. NoneEndless /\ Single(rows')
    BY <1>0, <2>6, <2>7, <2>8, WholeSave
  <2> QED BY <1>others, <2>6, <2>9, OtherCreators, OwnedKept
<1>2. CASE \E i \in Ids, c \in Hosts, g \in Groups : EntryImported(e, c, g, i)
  <2>1. PICK i \in Ids, c \in Hosts, g \in Groups : EntryImported(e, c, g, i)
    BY <1>2
  <2> DEFINE copy == Normal(NewRow(c, g))
             new == [pc |-> "imported", id |-> i, copy |-> copy]
  <2>2. copy \in Row
    BY NewRowUnexpiring, CidrAssumption
  <2>3. /\ edit[e].pc = "idle" /\ ~Clash(rows, Null, copy)
        /\ rows' = [rows EXCEPT ![i] = copy] /\ edit' = [edit EXCEPT ![e] = new]
    BY <2>1 DEF EntryImported
  <2> HIDE DEF copy
  <2>4. CreatorsStay
    BY <1>others, <2>3, EditCreators
  <2>5. Creating(i, copy)'
    BY <1>0, <2>3 DEF Creating
  <2> QED BY <2>2, <2>3, <2>4, <2>5, Inserted
<1>3. CASE \E i \in Ids : \/ EntryLoaded(e, i)
                          \/ \E c \in Hosts, g \in Groups : EntryFound(e, c, g, i)
  <2>1. PICK r : /\ edit[e].pc = "idle" /\ edit' = [edit EXCEPT ![e] = r]
                 /\ rows' = rows
    BY <1>3 DEF EntryLoaded, EntryFound
  <2> QED BY <1>others, <2>1, EditCreators, SameRows, OwnedKept
<1>4. CASE \/ \E i \in Ids : EntryDeactivated(e, i) \/ EntryDeleted(e, i)
                             \/ \E v \in BOOLEAN : EntryPinned(e, i, v)
           \/ \E S \in SUBSET Ids : AllDeactivated(e, S)
  <2>1. edit' = edit
    BY <1>4 DEF EntryDeactivated, EntryDeleted, EntryPinned, AllDeactivated, tasks
  <2>2. \A i \in Ids : \/ rows'[i] = rows[i] \/ rows'[i] = NoRow
                       \/ /\ Exists(i) /\ rows'[i].cidr = rows[i].cidr
                          /\ rows'[i].group = rows[i].group
                          /\ rows'[i].active => rows[i].active
                          /\ rows'[i].expires = rows[i].expires
    BY <1>0, <1>4 DEF EntryDeactivated, EntryDeleted, EntryPinned, AllDeactivated, Table,
       Exists, Row
  <2> QED BY <1>others, <2>1, <2>2, RowsRetired, OtherCreators, OwnedKept
<1>5. ASSUME edit[e].pc = "loaded", NEW row \in Row, SaveWhole(e, Renewed(row, now))
      PROVE  Owned' /\ Single(rows')
  <2> DEFINE new == Normal(Renewed(row, now))
  <2>1. edit' = [edit EXCEPT ![e] = IdleEdit] /\ edit[e].id \in Ids
    BY <1>0, <1>5 DEF SaveWhole, EditWell
  <2>2. /\ new \in Row /\ ~Endless(new)
        /\ new.cidr = Renewed(row, now).cidr /\ new.group = Renewed(row, now).group
    BY <1>0, RenewedType, NormalType, RenewedEnds
  <2>3. rows' = IF Clash(rows, edit[e].id, Renewed(row, now)) THEN rows
                ELSE [rows EXCEPT ![edit[e].id] = new]
    BY <1>5 DEF SaveWhole
  <2> HIDE DEF new
  <2>4. Clash(rows, edit[e].id, Renewed(row, now)) <=> Clash(rows, edit[e].id, new)
    BY <2>2 DEF Clash
  <2>5. NoneEndless /\ Single(rows')
    BY <1>0, <2>1, <2>2, <2>3, <2>4, WholeSave, SameRows
  <2> QED BY <1>5, <1>others, <2>1, <2>5, EditCreators, OwnedKept
<1>6. ASSUME edit[e].pc = "loaded", NEW row \in Row, NEW fields, Safe(row, fields),
             SaveFields(e, row, fields)
      PROVE  Owned' /\ Single(rows')
  <2>1. edit' = [edit EXCEPT ![e] = IdleEdit] /\ edit[e].id \in Ids
    BY <1>0, <1>6 DEF SaveFields, EditWell
  <2>2. NoneEndless /\ Single(rows')
    BY <1>0, <1>6, <2>1, PartSave, SameRows DEF SaveFields, CanUpdate
  <2> QED BY <1>6, <1>others, <2>1, <2>2, EditCreators, OwnedKept
<1>7. edit[e].pc = "loaded" =>
        /\ edit[e].id \in Ids /\ edit[e].copy \in Row
        /\ [edit[e].copy EXCEPT !.active = TRUE] \in Row
        /\ [edit[e].copy EXCEPT !.active = FALSE] \in Row
        /\ ~Normal([edit[e].copy EXCEPT !.active = FALSE]).active
        /\ \A g \in Groups : [edit[e].copy EXCEPT !.group = g] \in Row
        /\ \A c \in Cidrs, g \in Groups : [edit[e].copy EXCEPT !.cidr = c, !.group = g] \in Row
  BY <1>0 DEF EditWell, Row, Normal
<1>8. CASE \E c \in Cidrs, g \in Groups : EntryEdited(e, c, g)
  BY <1>5, <1>7, <1>8 DEF EntryEdited
<1>9. CASE EntryReactivated(e)
  BY <1>5, <1>7, <1>9 DEF EntryReactivated
<1>10. CASE EntryBulkActivated(e)
  <2> DEFINE new == Renewed([edit[e].copy EXCEPT !.active = TRUE], now)
  <2>1. new \in Row /\ Safe(new, {"active", "expires"})
    BY <1>0, <1>7, <1>10, RenewedType, RenewedSafe DEF EntryBulkActivated
  <2>2. edit[e].pc = "loaded" /\ SaveFields(e, new, {"active", "expires"})
    BY <1>10 DEF EntryBulkActivated
  <2> HIDE DEF new
  <2> QED BY <1>6, <2>1, <2>2
<1>11. CASE \E g \in Groups : GroupBulkEdited(e, g)
  <2>1. PICK g \in Groups : GroupBulkEdited(e, g)
    BY <1>11
  <2> DEFINE new == Renewed([edit[e].copy EXCEPT !.group = g], now)
  <2>2. new \in Row /\ Safe(new, {"group", "expires"})
    BY <1>0, <1>7, <2>1, RenewedType, RenewedSafe DEF GroupBulkEdited
  <2>3. edit[e].pc = "loaded" /\ SaveFields(e, new, {"group", "expires"})
    BY <2>1 DEF GroupBulkEdited
  <2> HIDE DEF new
  <2> QED BY <1>6, <2>2, <2>3
<1>12. CASE EntrySwitchedOff(e)
  <2>1. Safe([edit[e].copy EXCEPT !.active = FALSE], {"active"})
    BY <1>7, <1>12 DEF EntrySwitchedOff, Safe
  <2> QED BY <1>6, <1>7, <1>12, <2>1 DEF EntrySwitchedOff
<1>13. CASE EntryPinToggled(e) \/ EntryRemoved(e)
  <2>1. edit[e].pc = "loaded" /\ edit' = [edit EXCEPT ![e] = IdleEdit]
    BY <1>13 DEF EntryPinToggled, EntryRemoved
  <2>2. \A i \in Ids : \/ rows'[i] = rows[i] \/ rows'[i] = NoRow
                       \/ /\ Exists(i) /\ rows'[i].cidr = rows[i].cidr
                          /\ rows'[i].group = rows[i].group
                          /\ rows'[i].active => rows[i].active
                          /\ rows'[i].expires = rows[i].expires
    <3>1. CASE EntryPinToggled(e) /\ Exists(edit[e].id)
      <4>1. rows' = [rows EXCEPT ![edit[e].id].pinned = ~edit[e].copy.pinned]
        BY <3>1 DEF EntryPinToggled
      <4>2. PICK j \in Ids : j = edit[e].id
        BY <1>7, <2>1
      <4>3. PICK v : rows' = [rows EXCEPT ![j] = [@ EXCEPT !.pinned = v]]
        BY <4>1, <4>2
      <4>4. rows[j] \in Row /\ Exists(j)
        BY <1>0, <3>1, <4>2
      <4>5. /\ rows'[j] = [rows[j] EXCEPT !.pinned = v]
            /\ \A i \in Ids \ {j} : rows'[i] = rows[i]
        BY <1>0, <4>3 DEF Table
      <4>6. /\ rows'[j].cidr = rows[j].cidr /\ rows'[j].group = rows[j].group
            /\ rows'[j].active = rows[j].active /\ rows'[j].expires = rows[j].expires
        BY <4>4, <4>5 DEF Row
      <4> QED BY <4>4, <4>5, <4>6
    <3>2. CASE EntryPinToggled(e) /\ ~Exists(edit[e].id)
      BY <3>2 DEF EntryPinToggled
    <3>3. CASE EntryRemoved(e)
      BY <1>0, <3>3 DEF EntryRemoved, Table
    <3> QED BY <1>13, <3>1, <3>2, <3>3
  <2> QED BY <1>others, <2>1, <2>2, RowsRetired, EditCreators, OwnedKept
<1>14. CASE ImportCompleted(e)
  <2> DEFINE r == edit[e]
             new == Normal(Renewed(r.copy, now))
  <2>1. /\ r.pc = "imported" /\ r.id \in Ids /\ r.copy \in Row
        /\ edit' = [edit EXCEPT ![e] = IdleEdit]
    BY <1>0, <1>14 DEF ImportCompleted, SaveWhole, EditWell
  <2>2. /\ new \in Row /\ ~Endless(new)
        /\ new.cidr = r.copy.cidr /\ new.group = r.copy.group
        /\ Renewed(r.copy, now).cidr = r.copy.cidr
        /\ Renewed(r.copy, now).group = r.copy.group
    BY <1>0, <2>1, RenewedType, NormalType, RenewedEnds
  <2>3. rows' = IF Clash(rows, r.id, Renewed(r.copy, now)) THEN rows
                ELSE [rows EXCEPT ![r.id] = new]
    BY <1>14 DEF ImportCompleted, SaveWhole
  <2> HIDE DEF new
  <2>4. Clash(rows, r.id, Renewed(r.copy, now)) <=> Clash(rows, r.id, new)
    BY <2>2 DEF Clash
  <2>5. OthersStay(r.id, r.copy)
    BY <1>others, <2>1 DEF OthersStay, Creating
  <2>6. PICK i \in Ids, old \in Row, row \in Row : i = r.id /\ old = r.copy /\ row = new
    BY <2>1, <2>2
  <2>7. /\ rows' = IF Clash(rows, i, row) THEN rows ELSE [rows EXCEPT ![i] = row]
        /\ row.cidr = old.cidr /\ row.group = old.group /\ ~Endless(row)
    BY <2>2, <2>3, <2>4, <2>6
  <2>8. OthersStay(i, old)
    BY <2>5, <2>6
  <2> QED BY <2>7, <2>8, Completed
<1> QED BY <1>1, <1>2, <1>3, <1>4, <1>8, <1>9, <1>10, <1>11, <1>12, <1>13, <1>14 DEF EditStep

LEMMA NextEndless ==
    ASSUME Inv, EndlessInv, RescoresClean, SavesUninterrupted, Next
    PROVE  EndlessInv'
<1>0. /\ Owned /\ Single(rows) /\ StoredClean /\ rows \in Table
      /\ \A i \in Ids : Exists(i) => rows[i] \in Row
  BY DEF EndlessInv, Inv, TypeOK, Table, Exists, CopyOrNone
<1>1. CASE \E w \in Reporters : ReportStep(w)
  BY <1>0, <1>1, ReportStepEndless, ReportStepStored DEF EndlessInv
<1>2. CASE Crash
  <2>1. \A i \in Ids : Exists(i) => ~Endless(rows[i])
    BY <1>0, <1>2 DEF SavesUninterrupted, Owned, Creating
  <2>2. Owned' /\ Single(rows')
    BY <1>0, <1>2, <2>1 DEF Crash, Owned, Exists, Endless
  <2>3. StoredClean'
    BY <1>2 DEF Crash, StoredClean, IdleReport
  <2> QED BY <2>2, <2>3 DEF EndlessInv
<1>3. CASE ~Crash /\ \A w \in Reporters : ~ReportStep(w)
  <2>1. \A w \in Reporters : report'[w] = report[w]
    BY <1>3, ReportFrame
  <2>2. StoredClean'
    BY <1>0, <2>1 DEF StoredClean
  <2>3. CASE \E s \in Scanners : ScanStep(s)
    BY <1>0, <2>2, <2>3, ScanStepEndless DEF EndlessInv
  <2>4. CASE \E a \in Sweepers : SweepStep(a)
    BY <1>0, <2>2, <2>4, SweepStepEndless DEF EndlessInv
  <2>5. CASE \E e \in Editors : EditStep(e)
    BY <1>0, <2>2, <2>5, EditStepEndless DEF EndlessInv
  <2>6. CASE (\E f \in Readers : FeedStep(f)) \/ CleanupRead \/ Tick
    <3>1. UNCHANGED <<rows, report, edit>>
      BY <2>6 DEF FeedStep, FeedRead, FeedServed, CleanupRead, Tick, tasks
    <3> QED BY <1>0, <2>2, <3>1, SameRows, OtherCreators, OwnedKept DEF EndlessInv
  <2>7. CASE (\E i \in Ids : Purged(i)) \/ CleanupWrite
    <3>1. UNCHANGED <<report, edit>>
      BY <2>7 DEF Purged, CleanupWrite, tasks
    <3>2. \A i \in Ids : \/ rows'[i] = rows[i] \/ rows'[i] = NoRow
                         \/ /\ Exists(i) /\ rows'[i].cidr = rows[i].cidr
                            /\ rows'[i].group = rows[i].group
                            /\ rows'[i].active => rows[i].active
                            /\ rows'[i].expires = rows[i].expires
      BY <1>0, <2>7 DEF Purged, CleanupWrite, Table, Exists, Row
    <3> QED BY <1>0, <2>2, <3>1, <3>2, RowsRetired, OtherCreators, OwnedKept DEF EndlessInv
  <2> QED BY <1>3, <2>3, <2>4, <2>5, <2>6, <2>7 DEF Next
<1> QED BY <1>1, <1>2, <1>3

LEMMA InitEndless == Init => EndlessInv
BY DEF Init, EndlessInv, Owned, Single, StoredClean, Exists, NothingToDo, IdleReport

\* Whoever overlaps with whom, a published row without an expiry is one whose
\* creation is still under way, unless a restart cut a creation short or a rescore
\* held a no_group copy with an expiry: there is no third way to a permanent block.
THEOREM PermanentBlocksExplained ==
    Spec /\ []RescoresClean /\ [][SavesUninterrupted]_vars => []NoPermanentBlock
<1>1. Inv /\ EndlessInv /\ RescoresClean /\ [Next]_vars /\ [SavesUninterrupted]_vars
        => EndlessInv'
  <2>1. EndlessInv /\ UNCHANGED vars => EndlessInv'
    BY DEF EndlessInv, Owned, Single, StoredClean, Creating, Exists, Endless, vars, tasks
  <2> QED BY <2>1, NextEndless
<1>2. EndlessInv => NoPermanentBlock
  BY DEF EndlessInv, Owned, Creating, Endless, NoPermanentBlock
<1> QED BY <1>1, <1>2, InitEndless, AlwaysInv, PTL DEF Spec

-----------------------------------------------------------------------------
(* What works by itself never blocks for ever *)

\* A step of the reports, the refresh, the promotion rule, the cleanup jobs, the
\* feed or the clock: no operator changes a row, the whitelist or the bands, and
\* nothing restarts.
Unattended ==
    /\ ~Crash
    /\ \A e \in Editors : ~EditStep(e)
    /\ \A a \in Sweepers : ~SweepStep(a)
    /\ \A s \in Scanners, S \in RescorePicks : ~RescoreStarted(s, S)
    /\ settings'.t24h = settings.t24h /\ settings'.t30d = settings.t30d

\* Left alone, every active row is published, and a refresh holds such rows only.
ActivePublished == \A i \in Ids : Exists(i) /\ rows[i].active => rows[i].group \in Published

ScansPublished ==
    \A s \in Scanners, i \in Ids : scan[s].todo[i] # NoRow =>
        /\ scan[s].job # "bands"
        /\ scan[s].job = "score" => scan[s].todo[i].group \in Published

\* A save that neither wakes a row nor moves it out of the published groups.
Quiet(copy, fields) ==
    /\ "active" \in fields => ~Normal(copy).active
    /\ "group" \in fields => copy.group \in Published

LEMMA AppliedQuiet ==
    ASSUME NEW copy \in Row, NEW score \in Scores, settings \in Settings, now \in Nat,
           NEW taken
    PROVE  LET a == Applied(copy, score, settings, now, taken) IN Quiet(a.row, a.fields)
<1> DEFINE scored == [copy EXCEPT !.score = score]
           target == Target(copy, score, settings, now)
           moved == target # copy.group /\ target \notin taken
           placed == IF moved THEN [scored EXCEPT !.group = target] ELSE scored
           fresh == IF moved \/ copy.score # score THEN Renewed(placed, now) ELSE placed
           a == Applied(copy, score, settings, now, taken)
<1> SUFFICES Quiet(a.row, a.fields)
  OBVIOUS
<1>1. a.row \in Row /\ ("active" \in a.fields => ~a.row.active)
  BY AppliedType
<1>2. "active" \in a.fields => ~Normal(a.row).active
  <2> HIDE DEF a
  <2> QED BY <1>1, NormalType
<1>3. ASSUME "group" \in a.fields PROVE a.row.group \in Published
  <2>1. ~copy.pinned /\ ~(score < settings.t24h)
    BY <1>3 DEF Applied
  <2>2. a = [row    |-> fresh,
             fields |-> {"score"} \cup (IF moved THEN {"group"} ELSE {})
                                  \cup (IF moved \/ copy.score # score
                                        THEN ExpiryField(copy, fresh) ELSE {})]
    BY <2>1, Zenon DEF Applied
  <2>3. moved
    BY <1>3, <2>2 DEF ExpiryField
  <2>4. target \in Published
    BY <2>1, TargetType, ScoresAssumption DEF Settings
  <2>5. placed \in Row /\ placed.group = target
    <3> HIDE DEF target
    <3> QED BY <2>3, <2>4 DEF Row, Published, Groups
  <2> HIDE DEF placed, target
  <2>6. a.row = Renewed(placed, now)
    BY <2>2, <2>3
  <2> QED BY <2>4, <2>5, <2>6, RenewedType
<1> QED BY <1>2, <1>3 DEF Quiet

\* The promotion rule alone is as quiet.
LEMMA PromotedQuiet ==
    ASSUME NEW copy \in Row, NEW s \in Settings, now \in Nat, NEW taken
    PROVE  LET a == Reapplied(copy, s, now, TRUE, taken) IN Quiet(a.row, a.fields)
<1> DEFINE target == Target(copy, copy.score, s, now)
           moved == target # copy.group /\ target \notin taken
           placed == [copy EXCEPT !.group = IF moved THEN target ELSE @,
                                  !.active = @ \/ FALSE]
           a == Reapplied(copy, s, now, TRUE, taken)
<1> SUFFICES Quiet(a.row, a.fields)
  OBVIOUS
<1>1. \/ a.fields = {}
      \/ /\ copy.score >= s.t24h /\ moved
         /\ a = [row |-> Renewed(placed, now), fields |-> {"group", "expires"}]
  BY DEF Reapplied
<1>2. CASE a.fields = {}
  BY <1>2 DEF Quiet
<1>3. CASE /\ copy.score >= s.t24h /\ moved
           /\ a = [row |-> Renewed(placed, now), fields |-> {"group", "expires"}]
  <2>1. target \in Published
    BY <1>3, TargetType
  <2>2. placed \in Row /\ placed.group = target
    <3> HIDE DEF target
    <3> QED BY <1>3, <2>1 DEF Row, Published, Groups
  <2> HIDE DEF placed, target, a
  <2> QED BY <1>3, <2>1, <2>2, RenewedType DEF Quiet
<1> QED BY <1>1, <1>2, <1>3

LEMMA QuietMerge ==
    ASSUME NEW stored \in Row, NEW copy \in Row, NEW fields, Quiet(copy, fields),
           stored.active => stored.group \in Published,
           Merge(stored, copy, fields).active
    PROVE  Merge(stored, copy, fields).group \in Published
<1>1. Normal(copy).group = copy.group
  BY NormalType
<1> QED BY <1>1 DEF Quiet, Merge

LEMMA QuietSave ==
    ASSUME rows \in Table, ActivePublished, NEW i \in Ids, NEW copy \in Row, NEW fields,
           Quiet(copy, fields), Exists(i),
           rows' = [rows EXCEPT ![i] = Merge(@, copy, fields)]
    PROVE  ActivePublished'
<1>1. rows[i] \in Row /\ (rows[i].active => rows[i].group \in Published)
  BY DEF Table, CopyOrNone, Exists, ActivePublished
<1>2. /\ rows'[i] = Merge(rows[i], copy, fields)
      /\ \A j \in Ids \ {i} : rows'[j] = rows[j]
  BY DEF Table
<1>3. rows'[i].active => rows'[i].group \in Published
  BY <1>1, <1>2, QuietMerge
<1> QED BY <1>2, <1>3 DEF ActivePublished, Exists

LEMMA ReportStepPublished ==
    ASSUME Inv, ActivePublished, NEW w \in Reporters, ReportStep(w)
    PROVE  ActivePublished'
<1> DEFINE r == report[w]
<1>0. /\ ReportWell(r) /\ rows \in Table /\ now \in Times /\ now \in Nat
      /\ settings \in Settings
  BY TimeAssumption DEF Inv, InFlight, TypeOK, Table, Times
<1>1. CASE rows' = rows
  BY <1>1 DEF ActivePublished, Exists
<1>2. ASSUME NEW row \in Row PROVE Normal(row).active => Normal(row).group \in Published
  BY DEF Normal, Row, Groups, Published
<1>3. CASE ReportRefreshed(w) /\ rows' # rows
  <2> DEFINE hit == [r.copy EXCEPT !.group = r.group, !.active = TRUE,
                                   !.hits = RecordedHit(@, now)]
             copy == Normal(Renewed(hit, now))
  <2>1. r.copy \in Row /\ r.group \in Groups /\ r.id \in Ids
    BY <1>0, <1>3 DEF ReportRefreshed, ReportWell
  <2>2. RecordedHit(r.copy.hits, now) \in [Times -> Nat]
    BY <1>0, <2>1, RecordedHitType DEF Row
  <2>3. hit \in Row
    BY <2>1, <2>2 DEF Row
  <2>4. copy.active => copy.group \in Published
    BY <1>0, <1>2, <2>3, RenewedType
  <2>5. \A i \in Ids : rows'[i] \in {rows[i], NoRow, copy}
    BY <1>3, <2>1 DEF ReportRefreshed
  <2> HIDE DEF copy
  <2> QED BY <2>4, <2>5 DEF ActivePublished, Exists
<1>4. CASE \E i \in Ids : ReportCreated(w, i) /\ rows' # rows
  <2>1. PICK i \in Ids : ReportCreated(w, i) /\ rows' # rows
    BY <1>4
  <2> DEFINE copy == Normal(NewRow(r.cidr, r.group))
  <2>2. r.cidr \in Cidrs /\ r.group \in Groups
    BY <1>0, <2>1 DEF ReportCreated, ReportWell
  <2>3. copy.active => copy.group \in Published
    BY <1>2, <2>2, NewRowType
  <2>4. \A j \in Ids : rows'[j] \in {rows[j], copy}
    BY <1>0, <2>1 DEF ReportCreated, Table
  <2> HIDE DEF copy
  <2> QED BY <2>3, <2>4 DEF ActivePublished, Exists
<1>5. CASE ReportCompleted(w) /\ rows' # rows
  <2> DEFINE hit == [r.copy EXCEPT !.hits = RecordedHit(@, now)]
             copy == Normal(Renewed(hit, now))
  <2>1. r.copy \in Row /\ r.id \in Ids
    BY <1>0, <1>5 DEF ReportCompleted, ReportWell
  <2>2. RecordedHit(r.copy.hits, now) \in [Times -> Nat]
    BY <1>0, <2>1, RecordedHitType DEF Row
  <2>3. hit \in Row
    BY <2>1, <2>2 DEF Row
  <2>4. copy.active => copy.group \in Published
    BY <1>0, <1>2, <2>3, RenewedType
  <2>5. \A j \in Ids : rows'[j] \in {rows[j], copy}
    BY <1>0, <1>5 DEF ReportCompleted, Table
  <2> HIDE DEF copy
  <2> QED BY <2>4, <2>5 DEF ActivePublished, Exists
<1>6. CASE ReportApplied(w) /\ rows' # rows
  <2> DEFINE taken == TakenGroups(rows, r.id, r.cidr)
             a == Applied(r.copy, r.score, settings, now, taken)
  <2>1. r.copy \in Row /\ r.score \in Scores /\ r.id \in Ids
    BY <1>0, <1>6 DEF ReportApplied, ReportWell
  <2>2. a.row \in Row /\ Quiet(a.row, a.fields)
    BY <1>0, <2>1, AppliedType, AppliedQuiet
  <2>3. Exists(r.id) /\ rows' = [rows EXCEPT ![r.id] = Merge(@, a.row, a.fields)]
    BY <1>6 DEF ReportApplied, CanUpdate
  <2> QED BY <1>0, <2>1, <2>2, <2>3, QuietSave
<1> QED BY <1>1, <1>3, <1>4, <1>5, <1>6 DEF ReportStep, ReportReceived, ReportScored,
        ReportFound, ReportAbsent

\* Whatever a scan does, it goes on with rows it had already loaded, or starts anew.
LEMMA ScanStepPublished ==
    ASSUME Inv, ActivePublished, ScansPublished, Unattended,
           NEW s \in Scanners, ScanStep(s)
    PROVE  ActivePublished' /\ ScansPublished'
<1> DEFINE Fit(rec) == \A i \in Ids : rec.todo[i] # NoRow =>
                          /\ rec.job # "bands"
                          /\ rec.job = "score" => rec.todo[i].group \in Published
<1>0. /\ ScanWell(scan[s]) /\ scan[s] \in TypeScan /\ scan \in [Scanners -> TypeScan]
      /\ now \in Nat /\ settings \in Settings /\ rows \in Table /\ Fit(scan[s])
  BY TimeAssumption DEF Inv, InFlight, TypeOK, ScanWell, Table, Times, ScansPublished
<1>1. ASSUME NEW rec, Fit(rec), scan' = [scan EXCEPT ![s] = rec]
      PROVE  ScansPublished'
  BY <1>0, <1>1 DEF ScansPublished
<1>2. Fit(IdleScan) /\ \A rec : Fit(rec) => Fit(Settled(rec))
  BY DEF IdleScan, NothingToDo, Settled
<1>3. ASSUME NEW i \in Ids, NEW failed, After(s, i, failed) PROVE ScansPublished'
  <2> DEFINE rest == [scan[s] EXCEPT !.todo[i] = NoRow]
  <2>1. Fit(rest)
    BY <1>0 DEF TypeScan
  <2>2. scan' = [scan EXCEPT ![s] = IF failed THEN IdleScan ELSE Settled(rest)]
    BY <1>3 DEF After
  <2> HIDE DEF rest, Fit
  <2> QED BY <1>1, <1>2, <2>1, <2>2
<1>4. ASSUME NEW i \in Ids, NEW a, a.row \in Row, Quiet(a.row, a.fields), ScanSave(s, i, a)
      PROVE  ActivePublished' /\ ScansPublished'
  <2>1. ScansPublished'
    BY <1>3, <1>4 DEF ScanSave
  <2>2. CASE rows' = rows
    BY <2>1, <2>2 DEF ActivePublished, Exists
  <2>3. CASE rows' # rows
    <3>1. Exists(i) /\ rows' = [rows EXCEPT ![i] = Merge(@, a.row, a.fields)]
      BY <1>4, <2>3 DEF ScanSave, CanUpdate
    <3> QED BY <1>0, <1>4, <2>1, <3>1, QuietSave
  <2> QED BY <2>2, <2>3
<1>5. CASE RefreshStarted(s)
  <2> DEFINE S == {i \in Ids : Exists(i) /\ rows[i].active /\ ~rows[i].pinned}
             rec == [job |-> "score", todo |-> Copies(S), rule |-> settings]
  <2>1. scan' = [scan EXCEPT ![s] = Settled(rec)] /\ rows' = rows
    BY <1>5 DEF RefreshStarted, StartScan
  <2>2. Fit(rec)
    BY DEF Copies, ActivePublished, Exists
  <2> HIDE DEF rec, Fit
  <2> QED BY <1>1, <1>2, <2>1, <2>2 DEF ActivePublished, Exists
<1>6. CASE \E raw \in SettingsChoices : SettingsSaved(s, raw)
  <2>1. PICK raw \in SettingsChoices : SettingsSaved(s, raw)
    BY <1>6
  <2> DEFINE S == {i \in Ids : Exists(i) /\ rows[i].score # Null}
             rec == [job |-> "promotion", todo |-> Copies(S), rule |-> Clamped(raw)]
  <2>2. settings' = Clamped(raw)
    BY <2>1 DEF SettingsSaved
  <2>3. <<settings.t24h, settings.t30d>> = <<Clamped(raw).t24h, Clamped(raw).t30d>>
    BY <2>2 DEF Unattended
  <2>4. scan' = [scan EXCEPT ![s] = Settled(rec)] /\ rows' = rows
    BY <2>1, <2>3 DEF SettingsSaved, StartScan
  <2>5. Fit(rec)
    OBVIOUS
  <2> HIDE DEF rec, Fit
  <2> QED BY <1>1, <1>2, <2>4, <2>5 DEF ActivePublished, Exists
<1>7. CASE \E i \in Ids, score \in Scores : RowScored(s, i, score)
  <2>1. PICK i \in Ids, score \in Scores : RowScored(s, i, score)
    BY <1>7
  <2> DEFINE copy == scan[s].todo[i]
             taken == TakenGroups(rows, i, copy.cidr)
             a == Applied(copy, score, settings, now, taken)
  <2>2. copy \in Row
    BY <1>0, <2>1 DEF RowScored, TypeScan, CopyOrNone
  <2>3. a.row \in Row /\ Quiet(a.row, a.fields)
    BY <1>0, <2>2, AppliedType, AppliedQuiet
  <2> QED BY <1>4, <2>1, <2>3 DEF RowScored
<1>8. CASE \E i \in Ids, all \in BOOLEAN : ScanGaveUp(s, i, all)
  <2>1. rows' = rows
    BY <1>8 DEF ScanGaveUp
  <2> QED BY <1>3, <1>8, <2>1 DEF ScanGaveUp, ActivePublished, Exists
<1>9. CASE \E i \in Ids : RowReapplied(s, i)
  <2>1. PICK i \in Ids : RowReapplied(s, i)
    BY <1>9
  <2> DEFINE copy == scan[s].todo[i]
             taken == TakenGroups(rows, i, copy.cidr)
             a == Reapplied(copy, scan[s].rule, now, TRUE, taken)
  <2>2. copy \in Row /\ scan[s].rule \in Settings /\ (scan[s].job = "promotion") = TRUE
    BY <1>0, <2>1 DEF RowReapplied, ScanWell, TypeScan, CopyOrNone
  <2>3. a.row \in Row /\ Quiet(a.row, a.fields)
    BY <1>0, <2>2, ReappliedType, PromotedQuiet
  <2>4. ScanSave(s, i, a)
    BY <2>1, <2>2 DEF RowReapplied
  <2> QED BY <1>4, <2>3, <2>4
<1>10. ~\E S \in RescorePicks : RescoreStarted(s, S)
  BY DEF Unattended
<1> QED BY <1>5, <1>6, <1>7, <1>8, <1>9, <1>10 DEF ScanStep

LEMMA NextUnattended ==
    ASSUME Inv, ActivePublished, ScansPublished, Unattended, Next
    PROVE  ActivePublished' /\ ScansPublished'
<1>0. rows \in Table /\ \A i \in Ids : Exists(i) => rows[i] \in Row
  BY DEF Inv, TypeOK, Table, Exists, CopyOrNone
<1>1. CASE \E s \in Scanners : ScanStep(s)
  BY <1>1, ScanStepPublished
<1>2. CASE \E w \in Reporters : ReportStep(w)
  <2>0. PICK w \in Reporters : ReportStep(w)
    BY <1>2
  <2>1. scan' = scan
    BY <2>0 DEF ReportStep, ReportReceived, ReportScored, ReportFound, ReportAbsent,
       ReportRefreshed, ReportCreated, ReportCompleted, ReportApplied
  <2>2. ActivePublished'
    BY <1>2, ReportStepPublished
  <2> QED BY <2>1, <2>2 DEF ScansPublished
<1>3. CASE (\E f \in Readers : FeedStep(f)) \/ CleanupRead \/ Tick
  <2>1. UNCHANGED <<rows, scan>>
    BY <1>3 DEF FeedStep, FeedRead, FeedServed, CleanupRead, Tick, tasks
  <2> QED BY <2>1 DEF ActivePublished, ScansPublished, Exists
<1>4. CASE (\E i \in Ids : Purged(i)) \/ CleanupWrite
  <2>1. scan' = scan
    BY <1>4 DEF Purged, CleanupWrite, tasks
  <2>2. \A i \in Ids : rows'[i] # NoRow =>
          /\ Exists(i) /\ rows'[i].group = rows[i].group
          /\ rows'[i].active => rows[i].active
    BY <1>0, <1>4 DEF Purged, CleanupWrite, Table, Exists, Row
  <2> QED BY <2>1, <2>2 DEF ActivePublished, ScansPublished, Exists
<1> QED BY <1>1, <1>2, <1>3, <1>4 DEF Next, Unattended

\* However many reports, refreshes and promotions overlap, they never leave a row
\* published without an expiry while operators keep out and nothing restarts.
THEOREM UnattendedNeverBlocks == Spec /\ [][Unattended]_vars => []NoPermanentBlock
<1> DEFINE IInv == ActivePublished /\ ScansPublished
<1>1. Init => IInv
  BY DEF Init, ActivePublished, ScansPublished, Exists, NothingToDo, IdleScan
<1>2. Inv /\ IInv /\ [Next]_vars /\ [Unattended]_vars => IInv'
  <2>1. IInv /\ UNCHANGED vars => IInv'
    BY DEF ActivePublished, ScansPublished, Exists, vars, tasks
  <2> QED BY <2>1, NextUnattended
<1>3. IInv => RescoresClean
  BY DEF ScansPublished, RescoresClean, Published
<1>4. [Unattended]_vars => [SavesUninterrupted]_vars
  BY DEF Unattended, SavesUninterrupted
<1> HIDE DEF IInv
<1>5. Spec /\ [][Unattended]_vars => []RescoresClean
  BY <1>1, <1>2, <1>3, AlwaysInv, PTL DEF Spec
<1>6. [][Unattended]_vars => [][SavesUninterrupted]_vars
  BY <1>4, PTL
<1> QED BY <1>5, <1>6, PermanentBlocksExplained, PTL

=============================================================================
