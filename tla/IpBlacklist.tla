------------------------------ MODULE IpBlacklist ------------------------------
(***************************************************************************)
(* The IP blacklist: one table of rows shared by everything that writes or *)
(* publishes it.  Each database statement of the code is one step, because *)
(* the application opens no transaction around its requests and jobs:      *)
(*                                                                         *)
(*   Reporters  POST /api/v1/report/ip/ (whitelist check, slow AbuseIPDB    *)
(*              query, lookup, save, score)                                *)
(*   Scanners   loops over rows loaded once: the scheduled refresh, manual  *)
(*              rescoring, the re-evaluation after a settings change       *)
(*   Sweepers   whitelist changes and the blacklist sweep that follows them *)
(*   Editors    the operators' pages (add, edit, pin, activate, delete ...) *)
(*   Readers    GET /api/v1/blacklist/, which the firewalls poll            *)
(*   cleanup    the 15-minute job that retires expired rows                *)
(*                                                                         *)
(* A row's id is never reused while somebody still holds it.               *)
(***************************************************************************)
EXTENDS BlacklistRules

CONSTANTS
    Hosts,          \* the single addresses (/32) among Cidrs
    Overlap,        \* pairs of networks that overlap
    Ids,            \* row ids
    Reporters, Scanners, Sweepers, Editors, Readers,
    SettingsChoices,\* settings an administrator may save
    RescorePicks,   \* sets of rows an operator may select for rescoring
    PurgeScores,    \* score range of the inactive-entry cleanup, {} if disabled
    MaxReports,     \* bound on the reports filed in a behaviour
    MaxCrashes      \* bound on the restarts in a behaviour

ASSUME CidrAssumption ==
    /\ Hosts \subseteq Cidrs
    /\ Overlap \subseteq Cidrs \X Cidrs
    /\ \A c \in Cidrs : <<c, c>> \in Overlap
    /\ \A c, d \in Cidrs : <<c, d>> \in Overlap => <<d, c>> \in Overlap

ASSUME NullIsNoValue == Null \notin Ids \cup Cidrs \cup Groups

ASSUME BoundAssumption == /\ MaxReports \in Nat
                          /\ MaxCrashes \in Nat
                          /\ RescorePicks \subseteq SUBSET Ids
                          /\ PurgeScores \subseteq Scores
                          /\ SettingsChoices \subseteq RawSettings

VARIABLES
    now,        \* the clock
    rows,       \* the blacklist table
    wl,         \* the whitelist: every cidr is absent, inactive or active
    settings,   \* thresholds and promotion rule in force
    report,     \* per reporter: the request it is serving
    scan,       \* per scanner: the copies it still has to process
    sweep,      \* per sweeper: whitelist cidrs to sweep, and copies to process
    edit,       \* per editor: the row its request has loaded
    feed,       \* per reader: the response under construction
    steady,     \* history: whitelist entries active since a reader's request began
    expired,    \* ids the cleanup job has read and not yet written
    filed,      \* reports filed so far (bound)
    crashes     \* restarts so far (bound)

tasks == <<report, scan, sweep, edit, feed, steady, expired>>
vars == <<now, rows, wl, settings, tasks, filed, crashes>>

-----------------------------------------------------------------------------
Exists(i) == rows[i] # NoRow
Overlaps(c, d) == <<c, d>> \in Overlap
ActiveWl(w) == {c \in Cidrs : w[c] = "active"}
Whitelisted(c) == \E d \in ActiveWl(wl) : Overlaps(c, d)

\* Published right now: active and not past its expiry.
Live(row) == row.active /\ (row.expires = Null \/ row.expires > now)

\* The two halves of unique_together = (cidr, group).
TakenGroups(table, i, c) ==
    {table[j].group : j \in {k \in Ids \ {i} : table[k] # NoRow /\ table[k].cidr = c}}
Clash(table, i, row) == row.group \in TakenGroups(table, i, row.cidr)

\* Every id an in-flight task refers to.
Held == {report[w].id : w \in Reporters} \cup {edit[e].id : e \in Editors}
          \cup UNION {report[w].dups : w \in Reporters}
          \cup UNION {{i \in Ids : scan[s].todo[i] # NoRow} : s \in Scanners}
          \cup UNION {{i \in Ids : sweep[a].todo[i] # NoRow} : a \in Sweepers}
          \cup expired
Fresh == {i \in Ids : ~Exists(i)} \ Held

NothingToDo == [i \in Ids |-> NoRow]
IdleReport == [pc |-> "idle", cidr |-> Null, score |-> Null, group |-> Null,
               id |-> Null, copy |-> NoRow, dups |-> {}]
IdleScan == [job |-> "none", todo |-> NothingToDo, rule |-> Null]
IdleSweep == [job |-> "none", cidrs |-> {}, todo |-> NothingToDo]
IdleEdit == [pc |-> "idle", id |-> Null, copy |-> NoRow]
IdleFeed == [pc |-> "idle", out |-> {}]

\* check_blacklist_overlap: another live row of the group covers part of c.
Covered(c, g) == \E j \in Ids : /\ Exists(j) /\ rows[j].cidr # c
                               /\ rows[j].group = g
                               /\ Live(rows[j])
                               /\ Overlaps(c, rows[j].cidr)

\* Rows loaded into memory, to be worked on later.
Copies(S) == [i \in Ids |-> IF i \in S THEN rows[i] ELSE NoRow]

\* A row as the model creates it; auto_now_add, hit_count and the like are left out.
NewRow(c, g) == [cidr |-> c, group |-> g, active |-> TRUE, pinned |-> FALSE,
                 score |-> Null, expires |-> Null, hits |-> NoHits]

\* save(update_fields) raises when the row is gone or the unique index objects.
CanUpdate(i, copy, fields) ==
    Exists(i) /\ ~Clash(rows, i, Merge(rows[i], copy, fields))

-----------------------------------------------------------------------------
(* POST /api/v1/report/ip/ *)

\* The request passed authentication, rate limit and validation, and its
\* address is not whitelisted.
ReportReceived(w, c) ==
    /\ report[w].pc = "idle"
    /\ filed < MaxReports
    /\ c \in Hosts
    /\ ~Whitelisted(c)
    /\ report' = [report EXCEPT ![w] = [IdleReport EXCEPT !.pc = "querying", !.cidr = c]]
    /\ filed' = filed + 1
    /\ UNCHANGED <<now, rows, wl, settings, scan, sweep, edit, feed, steady,
                   expired, crashes>>

\* Mutant of ReportScored: no fallback to no_group.
ScoredWithoutFallback(w, score) ==
    /\ report[w].pc = "querying"
    /\ report' = [report EXCEPT ![w].pc = "scored", ![w].score = score,
                    ![w].group = IF score = Null THEN Null
                                 ELSE GroupByScore(score, settings)]
    /\ UNCHANGED <<now, rows, wl, settings, scan, sweep, edit, feed, steady,
                   expired, filed, crashes>>

\* AbuseIPDB answers with a score, or with none (disabled, timeout, error).
\* Anything but a score in a published band goes to no_group.
ReportScored(w, score) ==
    /\ report[w].pc = "querying"
    /\ LET g == IF score = Null THEN Null ELSE GroupByScore(score, settings)
       IN report' = [report EXCEPT ![w].pc = "scored", ![w].score = score,
                       ![w].group = IF g = Null THEN "no_group" ELSE g]
    /\ UNCHANGED <<now, rows, wl, settings, scan, sweep, edit, feed, steady,
                   expired, filed, crashes>>

\* The rows of the cidr are loaded; the one in the target group is kept, else
\* the newest (the model keeps no added_at: any of them), the others are stale.
ReportFound(w, i) ==
    LET r == report[w]
        existing == {j \in Ids : Exists(j) /\ rows[j].cidr = r.cidr}
    IN /\ r.pc = "scored"
       /\ i \in existing
       /\ (\E j \in existing : rows[j].group = r.group) => rows[i].group = r.group
       /\ report' = [report EXCEPT ![w].pc = "found", ![w].id = i,
                       ![w].copy = rows[i], ![w].dups = existing \ {i}]
       /\ UNCHANGED <<now, rows, wl, settings, scan, sweep, edit, feed, steady,
                      expired, filed, crashes>>

\* No row of the cidr. A broader live row of the target group ends the request.
ReportAbsent(w) ==
    LET r == report[w]
    IN /\ r.pc = "scored"
       /\ \A j \in Ids : Exists(j) => rows[j].cidr # r.cidr
       /\ report' = [report EXCEPT ![w] =
                       IF Covered(r.cidr, r.group) THEN IdleReport
                       ELSE [r EXCEPT !.pc = "absent"]]
       /\ UNCHANGED <<now, rows, wl, settings, scan, sweep, edit, feed, steady,
                      expired, filed, crashes>>

\* What a request does next once its row is saved: apply the score, or answer.
Stored(r, copy) ==
    IF r.score = Null THEN IdleReport
    ELSE [r EXCEPT !.pc = "stored", !.copy = copy, !.dups = {}]

\* Mutant of ReportRefreshed: stale duplicates stay.
RefreshedKeepingDuplicates(w) ==
    LET r == report[w]
        copy == Normal(Renewed([r.copy EXCEPT !.group = r.group, !.active = TRUE,
                                  !.hits = RecordedHit(@, now)], now))
        refused == Clash(rows, r.id, copy)
    IN /\ r.pc = "found"
       /\ rows' = IF refused THEN rows ELSE [rows EXCEPT ![r.id] = copy]
       /\ report' = [report EXCEPT ![w] = IF refused THEN IdleReport ELSE Stored(r, copy)]
       /\ UNCHANGED <<now, wl, settings, scan, sweep, edit, feed, steady,
                      expired, filed, crashes>>

\* Stale duplicates are deleted, then the kept copy is saved whole: every column
\* goes back to what the lookup read, and a row deleted since is inserted again.
ReportRefreshed(w) ==
    LET r == report[w]
        kept == [i \in Ids |-> IF i \in r.dups THEN NoRow ELSE rows[i]]
        copy == Normal(Renewed([r.copy EXCEPT !.group = r.group, !.active = TRUE,
                                  !.hits = RecordedHit(@, now)], now))
        refused == Clash(kept, r.id, copy)
    IN /\ r.pc = "found"
       /\ rows' = IF refused THEN kept ELSE [kept EXCEPT ![r.id] = copy]
       /\ report' = [report EXCEPT ![w] = IF refused THEN IdleReport ELSE Stored(r, copy)]
       /\ UNCHANGED <<now, wl, settings, scan, sweep, edit, feed, steady,
                      expired, filed, crashes>>

\* Mutant of ReportCreated: a refused insert is tried again.
CreatedWithRetry(w, i) ==
    LET r == report[w]
        copy == Normal(NewRow(r.cidr, r.group))
    IN /\ r.pc = "absent"
       /\ i \in Fresh
       /\ ~Clash(rows, Null, copy)
       /\ rows' = [rows EXCEPT ![i] = copy]
       /\ report' = [report EXCEPT ![w] = [r EXCEPT !.pc = "created", !.id = i, !.copy = copy]]
       /\ UNCHANGED <<now, wl, settings, scan, sweep, edit, feed, steady,
                      expired, filed, crashes>>

\* objects.create: published at once, without an expiry until the next step; the
\* unique index may refuse it.
ReportCreated(w, i) ==
    LET r == report[w]
        copy == Normal(NewRow(r.cidr, r.group))
        refused == Clash(rows, Null, copy)
    IN /\ r.pc = "absent"
       /\ refused \/ i \in Fresh
       /\ rows' = IF refused THEN rows ELSE [rows EXCEPT ![i] = copy]
       /\ report' = [report EXCEPT ![w] =
                       IF refused THEN IdleReport
                       ELSE [r EXCEPT !.pc = "created", !.id = i, !.copy = copy]]
       /\ UNCHANGED <<now, wl, settings, scan, sweep, edit, feed, steady,
                      expired, filed, crashes>>

\* Mutant of ReportCompleted: the expiry is forgotten.
CompletedWithoutExpiry(w) ==
    LET r == report[w]
        copy == Normal([r.copy EXCEPT !.hits = RecordedHit(@, now)])
        refused == Clash(rows, r.id, copy)
    IN /\ r.pc = "created"
       /\ rows' = IF refused THEN rows ELSE [rows EXCEPT ![r.id] = copy]
       /\ report' = [report EXCEPT ![w] = IF refused THEN IdleReport ELSE Stored(r, copy)]
       /\ UNCHANGED <<now, wl, settings, scan, sweep, edit, feed, steady,
                      expired, filed, crashes>>

\* The second save of a new row, again of the whole copy: hit and expiry.
ReportCompleted(w) ==
    LET r == report[w]
        copy == Normal(Renewed([r.copy EXCEPT !.hits = RecordedHit(@, now)], now))
        refused == Clash(rows, r.id, copy)
    IN /\ r.pc = "created"
       /\ rows' = IF refused THEN rows ELSE [rows EXCEPT ![r.id] = copy]
       /\ report' = [report EXCEPT ![w] = IF refused THEN IdleReport ELSE Stored(r, copy)]
       /\ UNCHANGED <<now, wl, settings, scan, sweep, edit, feed, steady,
                      expired, filed, crashes>>

\* _apply_score_to_entry of the copy the request holds; then it answers.
ReportApplied(w) ==
    LET r == report[w]
        a == Applied(r.copy, r.score, settings, now, TakenGroups(rows, r.id, r.cidr))
    IN /\ r.pc = "stored"
       /\ rows' = IF CanUpdate(r.id, a.row, a.fields)
                  THEN [rows EXCEPT ![r.id] = Merge(@, a.row, a.fields)] ELSE rows
       /\ report' = [report EXCEPT ![w] = IdleReport]
       /\ UNCHANGED <<now, wl, settings, scan, sweep, edit, feed, steady,
                      expired, filed, crashes>>

ReportStep(w) ==
    \/ \E c \in Hosts : ReportReceived(w, c)
    \/ \E score \in Scores \cup {Null} : ReportScored(w, score)
    \/ \E i \in Ids : ReportFound(w, i) \/ ReportCreated(w, i)
    \/ ReportAbsent(w)
    \/ ReportRefreshed(w)
    \/ ReportCompleted(w)
    \/ ReportApplied(w)

-----------------------------------------------------------------------------
(* Jobs that load rows once and then work through their copies *)

\* A scan without work left is idle again.
Settled(rec) == IF rec.todo = NothingToDo THEN IdleScan ELSE rec

StartScan(s, job, S, rule) ==
    /\ scan[s].todo = NothingToDo
    /\ scan' = [scan EXCEPT ![s] =
                  Settled([job |-> job, todo |-> Copies(S), rule |-> rule])]
    /\ UNCHANGED <<now, rows, wl, report, sweep, edit, feed, steady, expired,
                   filed, crashes>>

\* bulk_refresh: every row that is active and not pinned.
RefreshStarted(s) ==
    LET S == {i \in Ids : Exists(i) /\ rows[i].active /\ ~rows[i].pinned}
    IN S # {} /\ StartScan(s, "score", S, settings) /\ UNCHANGED settings

\* Rescoring of rows an operator picked, or the automatic check of a new row.
RescoreStarted(s, S) ==
    /\ S # {} /\ \A i \in S : Exists(i)
    /\ StartScan(s, "score", S, settings)
    /\ UNCHANGED settings

\* Saving settings re-evaluates the scored rows: against new score bands, or
\* only against a new promotion rule.
SettingsSaved(s, raw) ==
    LET new == Clamped(raw)
        bands == <<settings.t24h, settings.t30d>> # <<new.t24h, new.t30d>>
    IN /\ new # settings
       /\ settings' = new
       /\ StartScan(s, IF bands THEN "bands" ELSE "promotion",
                    {i \in Ids : Exists(i) /\ rows[i].score # Null}, new)

\* The rest of the scan after row i; an exception drops all of it.
After(s, i, failed) ==
    scan' = [scan EXCEPT ![s] =
               IF failed THEN IdleScan ELSE Settled([@ EXCEPT !.todo[i] = NoRow])]

\* One row of a scan: save the fields its re-evaluation changed, if any.
ScanSave(s, i, a) ==
    LET failed == a.fields # {} /\ ~CanUpdate(i, a.row, a.fields)
    IN /\ rows' = IF a.fields = {} \/ failed THEN rows
                  ELSE [rows EXCEPT ![i] = Merge(@, a.row, a.fields)]
       /\ After(s, i, failed)
       /\ UNCHANGED <<now, wl, settings, report, sweep, edit, feed, steady,
                      expired, filed, crashes>>

\* The answer to a query for row i, applied to the copy loaded before it.
RowScored(s, i, score) ==
    LET copy == scan[s].todo[i]
    IN /\ scan[s].job = "score"
       /\ copy # NoRow
       /\ ScanSave(s, i, Applied(copy, score, settings, now,
                                 TakenGroups(rows, i, copy.cidr)))

\* The query for row i failed, or every key ran out of quota.
ScanGaveUp(s, i, all) ==
    /\ scan[s].job = "score"
    /\ scan[s].todo[i] # NoRow
    /\ After(s, i, all)
    /\ UNCHANGED <<now, rows, wl, settings, report, sweep, edit, feed, steady,
                   expired, filed, crashes>>

\* reapply_thresholds for row i, with the settings read when it started.
RowReapplied(s, i) ==
    LET copy == scan[s].todo[i]
    IN /\ scan[s].job \in {"bands", "promotion"}
       /\ copy # NoRow
       /\ ScanSave(s, i, Reapplied(copy, scan[s].rule, now, scan[s].job = "promotion",
                                   TakenGroups(rows, i, copy.cidr)))

ScanStep(s) ==
    \/ RefreshStarted(s)
    \/ \E S \in RescorePicks : RescoreStarted(s, S)
    \/ \E raw \in SettingsChoices : SettingsSaved(s, raw)
    \/ \E i \in Ids : \/ \E score \in Scores : RowScored(s, i, score)
                      \/ \E all \in BOOLEAN : ScanGaveUp(s, i, all)
                      \/ RowReapplied(s, i)

-----------------------------------------------------------------------------
(* Expiry and retention *)

\* _run_cleanup_expired reads the expired rows and logs every one of them ...
CleanupRead ==
    /\ expired = {}
    /\ expired' = {i \in Ids : Exists(i) /\ rows[i].active
                               /\ rows[i].expires # Null /\ rows[i].expires < now}
    /\ expired' # {}
    /\ UNCHANGED <<now, rows, wl, settings, report, scan, sweep, edit, feed,
                   steady, filed, crashes>>

\* Mutant of CleanupWrite: logged, never deactivated.
CleanupLogged ==
    /\ expired # {}
    /\ expired' = {}
    /\ UNCHANGED <<now, rows, wl, settings, report, scan, sweep, edit, feed, steady,
                   filed, crashes>>

\* ... and then deactivates them by id, without looking at expires_at again.
CleanupWrite ==
    /\ expired # {}
    /\ rows' = [i \in Ids |-> IF i \in expired /\ Exists(i)
                              THEN [rows[i] EXCEPT !.active = FALSE] ELSE rows[i]]
    /\ expired' = {}
    /\ UNCHANGED <<now, wl, settings, report, scan, sweep, edit, feed, steady,
                   filed, crashes>>

\* run_cleanup deletes inactive scored rows of the configured range once they
\* are old enough (the model keeps no added_at: at any time, row by row).
Purged(i) ==
    /\ Exists(i)
    /\ ~rows[i].active
    /\ rows[i].score \in PurgeScores
    /\ rows' = [rows EXCEPT ![i] = NoRow]
    /\ UNCHANGED <<now, wl, settings, tasks, filed, crashes>>

-----------------------------------------------------------------------------
(* The whitelist and its sweeps *)

SweepIdle(a) == sweep[a].cidrs = {} /\ sweep[a].todo = NothingToDo

SweptSettled(rec) ==
    IF rec.cidrs = {} /\ rec.todo = NothingToDo THEN IdleSweep ELSE rec

\* The whitelist becomes new; readers' requests in flight notice who left it.
WhitelistBecomes(new) ==
    /\ wl' = new
    /\ steady' = [f \in Readers |-> steady[f] \cap ActiveWl(new)]

\* Entries now active, whose networks are to be swept off the blacklist.
WhitelistOn(a, C) ==
    /\ SweepIdle(a)
    /\ C # {}
    /\ WhitelistBecomes([c \in Cidrs |-> IF c \in C THEN "active" ELSE wl[c]])
    /\ sweep' = [sweep EXCEPT ![a] = [IdleSweep EXCEPT !.job = "off", !.cidrs = C]]
    /\ UNCHANGED <<now, rows, settings, report, scan, edit, feed, expired, filed,
                   crashes>>

\* Entries gone or inactive, whose networks may have to be blocked again.
WhitelistOff(a, C, how) ==
    /\ SweepIdle(a)
    /\ C # {} /\ \A c \in C : wl[c] # "absent"
    /\ WhitelistBecomes([c \in Cidrs |-> IF c \in C THEN how ELSE wl[c]])
    /\ sweep' = [sweep EXCEPT ![a] = [IdleSweep EXCEPT !.job = "on", !.cidrs = C]]
    /\ UNCHANGED <<now, rows, settings, report, scan, edit, feed, expired, filed,
                   crashes>>

\* One new entry, from a form; an entry of the cidr, even an inactive one, stays
\* as it is and nothing is swept.
WhitelistCreated(a, c) == wl[c] = "absent" /\ WhitelistOn(a, {c})

\* One line of an imported file, swept before the next line is read.
WhitelistImported(a, c) == wl[c] = "absent" /\ WhitelistOn(a, {c})

WhitelistActivated(a, c) == wl[c] # "absent" /\ WhitelistOn(a, {c})

\* The bulk pages change every selected entry first and then sweep them all.
WhitelistBulkActivated(a, C) == (\A c \in C : wl[c] # "absent") /\ WhitelistOn(a, C)

WhitelistDeleted(a, c) == WhitelistOff(a, {c}, "absent")
WhitelistBulkDeleted(a, C) == WhitelistOff(a, C, "absent")
WhitelistDeactivated(a, c) == WhitelistOff(a, {c}, "inactive")
WhitelistBulkDeactivated(a, C) == WhitelistOff(a, C, "inactive")

\* whitelist_edit renames an entry and sweeps nothing.
WhitelistEdited(a, c, d) ==
    /\ SweepIdle(a)
    /\ wl[c] # "absent"
    /\ wl[d] = "absent"
    /\ WhitelistBecomes([wl EXCEPT ![d] = wl[c], ![c] = "absent"])
    /\ UNCHANGED <<now, rows, settings, report, scan, sweep, edit, feed, expired,
                   filed, crashes>>

\* Live rows overlapping a new entry, or inactive rows an old entry hid that no
\* other active entry covers, are loaded for the sweep.
SweepRead(a, c) ==
    LET off == sweep[a].job = "off"
        S == {i \in Ids : /\ Exists(i)
                          /\ Overlaps(c, rows[i].cidr)
                          /\ IF off THEN Live(rows[i])
                             ELSE ~rows[i].active /\ ~Whitelisted(rows[i].cidr)}
        next == [sweep[a] EXCEPT !.cidrs = @ \ {c}, !.todo = Copies(S)]
    IN /\ c \in sweep[a].cidrs
       /\ sweep[a].todo = NothingToDo
       /\ sweep' = [sweep EXCEPT ![a] = SweptSettled(next)]
       /\ UNCHANGED <<now, rows, wl, settings, report, scan, edit, feed, steady,
                      expired, filed, crashes>>

\* One loaded row is switched off, or on with a renewed expiry.
SweepSaved(a, i) ==
    LET copy == sweep[a].todo[i]
        off == sweep[a].job = "off"
        new == IF off THEN [copy EXCEPT !.active = FALSE]
               ELSE Renewed([copy EXCEPT !.active = TRUE], now)
        fields == IF off THEN {"active"} ELSE {"active", "expires"}
        failed == ~Exists(i)
    IN /\ copy # NoRow
       /\ rows' = IF failed THEN rows ELSE [rows EXCEPT ![i] = Merge(@, new, fields)]
       /\ sweep' = [sweep EXCEPT ![a] =
                      IF failed THEN IdleSweep
                      ELSE SweptSettled([@ EXCEPT !.todo[i] = NoRow])]
       /\ UNCHANGED <<now, wl, settings, report, scan, edit, feed, steady,
                      expired, filed, crashes>>

SweepStep(a) ==
    \/ \E c \in Cidrs : \/ WhitelistCreated(a, c) \/ WhitelistImported(a, c)
                        \/ WhitelistActivated(a, c)
                        \/ WhitelistDeleted(a, c) \/ WhitelistDeactivated(a, c)
                        \/ SweepRead(a, c)
                        \/ \E d \in Cidrs : WhitelistEdited(a, c, d)
    \/ \E C \in SUBSET Cidrs : \/ WhitelistBulkActivated(a, C)
                               \/ WhitelistBulkDeleted(a, C)
                               \/ WhitelistBulkDeactivated(a, C)
    \/ \E i \in Ids : SweepSaved(a, i)

-----------------------------------------------------------------------------
(* The operators' pages *)

\* A single address that no whitelist entry and no broader live row covers.
Addable(c, g) == c \in Hosts /\ ~Whitelisted(c) /\ ~Covered(c, g)

\* blacklist_create: an inactive row of the same group is woken, else a row is
\* added, with its expiry.
EntryAdded(e, c, g, i) ==
    LET same == {j \in Ids : Exists(j) /\ rows[j].cidr = c /\ rows[j].group = g}
        row == IF i \in same THEN [rows[i] EXCEPT !.active = TRUE] ELSE NewRow(c, g)
    IN /\ edit[e].pc = "idle"
       /\ Addable(c, g)
       /\ IF same = {} THEN i \in Fresh ELSE i \in same /\ ~rows[i].active
       /\ rows' = [rows EXCEPT ![i] = Normal(Renewed(row, now))]
       /\ UNCHANGED <<now, wl, settings, tasks, filed, crashes>>

\* get_or_create of the CSV import and of bulk add: a new row has no expiry yet.
EntryImported(e, c, g, i) ==
    LET copy == Normal(NewRow(c, g))
    IN /\ edit[e].pc = "idle"
       /\ Addable(c, g)
       /\ ~Clash(rows, Null, copy)
       /\ i \in Fresh
       /\ rows' = [rows EXCEPT ![i] = copy]
       /\ edit' = [edit EXCEPT ![e] = [pc |-> "imported", id |-> i, copy |-> copy]]
       /\ UNCHANGED <<now, wl, settings, report, scan, sweep, feed, steady,
                      expired, filed, crashes>>

\* get_or_create found an inactive row, which is to be woken.
EntryFound(e, c, g, i) ==
    /\ edit[e].pc = "idle"
    /\ Addable(c, g)
    /\ Exists(i) /\ rows[i].cidr = c /\ rows[i].group = g /\ ~rows[i].active
    /\ edit' = [edit EXCEPT ![e] = [pc |-> "imported", id |-> i,
                                     copy |-> [rows[i] EXCEPT !.active = TRUE]]]
    /\ UNCHANGED <<now, rows, wl, settings, report, scan, sweep, feed, steady,
                   expired, filed, crashes>>

\* A page loads the row it is about to change.
EntryLoaded(e, i) ==
    /\ edit[e].pc = "idle"
    /\ Exists(i)
    /\ edit' = [edit EXCEPT ![e] = [pc |-> "loaded", id |-> i, copy |-> rows[i]]]
    /\ UNCHANGED <<now, rows, wl, settings, report, scan, sweep, feed, steady,
                   expired, filed, crashes>>

\* save() of the whole copy: inserts the row again if it was deleted meanwhile.
SaveWhole(e, row) ==
    /\ rows' = IF Clash(rows, edit[e].id, row) THEN rows
               ELSE [rows EXCEPT ![edit[e].id] = Normal(row)]
    /\ edit' = [edit EXCEPT ![e] = IdleEdit]
    /\ UNCHANGED <<now, wl, settings, report, scan, sweep, feed, steady,
                   expired, filed, crashes>>

\* save(update_fields) of some columns of the copy.
SaveFields(e, row, fields) ==
    /\ rows' = IF CanUpdate(edit[e].id, row, fields)
               THEN [rows EXCEPT ![edit[e].id] = Merge(@, row, fields)] ELSE rows
    /\ edit' = [edit EXCEPT ![e] = IdleEdit]
    /\ UNCHANGED <<now, wl, settings, report, scan, sweep, feed, steady,
                   expired, filed, crashes>>

\* The row gets its expiry and is saved whole.
ImportCompleted(e) ==
    /\ edit[e].pc = "imported"
    /\ SaveWhole(e, Renewed(edit[e].copy, now))

\* blacklist_edit: new cidr and group; the form renews the expiry.
EntryEdited(e, c, g) ==
    /\ edit[e].pc = "loaded"
    /\ SaveWhole(e, Renewed([edit[e].copy EXCEPT !.cidr = c, !.group = g], now))

\* Both ways to activate refuse a row that was in no_group when it was loaded.
EntryReactivated(e) ==
    /\ edit[e].pc = "loaded"
    /\ edit[e].copy.group # "no_group"
    /\ SaveWhole(e, Renewed([edit[e].copy EXCEPT !.active = TRUE], now))

EntryBulkActivated(e) ==
    /\ edit[e].pc = "loaded"
    /\ edit[e].copy.group # "no_group"
    /\ SaveFields(e, Renewed([edit[e].copy EXCEPT !.active = TRUE], now),
                  {"active", "expires"})

\* blacklist_bulk_edit_group saves the group and the expiry, not is_active.
GroupBulkEdited(e, g) ==
    /\ edit[e].pc = "loaded"
    /\ SaveFields(e, Renewed([edit[e].copy EXCEPT !.group = g], now),
                  {"group", "expires"})

\* The single-row pages load their row, too, before they change it.
EntryPinToggled(e) ==
    /\ edit[e].pc = "loaded"
    /\ rows' = IF Exists(edit[e].id)
               THEN [rows EXCEPT ![edit[e].id].pinned = ~edit[e].copy.pinned] ELSE rows
    /\ edit' = [edit EXCEPT ![e] = IdleEdit]
    /\ UNCHANGED <<now, wl, settings, report, scan, sweep, feed, steady,
                   expired, filed, crashes>>

EntrySwitchedOff(e) ==
    /\ edit[e].pc = "loaded"
    /\ SaveFields(e, [edit[e].copy EXCEPT !.active = FALSE], {"active"})

EntryRemoved(e) ==
    /\ edit[e].pc = "loaded"
    /\ rows' = [rows EXCEPT ![edit[e].id] = NoRow]
    /\ edit' = [edit EXCEPT ![e] = IdleEdit]
    /\ UNCHANGED <<now, wl, settings, report, scan, sweep, feed, steady,
                   expired, filed, crashes>>

\* Single-statement writes to the selected rows: pin, unpin, deactivate, delete.
EntryPinned(e, i, v) ==
    /\ edit[e].pc = "idle" /\ Exists(i)
    /\ rows' = [rows EXCEPT ![i].pinned = v]
    /\ UNCHANGED <<now, wl, settings, tasks, filed, crashes>>

EntryDeactivated(e, i) ==
    /\ edit[e].pc = "idle" /\ Exists(i)
    /\ rows' = [rows EXCEPT ![i].active = FALSE]
    /\ UNCHANGED <<now, wl, settings, tasks, filed, crashes>>

EntryDeleted(e, i) ==
    /\ edit[e].pc = "idle" /\ Exists(i)
    /\ rows' = [rows EXCEPT ![i] = NoRow]
    /\ UNCHANGED <<now, wl, settings, tasks, filed, crashes>>

\* blacklist_deactivate_all: every live row the page's filters select.
AllDeactivated(e, S) ==
    /\ edit[e].pc = "idle"
    /\ S \subseteq {i \in Ids : Exists(i) /\ Live(rows[i])}
    /\ rows' = [i \in Ids |-> IF i \in S THEN [rows[i] EXCEPT !.active = FALSE]
                              ELSE rows[i]]
    /\ UNCHANGED <<now, wl, settings, tasks, filed, crashes>>

EditStep(e) ==
    \/ \E i \in Ids, c \in Hosts, g \in Groups :
          EntryAdded(e, c, g, i) \/ EntryImported(e, c, g, i) \/ EntryFound(e, c, g, i)
    \/ \E i \in Ids : EntryLoaded(e, i) \/ EntryDeactivated(e, i) \/ EntryDeleted(e, i)
    \/ \E i \in Ids, v \in BOOLEAN : EntryPinned(e, i, v)
    \/ \E c \in Cidrs, g \in Groups : EntryEdited(e, c, g)
    \/ \E g \in Groups : GroupBulkEdited(e, g)
    \/ \E S \in SUBSET Ids : AllDeactivated(e, S)
    \/ ImportCompleted(e)
    \/ EntryReactivated(e)
    \/ EntryBulkActivated(e)
    \/ EntryPinToggled(e)
    \/ EntrySwitchedOff(e)
    \/ EntryRemoved(e)

-----------------------------------------------------------------------------
(* GET /api/v1/blacklist/, /24h/, /30d/ *)

FeedRead(f, G) ==
    /\ feed[f].pc # "read"
    /\ feed' = [feed EXCEPT ![f] =
                  [pc |-> "read",
                   out |-> {rows[i].cidr : i \in {j \in Ids :
                              Exists(j) /\ rows[j].group \in G /\ Live(rows[j])}}]]
    /\ steady' = [steady EXCEPT ![f] = ActiveWl(wl)]
    /\ UNCHANGED <<now, rows, wl, settings, report, scan, sweep, edit, expired,
                   filed, crashes>>

\* Mutant of FeedServed: drops only what the whitelist names exactly.
ServedByEquality(f) ==
    /\ feed[f].pc = "read"
    /\ feed' = [feed EXCEPT ![f].pc = "served",
                            ![f].out = {c \in @ : wl[c] # "active"}]
    /\ UNCHANGED <<now, rows, wl, settings, report, scan, sweep, edit, steady,
                   expired, filed, crashes>>

\* The whitelist is read only now, and filters what was read before.
FeedServed(f) ==
    /\ feed[f].pc = "read"
    /\ feed' = [feed EXCEPT ![f].pc = "served",
                            ![f].out = {c \in @ : ~Whitelisted(c)}]
    /\ UNCHANGED <<now, rows, wl, settings, report, scan, sweep, edit, steady,
                   expired, filed, crashes>>

FeedStep(f) ==
    \/ FeedServed(f)
    \/ \E G \in {Published, {"24h"}, {"30d"}} : FeedRead(f, G)

-----------------------------------------------------------------------------
(* Time and restarts *)

Tick ==
    /\ now < MaxTime
    /\ now' = now + 1
    /\ UNCHANGED <<rows, wl, settings, tasks, filed, crashes>>

\* One process runs requests and jobs: a restart loses every task in flight.
Crash ==
    /\ crashes < MaxCrashes
    /\ crashes' = crashes + 1
    /\ report' = [w \in Reporters |-> IdleReport]
    /\ scan' = [s \in Scanners |-> IdleScan]
    /\ sweep' = [a \in Sweepers |-> IdleSweep]
    /\ edit' = [e \in Editors |-> IdleEdit]
    /\ feed' = [f \in Readers |-> IdleFeed]
    /\ expired' = {}
    /\ UNCHANGED <<now, rows, wl, settings, steady, filed>>

-----------------------------------------------------------------------------
Init ==
    /\ now = 0
    /\ rows = NothingToDo
    /\ wl \in [Cidrs -> {"absent"}]
    /\ settings \in {Clamped(raw) : raw \in SettingsChoices}
    /\ report = [w \in Reporters |-> IdleReport]
    /\ scan = [s \in Scanners |-> IdleScan]
    /\ sweep = [a \in Sweepers |-> IdleSweep]
    /\ edit = [e \in Editors |-> IdleEdit]
    /\ feed = [f \in Readers |-> IdleFeed]
    /\ steady = [f \in Readers |-> {}]
    /\ expired = {}
    /\ filed = 0
    /\ crashes = 0

Next ==
    \/ \E w \in Reporters : ReportStep(w)
    \/ \E s \in Scanners : ScanStep(s)
    \/ \E a \in Sweepers : SweepStep(a)
    \/ \E e \in Editors : EditStep(e)
    \/ \E f \in Readers : FeedStep(f)
    \/ \E i \in Ids : Purged(i)
    \/ CleanupRead
    \/ CleanupWrite
    \/ Tick
    \/ Crash

Spec == Init /\ [][Next]_vars

=============================================================================
