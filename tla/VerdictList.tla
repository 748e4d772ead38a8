------------------------------ MODULE VerdictList ------------------------------
(***************************************************************************)
(* The hash and the URL blacklist.  Their rows carry a VirusTotal verdict   *)
(* that arrives up to 30 seconds after the row was loaded, and three flags  *)
(* that decide what the feeds serve: active, vt_unavailable, vt_not_found.  *)
(* Each list has handlers of its own over its own table, Hash... and Url... *)
(* below; they run the same code but for one thing: VirusTotal's 404 is a   *)
(* score of 0/0 for a hash and a state of its own for a scanned URL.        *)
(*                                                                         *)
(*   Reporters  POST /api/v1/report/hash/ and /url/                         *)
(*   Scanners   loops over rows loaded once: scheduled refresh, rescoring,  *)
(*              the check of added rows, the threshold re-evaluation        *)
(*   Editors    the operators' pages                                        *)
(***************************************************************************)
EXTENDS Integers

CONSTANTS
    Hashes, Urls,   \* the values the two lists may hold
    Ids,            \* row ids
    Reporters, Scanners, Editors,
    Verdicts,       \* (malicious, total) engine counts VirusTotal may answer
    Thresholds,     \* detection thresholds an administrator may save
    RescorePicks,   \* sets of rows an operator may select for rescoring
    PurgeScores,    \* malicious counts the cleanup deletes, {} if disabled
    MaxCrashes,     \* bound on the restarts in a behaviour
    Null, NoRow

Values == Hashes \cup Urls

\* What a 404 amounts to where it is taken for a score.
Unknown == [malicious |-> 0, total |-> 0]

ASSUME VerdictAssumption == /\ Verdicts \subseteq [malicious : Nat, total : Nat]
                            /\ Unknown \in Verdicts
                            /\ Null \notin Verdicts \cup Ids
ASSUME VerdictBounds == /\ Thresholds \subseteq Int
                        /\ RescorePicks \subseteq SUBSET Ids
                        /\ PurgeScores \subseteq Nat
                        /\ MaxCrashes \in Nat

\* One HashEntry or URLEntry of the blacklist; checked is vt_checked_at # NULL.
Row == [value : Values, active : BOOLEAN, pinned : BOOLEAN,
        score : Verdicts \cup {Null}, checked : BOOLEAN,
        unavailable : BOOLEAN, notFound : BOOLEAN]

ASSUME NoRowIsNone == NoRow \notin Row

VARIABLES
    rows,       \* the two tables
    threshold,  \* virustotal_detection_threshold in force, 0 when disabled
    report,     \* per reporter: the request it is serving
    scan,       \* per scanner: the copies it still has to process
    edit,       \* per editor: the row its request has loaded
    crashes     \* restarts so far (bound)

vars == <<rows, threshold, report, scan, edit, crashes>>

-----------------------------------------------------------------------------
Exists(i) == rows[i] # NoRow
IsUrl(row) == row # NoRow /\ row.value \in Urls

NothingToDo == [i \in Ids |-> NoRow]
IdleReport == [pc |-> "idle", id |-> Null, copy |-> NoRow, verdict |-> Null]
IdleScan == [job |-> "none", todo |-> NothingToDo, rule |-> 0]
IdleEdit == [pc |-> "idle", id |-> Null, copy |-> NoRow]

Held == {report[w].id : w \in Reporters} \cup {edit[e].id : e \in Editors}
          \cup UNION {{i \in Ids : scan[s].todo[i] # NoRow} : s \in Scanners}
Fresh == {i \in Ids : ~Exists(i)} \ Held

\* unique_together (value, list_type), for any row but i.
Listed(v, i) == \E j \in Ids \ {i} : Exists(j) /\ rows[j].value = v

Copies(S) == [i \in Ids |-> IF i \in S THEN rows[i] ELSE NoRow]

NewRow(v) == [value |-> v, active |-> TRUE, pinned |-> FALSE, score |-> Null,
              checked |-> FALSE, unavailable |-> FALSE, notFound |-> FALSE]

\* The rows get_hashlist and get_urllist serve.
Served(row) == row.active /\ ~row.unavailable
HashFeed == {i \in Ids : Exists(i) /\ ~IsUrl(rows[i]) /\ Served(rows[i])}
UrlFeed == {i \in Ids : Exists(i) /\ IsUrl(rows[i]) /\ Served(rows[i])}

\* save(update_fields = fields) of a copy onto the stored row.
Merge(stored, copy, fields) ==
    [value |-> stored.value, pinned |-> stored.pinned,
     active |-> IF "active" \in fields THEN copy.active ELSE stored.active,
     score |-> IF "score" \in fields THEN copy.score ELSE stored.score,
     checked |-> IF "checked" \in fields THEN copy.checked ELSE stored.checked,
     unavailable |-> IF "unavailable" \in fields THEN copy.unavailable
                                                 ELSE stored.unavailable,
     notFound |-> IF "notFound" \in fields THEN copy.notFound ELSE stored.notFound]

-----------------------------------------------------------------------------
(* What an answer changes: the copy it leaves in memory, the fields it saves *)

\* A flag is written only when the copy shows it raised.
Lowered(copy, flag) == IF copy[flag] THEN {flag} ELSE {}

\* With a threshold, an unpinned row follows its verdict.
Judged(copy, verdict, t) ==
    IF t > 0 /\ ~copy.pinned THEN verdict.malicious >= t ELSE copy.active

\* Mutant of Scored: is_active is always among the fields saved.
ScoredAlwaysWritten(copy, verdict, t) ==
    LET active == Judged(copy, verdict, t)
    IN [row |-> [copy EXCEPT !.checked = TRUE, !.score = verdict, !.active = active,
                             !.unavailable = FALSE, !.notFound = FALSE],
        fields |-> {"checked", "score", "active", "unavailable", "notFound"}]

\* Mutant of Scored: a verdict leaves vt_unavailable raised.
ScoredStillFlagged(copy, verdict, t) ==
    LET active == Judged(copy, verdict, t)
    IN [row |-> [copy EXCEPT !.checked = TRUE, !.score = verdict, !.active = active],
        fields |-> {"checked", "score"} \cup IF active # copy.active THEN {"active"} ELSE {}]

\* _apply_score_to_entry
Scored(copy, verdict, t) ==
    LET active == Judged(copy, verdict, t)
    IN [row |-> [copy EXCEPT !.checked = TRUE, !.score = verdict, !.active = active,
                             !.unavailable = FALSE, !.notFound = FALSE],
        fields |-> {"checked"}
                     \cup Lowered(copy, "unavailable") \cup Lowered(copy, "notFound")
                     \cup (IF copy.score # verdict THEN {"score"} ELSE {})
                     \cup (IF copy.active # active THEN {"active"} ELSE {})]

\* _mark_not_found: no score, and inactive unless pinned.
MarkedNotFound(copy) ==
    [row |-> [copy EXCEPT !.checked = TRUE, !.notFound = TRUE, !.unavailable = FALSE,
                          !.score = Null, !.active = @ /\ copy.pinned],
     fields |-> {"checked", "notFound"}
                  \cup Lowered(copy, "unavailable")
                  \cup (IF copy.score # Null THEN {"score"} ELSE {})
                  \cup (IF copy.active /\ ~copy.pinned THEN {"active"} ELSE {})]

-----------------------------------------------------------------------------
(* POST /api/v1/report/hash/, /url/ *)

\* A new value is stored, active at once; if auto-check is on, VirusTotal is
\* asked.  A value already listed is left as it is: nothing changes.
ReportReceived(w, v, i, auto) ==
    /\ report[w].pc = "idle"
    /\ ~Listed(v, Null)
    /\ i \in Fresh
    /\ rows' = [rows EXCEPT ![i] = NewRow(v)]
    /\ report' = IF auto THEN [report EXCEPT ![w].pc = "querying", ![w].id = i] ELSE report
    /\ UNCHANGED <<threshold, scan, edit, crashes>>

\* VirusTotal answered (a 404 reads as Unknown here): the row is read again.
ReportAnswered(w, verdict) ==
    /\ report[w].pc = "querying"
    /\ report' = [report EXCEPT ![w] =
                    IF Exists(@.id)
                    THEN [pc |-> "refreshed", id |-> @.id, copy |-> rows[@.id],
                          verdict |-> verdict]
                    ELSE IdleReport]
    /\ UNCHANGED <<rows, threshold, scan, edit, crashes>>

ReportApplied(w) ==
    LET r == report[w]
        a == Scored(r.copy, r.verdict, threshold)
    IN /\ r.pc = "refreshed"
       /\ rows' = IF Exists(r.id)
                  THEN [rows EXCEPT ![r.id] = Merge(@, a.row, a.fields)] ELSE rows
       /\ report' = [report EXCEPT ![w] = IdleReport]
       /\ UNCHANGED <<threshold, scan, edit, crashes>>

\* Timeout, quota or network: the row is flagged and hidden from the feed.
ReportUnanswered(w) ==
    LET i == report[w].id
    IN /\ report[w].pc = "querying"
       /\ rows' = IF Exists(i) THEN [rows EXCEPT ![i].unavailable = TRUE] ELSE rows
       /\ report' = [report EXCEPT ![w] = IdleReport]
       /\ UNCHANGED <<threshold, scan, edit, crashes>>

HashReported(w, i, auto) == \E v \in Hashes : ReportReceived(w, v, i, auto)
UrlReported(w, i, auto) == \E v \in Urls : ReportReceived(w, v, i, auto)

ReportStep(w) ==
    \/ \E i \in Ids, auto \in BOOLEAN : HashReported(w, i, auto) \/ UrlReported(w, i, auto)
    \/ \E verdict \in Verdicts : ReportAnswered(w, verdict)
    \/ ReportApplied(w)
    \/ ReportUnanswered(w)

-----------------------------------------------------------------------------
(* Jobs that load rows once and then work through their copies *)

\* A job is over with its last row; the re-evaluation takes the hashes first and
\* then starts on the URLs.
Settled(rec) ==
    IF rec.todo = NothingToDo /\ rec.job # "hashes" THEN IdleScan ELSE rec

Start(s, job, S, rule) ==
    scan' = [scan EXCEPT ![s] = Settled([job |-> job, todo |-> Copies(S), rule |-> rule])]

\* bulk_refresh of one list: the rows that are active and not pinned, or of these
\* the ones never scored.
RefreshStarted(s, urls, unchecked) ==
    LET S == {i \in Ids : /\ Exists(i) /\ IsUrl(rows[i]) = urls
                          /\ rows[i].active /\ ~rows[i].pinned
                          /\ unchecked => ~rows[i].checked}
    IN /\ scan[s] = IdleScan
       /\ S # {}
       /\ Start(s, "score", S, 0)
       /\ UNCHANGED <<rows, threshold, report, edit, crashes>>

HashesRefreshed(s, unchecked) == RefreshStarted(s, FALSE, unchecked)
UrlsRefreshed(s, unchecked) == RefreshStarted(s, TRUE, unchecked)

\* Rescoring of the rows, or of the row, an operator picked.
RescoreStarted(s, S) ==
    /\ scan[s] = IdleScan
    /\ S # {} /\ \A i \in S : Exists(i)
    /\ Start(s, "score", S, 0)
    /\ UNCHANGED <<rows, threshold, report, edit, crashes>>

HashesRescored(s, S) == /\ \A i \in S : Exists(i) /\ ~IsUrl(rows[i])
                        /\ RescoreStarted(s, S)
UrlsRescored(s, S) == /\ \A i \in S : Exists(i) /\ IsUrl(rows[i])
                      /\ RescoreStarted(s, S)

\* The add pages store their values one by one, active at once, and then (if
\* auto-check is on) ask VirusTotal about each, from the copies they created.
EntryAdded(s, v, i, auto) ==
    /\ scan[s].job \in {"none", "adding"}
    /\ ~Listed(v, Null)
    /\ i \in Fresh
    /\ rows' = [rows EXCEPT ![i] = NewRow(v)]
    /\ LET checks == [job |-> "adding", todo |-> [scan[s].todo EXCEPT ![i] = NewRow(v)],
                      rule |-> 0]
       IN scan' = IF auto THEN [scan EXCEPT ![s] = checks] ELSE scan
    /\ UNCHANGED <<threshold, report, edit, crashes>>

\* The single form, the bulk form and the import of a file add to one list.
Checks(s, urls) == \A j \in Ids : scan[s].todo[j] # NoRow => IsUrl(scan[s].todo[j]) = urls

HashAdded(s, i, auto) == Checks(s, FALSE) /\ \E v \in Hashes : EntryAdded(s, v, i, auto)
UrlAdded(s, i, auto) == Checks(s, TRUE) /\ \E v \in Urls : EntryAdded(s, v, i, auto)

\* The rest of the job after row i.  An exception drops all of it, except in the
\* check of added rows, which never raises.
After(s, i, failed) ==
    LET job == IF scan[s].job = "adding" THEN "added" ELSE scan[s].job
        rest == [job |-> job, todo |-> [scan[s].todo EXCEPT ![i] = NoRow],
                 rule |-> scan[s].rule]
    IN scan' = [scan EXCEPT ![s] =
                  IF failed /\ job # "added" THEN IdleScan ELSE Settled(rest)]

\* save(update_fields) of one row; it raises when the row is gone.
ScanSave(s, i, a) ==
    LET failed == a.fields # {} /\ ~Exists(i)
    IN /\ rows' = IF a.fields = {} \/ failed THEN rows
                  ELSE [rows EXCEPT ![i] = Merge(@, a.row, a.fields)]
       /\ After(s, i, failed)
       /\ UNCHANGED <<threshold, report, edit, crashes>>

Querying(s, i) ==
    scan[s].job \in {"score", "adding", "added"} /\ scan[s].todo[i] # NoRow

\* The verdict for row i, applied to the copy loaded before the query.
RowScored(s, i, verdict) ==
    /\ Querying(s, i)
    /\ ScanSave(s, i, Scored(scan[s].todo[i], verdict, threshold))

\* Mutant of RowNotFound: the state URLs have, for hashes too.
NotFoundInEitherList(s, i) ==
    /\ Querying(s, i)
    /\ ScanSave(s, i, MarkedNotFound(scan[s].todo[i]))

\* VirusTotal has no record of row i: a score for a hash, a state for a URL.
RowNotFound(s, i) ==
    LET copy == scan[s].todo[i]
    IN /\ Querying(s, i)
       /\ ScanSave(s, i, IF IsUrl(copy) THEN MarkedNotFound(copy)
                         ELSE Scored(copy, Unknown, threshold))

\* No answer: the row stays as it is.
RowUnanswered(s, i) ==
    /\ Querying(s, i)
    /\ After(s, i, FALSE)
    /\ UNCHANGED <<rows, threshold, report, edit, crashes>>

\* The rows reapply_vt_threshold loads; none when the threshold is disabled.
Reevaluated(urls, t) ==
    {i \in Ids : t > 0 /\ Exists(i) /\ IsUrl(rows[i]) = urls /\ rows[i].checked}

\* Saving another threshold re-evaluates both lists within the request.
ThresholdSaved(s, raw) ==
    LET t == IF raw < 0 THEN 0 ELSE raw
    IN /\ scan[s] = IdleScan
       /\ t # threshold
       /\ threshold' = t
       /\ scan' = [scan EXCEPT ![s].job = "threshold"]
       /\ UNCHANGED <<rows, report, edit, crashes>>

\* First the hashes, with the threshold then in force ...
HashesLoaded(s) ==
    /\ scan[s].job = "threshold"
    /\ Start(s, "hashes", Reevaluated(FALSE, threshold), threshold)
    /\ UNCHANGED <<rows, threshold, report, edit, crashes>>

\* ... and when they are done the URLs, with the threshold read again.
UrlsLoaded(s) ==
    /\ scan[s].job = "hashes"
    /\ scan[s].todo = NothingToDo
    /\ Start(s, "urls", Reevaluated(TRUE, threshold), threshold)
    /\ UNCHANGED <<rows, threshold, report, edit, crashes>>

\* Mutant of Reapplied: pinned rows are not skipped.
ReappliedDespitePin(copy, t) ==
    LET active == copy.score # Null /\ copy.score.malicious >= t
    IN [row |-> [copy EXCEPT !.active = active],
        fields |-> IF active # copy.active THEN {"active"} ELSE {}]

\* The re-evaluation of one scored copy: pinned rows are skipped.
Reapplied(copy, t) ==
    LET active == copy.score.malicious >= t
    IN IF copy.pinned \/ copy.active = active THEN [row |-> copy, fields |-> {}]
       ELSE [row |-> [copy EXCEPT !.active = active], fields |-> {"active"}]

\* A copy checked but without a score (a URL not in VirusTotal) compares None
\* with the threshold: the exception ends the whole re-evaluation.
RowReapplied(s, i) ==
    LET copy == scan[s].todo[i]
    IN /\ scan[s].job \in {"hashes", "urls"}
       /\ copy # NoRow
       /\ IF ~copy.pinned /\ copy.score = Null
          THEN After(s, i, TRUE) /\ UNCHANGED <<rows, threshold, report, edit, crashes>>
          ELSE ScanSave(s, i, Reapplied(copy, scan[s].rule))

ScanStep(s) ==
    \/ \E unchecked \in BOOLEAN : HashesRefreshed(s, unchecked) \/ UrlsRefreshed(s, unchecked)
    \/ \E S \in RescorePicks : HashesRescored(s, S) \/ UrlsRescored(s, S)
    \/ \E raw \in Thresholds : ThresholdSaved(s, raw)
    \/ \E i \in Ids, auto \in BOOLEAN : HashAdded(s, i, auto) \/ UrlAdded(s, i, auto)
    \/ HashesLoaded(s)
    \/ UrlsLoaded(s)
    \/ \E i \in Ids : \/ \E verdict \in Verdicts : RowScored(s, i, verdict)
                      \/ RowNotFound(s, i)
                      \/ RowUnanswered(s, i)
                      \/ RowReapplied(s, i)

-----------------------------------------------------------------------------
(* The operators' pages and the retention job *)

EntryLoaded(e, i) ==
    /\ edit[e].pc = "idle"
    /\ Exists(i)
    /\ edit' = [edit EXCEPT ![e] = [pc |-> "loaded", id |-> i, copy |-> rows[i]]]
    /\ UNCHANGED <<rows, threshold, report, scan, crashes>>

\* The edit page saves the whole copy under its new value; the verdict, which is
\* the old value's, stays.  The list it belongs to does not change.
EntryEdited(e, v) ==
    LET copy == edit[e].copy
    IN /\ edit[e].pc = "loaded"
       /\ IsUrl(copy) = (v \in Urls)
       /\ rows' = IF Listed(v, edit[e].id) THEN rows
                  ELSE [rows EXCEPT ![edit[e].id] = [copy EXCEPT !.value = v]]
       /\ edit' = [edit EXCEPT ![e] = IdleEdit]
       /\ UNCHANGED <<threshold, report, scan, crashes>>

\* Only rows that were inactive when they were looked up are deleted.
EntryDeleted(e) ==
    /\ edit[e].pc = "loaded"
    /\ rows' = IF edit[e].copy.active THEN rows
               ELSE [rows EXCEPT ![edit[e].id] = NoRow]
    /\ edit' = [edit EXCEPT ![e] = IdleEdit]
    /\ UNCHANGED <<threshold, report, scan, crashes>>

\* Bulk pages change the rows in one statement ...
EntrySwitched(e, i, on) ==
    /\ edit[e].pc = "idle"
    /\ Exists(i)
    /\ rows' = [rows EXCEPT ![i].active = on]
    /\ UNCHANGED <<threshold, report, scan, edit, crashes>>

EntryPinned(e, i, on) ==
    /\ edit[e].pc = "idle"
    /\ Exists(i)
    /\ rows' = [rows EXCEPT ![i].pinned = on]
    /\ UNCHANGED <<threshold, report, scan, edit, crashes>>

\* ... the others save one column of the row they loaded, if it is still there.
LoadedSwitched(e, on) ==
    LET i == edit[e].id
    IN /\ edit[e].pc = "loaded"
       /\ rows' = IF Exists(i) THEN [rows EXCEPT ![i].active = on] ELSE rows
       /\ edit' = [edit EXCEPT ![e] = IdleEdit]
       /\ UNCHANGED <<threshold, report, scan, crashes>>

\* The pin becomes the opposite of what the page loaded.
LoadedToggled(e) ==
    LET i == edit[e].id
    IN /\ edit[e].pc = "loaded"
       /\ rows' = IF Exists(i) THEN [rows EXCEPT ![i].pinned = ~edit[e].copy.pinned] ELSE rows
       /\ edit' = [edit EXCEPT ![e] = IdleEdit]
       /\ UNCHANGED <<threshold, report, scan, crashes>>

HashEdited(e) == \E v \in Hashes : EntryEdited(e, v)
UrlEdited(e) == \E v \in Urls : EntryEdited(e, v)
HashDeleted(e) == ~IsUrl(edit[e].copy) /\ EntryDeleted(e)
UrlDeleted(e) == IsUrl(edit[e].copy) /\ EntryDeleted(e)
HashSwitched(e, on) ==
    \/ ~IsUrl(edit[e].copy) /\ LoadedSwitched(e, on)
    \/ \E i \in Ids : ~IsUrl(rows[i]) /\ EntrySwitched(e, i, on)
UrlSwitched(e, on) ==
    \/ IsUrl(edit[e].copy) /\ LoadedSwitched(e, on)
    \/ \E i \in Ids : IsUrl(rows[i]) /\ EntrySwitched(e, i, on)
HashToggled(e) == ~IsUrl(edit[e].copy) /\ LoadedToggled(e)
UrlToggled(e) == IsUrl(edit[e].copy) /\ LoadedToggled(e)
HashPinned(e, on) == \E i \in Ids : ~IsUrl(rows[i]) /\ EntryPinned(e, i, on)
UrlPinned(e, on) == \E i \in Ids : IsUrl(rows[i]) /\ EntryPinned(e, i, on)

EditStep(e) ==
    \/ \E i \in Ids : EntryLoaded(e, i)
    \/ HashEdited(e) \/ UrlEdited(e)
    \/ HashDeleted(e) \/ UrlDeleted(e) \/ HashToggled(e) \/ UrlToggled(e)
    \/ \E on \in BOOLEAN : \/ HashSwitched(e, on) \/ UrlSwitched(e, on)
                           \/ HashPinned(e, on) \/ UrlPinned(e, on)

\* run_cleanup deletes inactive rows of the configured score range once they
\* are old enough (the model keeps no added_at: at any time, row by row).
Purged(i) ==
    /\ Exists(i)
    /\ ~rows[i].active
    /\ rows[i].score # Null /\ rows[i].score.malicious \in PurgeScores
    /\ rows' = [rows EXCEPT ![i] = NoRow]
    /\ UNCHANGED <<threshold, report, scan, edit, crashes>>

HashPurged(i) == ~IsUrl(rows[i]) /\ Purged(i)
UrlPurged(i) == IsUrl(rows[i]) /\ Purged(i)

\* A restart loses every task in flight.
Crash ==
    /\ crashes < MaxCrashes
    /\ crashes' = crashes + 1
    /\ report' = [w \in Reporters |-> IdleReport]
    /\ scan' = [s \in Scanners |-> IdleScan]
    /\ edit' = [e \in Editors |-> IdleEdit]
    /\ UNCHANGED <<rows, threshold>>

-----------------------------------------------------------------------------
Init ==
    /\ rows = NothingToDo
    /\ threshold \in {raw \in Thresholds : raw >= 0}
    /\ report = [w \in Reporters |-> IdleReport]
    /\ scan = [s \in Scanners |-> IdleScan]
    /\ edit = [e \in Editors |-> IdleEdit]
    /\ crashes = 0

Next ==
    \/ \E w \in Reporters : ReportStep(w)
    \/ \E s \in Scanners : ScanStep(s)
    \/ \E e \in Editors : EditStep(e)
    \/ \E i \in Ids : HashPurged(i) \/ UrlPurged(i)
    \/ Crash

Spec == Init /\ [][Next]_vars

=============================================================================
