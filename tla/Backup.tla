-------------------------------- MODULE Backup --------------------------------
(***************************************************************************)
(* Database backups: run_backup is called by the scheduler, by the button   *)
(* of the settings page and by the backup_db command, and nothing keeps two *)
(* calls apart.  They meet in the directory: each copies the database into  *)
(* a file named after the second it began in, and then prunes by age and by *)
(* number whatever matches the pattern, other runs' unfinished files too.   *)
(***************************************************************************)
EXTENDS Naturals, SequencesExt

CONSTANTS
    Runners,     \* calls of run_backup that may be under way at a time ...
    Scheduler,   \* ... the one among them the scheduler makes
    Policies,    \* settings: backups are scheduled, days and number to keep (0: any)
    MaxTime,     \* bound on the clock
    MaxRuns,     \* bound on the backups begun
    MaxPartials, \* bound on the calls that end without removing what they wrote
    MaxStuck     \* bound on the extra files a call is refused the removal of

ASSUME BackupAssumption ==
    /\ MaxTime \in Nat /\ MaxRuns \in Nat /\ MaxPartials \in Nat /\ MaxStuck \in Nat
    /\ IsFiniteSet(Runners) /\ Scheduler \in Runners
    /\ Policies \subseteq [scheduled : BOOLEAN, days : Nat, count : Nat]

VARIABLES
    clock,    \* the seconds file names are made of, and the days they age by
    policy,   \* settings in force
    files,    \* the directory, in the order of modification times
    run,      \* per runner: where its call of run_backup is
    begun,    \* backups begun (bound)
    partials, \* calls killed, or failed and refused the removal of their file (bound)
    shared,   \* history: two backups were begun in the same second
    reported  \* history: a backup was reported as created

backupVars == <<clock, policy, files, run, begun, partials, shared, reported>>

\* alone: no other call was under way at any time of this one.
\* extras: names a pruning loop has still to visit; since: when the first began.
\* stuck: history, the extra files whose removal was refused.
NotRunning == [pc |-> "idle", name |-> 0, extras |-> {}, since |-> 0, stuck |-> {},
               alone |-> TRUE]
Ended(r) == [run EXCEPT ![r] = NotRunning]
Running(r) == run[r].pc # "idle"

Positions(n) == {p \in DOMAIN files : files[p].name = n}
Present(n) == Positions(n) # {}
Without(n) == IF Present(n) THEN RemoveAt(files, CHOOSE p \in Positions(n) : TRUE) ELSE files

\* A file is written: it becomes the most recently modified one.
Touched(f) == Append(Without(f.name), f)

-----------------------------------------------------------------------------
BackupBegan(r) ==
    /\ ~Running(r) /\ begun < MaxRuns
    /\ begun' = begun + 1
    /\ shared' = (shared \/ Present(clock) \/ \E q \in Runners : Running(q) /\ run[q].name = clock)
    /\ run' = [q \in Runners |->
                 IF q = r
                 THEN [NotRunning EXCEPT !.pc = "opening", !.name = clock,
                                         !.alone = ~\E o \in Runners : Running(o)]
                 ELSE [run[q] EXCEPT !.alone = @ /\ ~Running(q)]]
    /\ UNCHANGED <<clock, policy, files, partials, reported>>

\* _run_db_backup; APScheduler starts no job that is still running.
ScheduledBackup == policy.scheduled /\ BackupBegan(Scheduler)

\* backup_now, the button of the settings page.
BackupNow(r) == r # Scheduler /\ BackupBegan(r)

\* The backup_db command, from cron or a shell.
BackupCommand(r, force) ==
    /\ r # Scheduler
    /\ force \/ policy.scheduled
    /\ BackupBegan(r)

\* sqlite3.connect: a new empty file, or the one another run of this second has.
FileOpened(r) ==
    LET n == run[r].name IN
    /\ run[r].pc = "opening"
    /\ run' = [run EXCEPT ![r].pc = "copying"]
    /\ files' = IF Present(n)
                THEN [p \in DOMAIN files |->
                        IF files[p].name = n THEN [files[p] EXCEPT !.open = @ \cup {r}]
                        ELSE files[p]]
                ELSE Append(files, [name |-> n, day |-> clock, whole |-> FALSE, open |-> {r}])
    /\ UNCHANGED <<clock, policy, begun, partials, shared, reported>>

\* Part of the copy reaches the file (whole: all of it), if it is still there.
Written(r, whole) ==
    LET mine == {p \in Positions(run[r].name) : r \in files[p].open} IN
    files' = IF mine = {} THEN files
             ELSE LET f == files[CHOOSE p \in mine : TRUE]
                  IN Touched([f EXCEPT !.day = clock, !.whole = @ \/ whole,
                                       !.open = IF whole THEN @ \ {r} ELSE @])

CopySpilled(r) ==
    /\ run[r].pc = "copying"
    /\ Written(r, FALSE)
    /\ UNCHANGED <<clock, policy, run, begun, partials, shared, reported>>

CopyFinished(r) ==
    /\ run[r].pc = "copying"
    /\ Written(r, TRUE)
    /\ run' = [run EXCEPT ![r].pc = "copied"]
    /\ UNCHANGED <<clock, policy, begun, partials, shared, reported>>

\* Any error while opening or copying: the file of that name goes, whoever wrote it.
CopyFailed(r) ==
    /\ run[r].pc \in {"opening", "copying"}
    /\ files' = Without(run[r].name)
    /\ run' = Ended(r)
    /\ UNCHANGED <<clock, policy, begun, partials, shared, reported>>

\* Or stays, when its removal is refused in turn (the connection of this call is
\* still open): the error is swallowed, and the file counts as a backup.
CopyStayed(r) ==
    /\ run[r].pc \in {"opening", "copying"} /\ Present(run[r].name)
    /\ partials < MaxPartials
    /\ partials' = partials + 1
    /\ run' = Ended(r)
    /\ UNCHANGED <<clock, policy, files, begun, shared, reported>>

\* dest.stat(): outside every try, it raises when the file is gone.
FileMeasured(r) ==
    /\ run[r].pc = "copied"
    /\ run' = IF Present(run[r].name) THEN [run EXCEPT ![r].pc = "aging"] ELSE Ended(r)
    /\ UNCHANGED <<clock, policy, files, begun, partials, shared, reported>>

\* What a call that prunes by age now may remove.  A file written later than that
\* is only younger, so that those too young already are passed over whenever the
\* loop comes to them.
Expired == {files[p].name : p \in {q \in DOMAIN files : files[q].day + policy.days < clock}}

\* _apply_retention takes the time and lists the directory ...
FilesListed(r) ==
    /\ run[r].pc = "aging"
    /\ run' = [run EXCEPT ![r].pc = "expiring",
                          ![r].extras = IF policy.days = 0 THEN {} ELSE Expired,
                          ![r].since = IF policy.days = 0 THEN 0 ELSE clock]
    /\ UNCHANGED <<clock, policy, files, begun, partials, shared, reported>>

\* ... and removes them file by file, unless another call has written to one.
FileAged(r, n) ==
    /\ run[r].pc = "expiring" /\ n \in run[r].extras
    /\ files' = IF \E p \in Positions(n) : files[p].day + policy.days < run[r].since
                THEN Without(n) ELSE files
    /\ run' = [run EXCEPT ![r].extras = @ \ {n}]
    /\ UNCHANGED <<clock, policy, begun, partials, shared, reported>>

\* A removal that is refused is logged, and the loop goes on.
AgedStayed(r, n) ==
    /\ run[r].pc = "expiring" /\ n \in run[r].extras
    /\ run' = [run EXCEPT ![r].extras = @ \ {n}]
    /\ UNCHANGED <<clock, policy, files, begun, partials, shared, reported>>

\* Mutant of Extras: the sort is not reversed, the oldest are kept.
NewestExtras == {files[p].name : p \in {q \in DOMAIN files : q > policy.count}}

\* Mutant of Extras: off by one.
OneExtraMore == {files[p].name : p \in {q \in DOMAIN files : q + policy.count <= Len(files) + 1}}

\* All but the most recent policy.count.
Extras == {files[p].name : p \in {q \in DOMAIN files : q + policy.count <= Len(files)}}

\* _apply_max_count sorts what the directory holds ...
FilesSorted(r) ==
    /\ run[r].pc = "expiring" /\ run[r].extras = {}
    /\ run' = [run EXCEPT ![r].pc = "removing", ![r].since = 0,
                          ![r].extras = IF policy.count = 0 THEN {} ELSE Extras]
    /\ UNCHANGED <<clock, policy, files, begun, partials, shared, reported>>

\* ... unless another run removes a file that is listed and not yet looked at.
SortFailed(r) ==
    /\ run[r].pc = "expiring" /\ run[r].extras = {} /\ ~run[r].alone
    /\ run' = [run EXCEPT ![r].pc = "removing", ![r].since = 0]
    /\ UNCHANGED <<clock, policy, files, begun, partials, shared, reported>>

\* The extra files go one by one, by name.
ExtraRemoved(r, n) ==
    /\ run[r].pc = "removing" /\ n \in run[r].extras
    /\ files' = Without(n)
    /\ run' = [run EXCEPT ![r].extras = @ \ {n}]
    /\ UNCHANGED <<clock, policy, begun, partials, shared, reported>>

\* One that is refused is logged, and the loop goes on.
ExtraStayed(r, n) ==
    /\ run[r].pc = "removing" /\ n \in run[r].extras /\ Present(n)
    /\ Cardinality(run[r].stuck) < MaxStuck
    /\ run' = [run EXCEPT ![r].extras = @ \ {n}, ![r].stuck = @ \cup {n}]
    /\ UNCHANGED <<clock, policy, files, begun, partials, shared, reported>>

\* The caller is told of success, whatever could not be removed.
BackupReported(r) ==
    /\ run[r].pc = "removing" /\ run[r].extras = {}
    /\ run' = Ended(r)
    /\ reported' = TRUE
    /\ UNCHANGED <<clock, policy, files, begun, partials, shared>>

\* The process dies: what it has written stays in the directory, and counts.
RunnerDied(r) ==
    /\ Running(r) /\ partials < MaxPartials
    /\ partials' = partials + 1
    /\ run' = Ended(r)
    /\ UNCHANGED <<clock, policy, files, begun, shared, reported>>

ClockTicked ==
    /\ clock < MaxTime
    /\ clock' = clock + 1
    /\ UNCHANGED <<policy, files, run, begun, partials, shared, reported>>

BackupInit ==
    /\ clock = 0 /\ begun = 0 /\ partials = 0
    /\ policy \in Policies
    /\ files = <<>>
    /\ run = [r \in Runners |-> NotRunning]
    /\ shared = FALSE /\ reported = FALSE

BackupNext ==
    \/ ScheduledBackup
    \/ \E r \in Runners :
         \/ BackupNow(r) \/ \E force \in BOOLEAN : BackupCommand(r, force)
         \/ FileOpened(r) \/ CopySpilled(r) \/ CopyFinished(r)
         \/ CopyFailed(r) \/ CopyStayed(r) \/ FileMeasured(r) \/ FilesListed(r) \/ FilesSorted(r)
         \/ SortFailed(r) \/ BackupReported(r) \/ RunnerDied(r)
         \/ \E n \in 0 .. MaxTime : \/ FileAged(r, n) \/ AgedStayed(r, n)
                                 \/ ExtraRemoved(r, n) \/ ExtraStayed(r, n)
    \/ ClockTicked

BackupSpec == BackupInit /\ [][BackupNext]_backupVars
==============================================================================
