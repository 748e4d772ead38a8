----------------------------- MODULE BackupProps -----------------------------
(***************************************************************************)
(* What backups are required to do, stated over Backup.                    *)
(***************************************************************************)
EXTENDS Backup

\* A complete copy of the database is in the directory.
Recoverable == \E p \in DOMAIN files : files[p].whole

\* A call that no other overlapped keeps its word when it reports success: its
\* own complete copy is there, and no more files than the settings allow beside
\* those the system refused it to remove, whatever dead, failed and overlapping
\* calls left behind (run_backup, _apply_max_count: success is reported with
\* those files still there).  Only a call that took longer than the days a
\* backup is kept removes its own.
Names == {files[p].name : p \in DOMAIN files}
Aged(r) == policy.days # 0 /\ run[r].name + policy.days < clock
AloneKeepsPromise ==
    [][\A r \in Runners :
         /\ run[r].alone /\ ~Aged(r)
         /\ run[r].pc = "removing" /\ run'[r].pc = "idle" /\ partials' = partials
         => /\ \E p \in Positions(run[r].name) : files[p].whole
            /\ policy.count # 0
                 => Cardinality(Names \ run[r].stuck) <= policy.count]_backupVars

\* Overlapping calls that prune each other's files do not lose the last backup
\* as long as nothing ages, no two of them began in the same second, and the
\* limit has room for the partial files of calls that were killed, or failed and
\* could not remove them, which count as backups, and for all calls under way;
\* from three calls on, also for those finished since, whose copies another call
\* has already listed (_apply_max_count).
RoomForAll ==
    LET calls == Cardinality(Runners) IN
    \/ policy.count = 0
    \/ /\ policy.count >= calls + partials
       /\ policy.count >= 2 * (calls - 1) + partials
BackupRemains ==
    reported /\ policy.days = 0 /\ ~shared /\ RoomForAll => Recoverable
==============================================================================
