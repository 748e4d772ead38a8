------------------------------- MODULE MCBackup -------------------------------
(***************************************************************************)
(* Small instances of Backup for TLC.                                      *)
(***************************************************************************)
EXTENDS BackupProps, TLC

Keep(days, count) == [scheduled |-> TRUE, days |-> days, count |-> count]
AllPolicies == {Keep(0, 1), Keep(0, 2), Keep(0, 3),
                [Keep(1, 1) EXCEPT !.scheduled = FALSE], Keep(1, 1)}
==============================================================================
