---------------------------- MODULE MCVerdictList ----------------------------
(***************************************************************************)
(* Small instances of VerdictList for TLC.                                 *)
(***************************************************************************)
EXTENDS VerdictListProps, TLC

\* A value VirusTotal knows nothing about and one that seven of nine engines flag.
Flagged == [malicious |-> 7, total |-> 9]
UnknownAndFlagged == {Unknown, Flagged}

\* Saved thresholds: one Flagged reaches, and 0 for "disabled".
OrDisabled == {0, 5}

AnyPick == SUBSET Ids

\* Reports end and the process restarts once each: what follows, and reports that
\* race the refreshes, are explored by MCRetiring, without operators.
NoReportEnds == \A w \in Reporters : report'[w] = IdleReport => report[w] = IdleReport
NoRestart == crashes = 0
NoRaces == (\E w \in Reporters : report[w] # IdleReport)
             => \A s \in Scanners : scan[s] = IdleScan

IdSymmetry == Permutations(Ids)
==============================================================================
