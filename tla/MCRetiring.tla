------------------------------ MODULE MCRetiring ------------------------------
(***************************************************************************)
(* Small instances of IpBlacklist and of VerdictList for what must happen   *)
(* in the end to the rows of either.  The lists share no state: a behaviour *)
(* is one of the first or one of the second, the other stays as it began.  *)
(***************************************************************************)
EXTENDS MCIpBlacklist

CONSTANTS
    Hashes, Urls, Verdicts, Thresholds, EntryIds, Senders, Checkers, MalwareCounts,
    Restarts

VARIABLES
    list,                                               \* the list that moves
    entries, threshold, request, check, page, restarts  \* VerdictList's variables

verdictVars == <<entries, threshold, request, check, page, restarts>>
bothVars == <<vars, verdictVars, list>>

Vl == INSTANCE VerdictListProps
        WITH rows <- entries, report <- request, scan <- check, edit <- page,
             crashes <- restarts, Ids <- EntryIds, Reporters <- Senders,
             Scanners <- Checkers, Editors <- {}, RescorePicks <- {},
             PurgeScores <- MalwareCounts, MaxCrashes <- Restarts

\* A value VirusTotal knows nothing about and one that seven of nine engines flag.
Found(malicious, total) == [malicious |-> malicious, total |-> total]
UnknownAndFlagged == {Found(0, 0), Found(7, 9)}

BothNext ==
    /\ UNCHANGED list
    /\ \/ list = "addresses" /\ Next /\ UNCHANGED verdictVars
       \/ list = "verdicts" /\ Vl!Next /\ UNCHANGED vars

\* Each list under its own fairness.
FairBothSpec ==
    /\ Init /\ Vl!Init /\ list \in {"addresses", "verdicts"}
    /\ [][BothNext]_bothVars
    /\ list = "addresses" => Fairness
    /\ list = "verdicts" => Vl!Fairness

HiddenReturns == Vl!HiddenReturns
==============================================================================
