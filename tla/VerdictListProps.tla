--------------------------- MODULE VerdictListProps ---------------------------
(***************************************************************************)
(* What the hash and URL lists are required to do, stated over VerdictList. *)
(***************************************************************************)
EXTENDS VerdictList

\* Every variable and every in-memory copy stays in its domain, and only URLs
\* are ever marked as not in VirusTotal (HashEntry has no such column).
TypeOK ==
    /\ rows \in [Ids -> Row \cup {NoRow}]
    /\ threshold \in Nat
    /\ report \in [Reporters -> [pc : {"idle", "querying", "refreshed"},
                                 id : Ids \cup {Null}, copy : Row \cup {NoRow},
                                 verdict : Verdicts \cup {Null}]]
    /\ scan \in [Scanners -> [job : {"none", "score", "adding", "added",
                                     "threshold", "hashes", "urls"},
                              todo : [Ids -> Row \cup {NoRow}], rule : Nat]]
    /\ edit \in [Editors -> [pc : {"idle", "loaded"}, id : Ids \cup {Null},
                             copy : Row \cup {NoRow}]]
    /\ crashes \in Nat
    /\ \A i \in Ids : Exists(i) /\ rows[i].notFound => IsUrl(rows[i])

\* Scanner s finishes row i in this step, by itself (no restart).
Finishes(s, i) ==
    /\ crashes' = crashes
    /\ scan[s].todo[i] # NoRow
    /\ scan'[s].todo[i] = NoRow

\* An operator's decision made while a verdict was on its way stands: when a row
\* was switched on or off after a scan loaded it, the scan's save leaves it so
\* (_apply_score_to_entry and reapply_vt_threshold write is_active only when it
\* differs from the copy).  A deleted row stays away, a pin stays set.
OperatorWins ==
    [][\A s \in Scanners, i \in Ids : Finishes(s, i) =>
         IF Exists(i)
         THEN /\ rows'[i] # NoRow
              /\ rows'[i].pinned = rows[i].pinned
              /\ rows'[i].value = rows[i].value
              /\ rows[i].active # scan[s].todo[i].active => rows'[i].active = rows[i].active
         ELSE rows'[i] = NoRow]_vars

\* A row that was pinned when a refresh, a rescore or a re-evaluation loaded it
\* is neither activated nor deactivated by that job (HashEntry.is_pinned).
PinHeld ==
    [][\A s \in Scanners, i \in Ids :
         Finishes(s, i) /\ scan[s].todo[i].pinned /\ Exists(i) /\ rows'[i] # NoRow
         => rows'[i].active = rows[i].active]_vars

-----------------------------------------------------------------------------
(* Liveness *)

Answered(s, i) == RowNotFound(s, i) \/ \E verdict \in Verdicts : RowScored(s, i, verdict)

\* The scheduler starts a refresh of each list again and again, every job goes on
\* from row to row, and a row asked about again and again is answered in the end.
Fairness ==
    /\ SF_vars(\E s \in Scanners : HashesRefreshed(s, FALSE))
    /\ SF_vars(\E s \in Scanners : UrlsRefreshed(s, FALSE))
    /\ \A s \in Scanners : WF_vars(\E i \in Ids : Answered(s, i) \/ RowUnanswered(s, i))
    /\ \A s \in Scanners, i \in Ids : SF_vars(Answered(s, i))
    /\ \A s \in Scanners : WF_vars(\/ HashesLoaded(s) \/ UrlsLoaded(s)
                                   \/ \E i \in Ids : RowReapplied(s, i))

FairSpec == Spec /\ Fairness

\* Pinned rows are left out: the refresh passes them by.
Hidden(i) == /\ Exists(i) /\ rows[i].active /\ ~rows[i].pinned
             /\ i \notin HashFeed \cup UrlFeed

\* A row hidden because VirusTotal could not be reached does not stay hidden: a
\* later refresh scores it or finds it unknown (HashEntry.vt_unavailable: "until
\* a valid score arrives").
HiddenReturns == \A i \in Ids : Hidden(i) ~> ~Hidden(i)
=============================================================================
