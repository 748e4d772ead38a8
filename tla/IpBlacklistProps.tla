---------------------------- MODULE IpBlacklistProps ---------------------------
(***************************************************************************)
(* What the IP blacklist is required to do, stated over IpBlacklist.       *)
(***************************************************************************)
EXTENDS IpBlacklist

CopyOrNone == Row \cup {NoRow}

TypeReport == [pc : {"idle", "querying", "scored", "found", "absent", "created", "stored"},
               cidr : Cidrs \cup {Null}, score : Scores \cup {Null},
               group : Groups \cup {Null}, id : Ids \cup {Null},
               copy : CopyOrNone, dups : SUBSET Ids]
TypeScan == [job : {"none", "score", "bands", "promotion"},
             todo : [Ids -> CopyOrNone], rule : Settings \cup {Null}]
TypeSweep == [job : {"none", "off", "on"}, cidrs : SUBSET Cidrs,
              todo : [Ids -> CopyOrNone]]
TypeEdit == [pc : {"idle", "loaded", "imported"}, id : Ids \cup {Null}, copy : CopyOrNone]
TypeFeed == [pc : {"idle", "read", "served"}, out : SUBSET Cidrs]

\* Every variable and every in-memory copy stays in its domain; a row that some
\* save wrote is always a complete row (BlacklistEntry's columns).
TypeOK ==
    /\ now \in Times
    /\ rows \in [Ids -> CopyOrNone]
    /\ wl \in [Cidrs -> {"absent", "inactive", "active"}]
    /\ settings \in Settings
    /\ report \in [Reporters -> TypeReport]
    /\ scan \in [Scanners -> TypeScan]
    /\ sweep \in [Sweepers -> TypeSweep]
    /\ edit \in [Editors -> TypeEdit]
    /\ feed \in [Readers -> TypeFeed]
    /\ steady \in [Readers -> SUBSET Cidrs]
    /\ expired \in SUBSET Ids
    /\ filed \in Nat
    /\ crashes \in Nat

-----------------------------------------------------------------------------
(* Safety *)

\* A response of the feed never contains a network that overlaps a whitelist
\* entry which was active during the whole request (get_blacklist). The sweep
\* alone does not give this: a report that passed its whitelist check before
\* the entry was added publishes its row after the sweep.
FeedRespectsWhitelist ==
    \A f \in Readers : feed[f].pc = "served" =>
        \A c \in feed[f].out, d \in steady[f] : ~Overlaps(c, d)

\* No row is ever due to expire later than the longest group's duration from
\* now, whatever stale copies were saved over it (set_expiry_from_group).
ExpiryBounded ==
    \A i \in Ids : Exists(i) /\ rows[i].expires # Null =>
        rows[i].expires <= now + Duration["30d"]

\* A published row without expiry is blocked for ever. It only exists while the
\* request that is creating it still owes its second save (report_ip). True of
\* overlapping reports, the refresh and the cleanup; a restart, or a longer
\* overlap of pages and jobs over two rows of an address, can break it.
NoPermanentBlock ==
    \A i \in Ids : Exists(i) /\ rows[i].active /\ rows[i].expires = Null
                   /\ rows[i].group \in Published =>
        \/ \E w \in Reporters : report[w].pc = "created" /\ report[w].id = i
        \/ \E e \in Editors : edit[e].pc = "imported" /\ edit[e].id = i

-----------------------------------------------------------------------------
(* Action properties *)

\* A step that writes the score of row i, by a scan or at the end of a report.
ScoreWritten(i) ==
    \/ \E s \in Scanners : /\ scan[s].job = "score"
                           /\ scan[s].todo[i] # NoRow
                           /\ scan'[s].todo[i] = NoRow
    \/ \E w \in Reporters : /\ report[w].pc = "stored"
                            /\ report[w].id = i
                            /\ report'[w].pc = "idle"

\* A score applied to a copy loaded before a slow query undoes nothing of what
\* happened to the row meanwhile: pins, recorded hits and the cidr stay, a row
\* deactivated stays so, and a row deleted stays away (_apply_score_to_entry).
ScoringNeverUndoes ==
    [][\A i \in Ids : ScoreWritten(i) =>
         IF Exists(i)
         THEN /\ rows'[i] # NoRow
              /\ rows'[i].pinned = rows[i].pinned
              /\ rows'[i].hits = rows[i].hits
              /\ rows'[i].cidr = rows[i].cidr
              /\ rows'[i].active => rows[i].active
         ELSE rows'[i] = NoRow]_vars

\* A row that was pinned when a refresh, rescore or threshold sweep loaded it
\* keeps its group, its state and its expiry through that job.
PinHeldThroughScan ==
    [][\A s \in Scanners, i \in Ids :
         /\ scan[s].todo[i] # NoRow
         /\ scan'[s].todo[i] = NoRow
         /\ scan[s].todo[i].pinned
         /\ Exists(i) /\ rows'[i] # NoRow
         => /\ rows'[i].group = rows[i].group
            /\ rows'[i].active = rows[i].active
            /\ rows'[i].expires = rows[i].expires]_vars

\* A report that finds rows of its cidr leaves exactly one, in the group its
\* score asks for, unless a row it did not see appeared after its lookup.
ReportCollapses ==
    [][\A w \in Reporters :
         LET r == report[w]
             of(table) == {i \in Ids : table[i] # NoRow /\ table[i].cidr = r.cidr}
         IN /\ r.pc = "found"
            /\ report'[w].pc \in {"idle", "stored"}
            /\ crashes' = crashes
            /\ of(rows) \subseteq r.dups \cup {r.id}
            => of(rows') = {r.id} /\ rows'[r.id].group = r.group]_vars

-----------------------------------------------------------------------------
(* Liveness, under the fairness of the threads that serve and of the scheduler *)

\* A request under way: every step of a report but its arrival.
Serving(w) ==
    \/ \E score \in Scores \cup {Null} : ReportScored(w, score)
    \/ \E i \in Ids : ReportFound(w, i) \/ ReportCreated(w, i)
    \/ ReportAbsent(w) \/ ReportRefreshed(w) \/ ReportCompleted(w) \/ ReportApplied(w)

Fairness ==
    /\ \A w \in Reporters : WF_vars(Serving(w))
    /\ WF_vars(CleanupRead)
    /\ WF_vars(CleanupWrite)

FairSpec == Spec /\ Fairness

\* Every expired row is retired: deactivated, renewed or removed.
ExpiredRetired ==
    \A i \in Ids :
        (Exists(i) /\ rows[i].active /\ rows[i].expires # Null /\ rows[i].expires < now)
          ~> ~(Exists(i) /\ rows[i].active /\ rows[i].expires # Null /\ rows[i].expires < now)

\* Every report is answered, whatever the others do to its row meanwhile.
ReportsAnswered ==
    \A w \in Reporters : (report[w].pc # "idle") ~> (report[w].pc = "idle")

=============================================================================
