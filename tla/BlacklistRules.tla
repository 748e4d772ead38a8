---------------------------- MODULE BlacklistRules ----------------------------
(***************************************************************************)
(* The rules that decide where a blacklist row belongs: the severity bands *)
(* of AbuseIPDB scores, the 24h -> 30d promotion, the expiry of a group,   *)
(* what a save() of a BlacklistEntry writes, and the two re-evaluations    *)
(* built from them (a fresh score, a changed threshold).                   *)
(*                                                                         *)
(* Everything here is a pure operator of a row, a score, the settings and  *)
(* the time; IpBlacklist runs them concurrently.                           *)
(***************************************************************************)
EXTENDS Integers, FiniteSets

CONSTANTS
    Cidrs,        \* networks a row or a whitelist entry may name
    Scores,       \* AbuseIPDB confidence scores that may come back
    MaxTime,      \* bound of the model's clock
    Duration,     \* default_duration_hours of every group, in clock ticks
    Window,       \* promotion window (settings), in clock ticks
    StoredDays,   \* horizon after which a recorded hit is forgotten
    Null,         \* SQL NULL / None
    NoRow         \* an id without a row

Groups == {"24h", "30d", "no_group"}
Published == {"24h", "30d"}
Times == 0 .. MaxTime

ASSUME ScoresAssumption == Scores \subseteq 0 .. 100

ASSUME TimeAssumption ==
    /\ MaxTime \in Nat
    /\ Window \in Nat
    /\ StoredDays \in Nat

\* Migrations and seeds give the published groups a duration and no_group none.
ASSUME DurationAssumption ==
    /\ DOMAIN Duration = Groups
    /\ \A g \in Published : Duration[g] \in Nat
    /\ Duration["no_group"] = Null
    /\ Duration["24h"] <= Duration["30d"]

ASSUME NullAssumption == Null \notin Int

\* One BlacklistEntry. hits counts the API reports recorded at each tick.
Row == [cidr : Cidrs, group : Groups, active : BOOLEAN, pinned : BOOLEAN,
        score : Scores \cup {Null}, expires : Nat \cup {Null},
        hits : [Times -> Nat]]

ASSUME NoRowAssumption == NoRow \notin Row

NoHits == [t \in Times |-> 0]

\* What an administrator may type in, and what the rules work with.
RawSettings == [t24h : Int, t30d : Int, promotion : Nat]
Settings == [t24h : 0 .. 100, t30d : 0 .. 100, promotion : Nat]

-----------------------------------------------------------------------------
(* Severity bands *)

Lower(a, b) == IF a <= b THEN a ELSE b
Higher(a, b) == IF a <= b THEN b ELSE a

\* The thresholds as stored, forced into 0..100 and the 24h one below the other.
Clamped(raw) ==
    LET t30d == Higher(0, Lower(100, raw.t30d))
    IN [raw EXCEPT !.t24h = Higher(0, Lower(t30d - 1, raw.t24h)), !.t30d = t30d]

\* The published group a score belongs to; Null below the 24h threshold.
GroupByScore(score, s) ==
    IF score >= s.t30d THEN "30d"
    ELSE IF score >= s.t24h THEN "24h"
    ELSE Null

-----------------------------------------------------------------------------
(* Report history and promotion *)

RecordedHit(hits, t) ==
    [u \in Times |-> (IF u >= t - StoredDays THEN hits[u] ELSE 0)
                     + (IF u = t THEN 1 ELSE 0)]

\* Reports stamped at tick u are numbered 1..hits[u].
RecentHits(hits, t) ==
    Cardinality(UNION {{u} \X (1 .. hits[u]) :
                         u \in {v \in Times : v >= t - Window}})

Promoted(row, s, t) ==
    /\ s.promotion > 0
    /\ RecentHits(row.hits, t) >= s.promotion

\* Where a row scored at or above the 24h threshold belongs.
Target(row, score, s, t) ==
    IF GroupByScore(score, s) = "24h" /\ Promoted(row, s, t)
    THEN "30d" ELSE GroupByScore(score, s)

-----------------------------------------------------------------------------
(* Saving a row *)

\* Mutant of Renewed: counts on from the old expiry instead of from now.
RenewedFromExpiry(row, t) ==
    [row EXCEPT !.expires =
        IF Duration[row.group] = Null THEN Null
        ELSE (IF row.expires = Null THEN t ELSE row.expires) + Duration[row.group]]

\* set_expiry_from_group at time t.
Renewed(row, t) ==
    [row EXCEPT !.expires =
        IF Duration[row.group] = Null THEN Null ELSE t + Duration[row.group]]

\* BlacklistEntry.save: a no_group row is forced inactive before it is written.
Normal(row) ==
    IF row.group = "no_group" THEN [row EXCEPT !.active = FALSE] ELSE row

\* Mutants of Merge: a save that also writes back the history, or the pin.
MergeWithHits(stored, copy, fields) ==
    [stored EXCEPT !.group = IF "group" \in fields THEN copy.group ELSE @,
                   !.active = IF "active" \in fields THEN copy.active ELSE @,
                   !.score = IF "score" \in fields THEN copy.score ELSE @,
                   !.expires = IF "expires" \in fields THEN copy.expires ELSE @,
                   !.hits = copy.hits]
MergeWithPin(stored, copy, fields) ==
    [MergeWithHits(stored, copy, fields) EXCEPT !.pinned = copy.pinned,
                                                !.hits = stored.hits]

\* save(update_fields = fields) of an in-memory copy onto the stored row.
Merge(stored, copy, fields) ==
    LET new == Normal(copy)
    IN [cidr    |-> stored.cidr,
        group   |-> IF "group" \in fields THEN new.group ELSE stored.group,
        active  |-> IF "active" \in fields THEN new.active ELSE stored.active,
        pinned  |-> stored.pinned,
        score   |-> IF "score" \in fields THEN new.score ELSE stored.score,
        expires |-> IF "expires" \in fields THEN new.expires ELSE stored.expires,
        hits    |-> stored.hits]

-----------------------------------------------------------------------------
(* Re-evaluations: the copy they leave in memory and the fields they save. *)

\* Writing expires_at is skipped only when it stays NULL: two timestamps taken
\* at different moments are never equal.
ExpiryField(old, new) ==
    IF old.expires = Null /\ new.expires = Null THEN {} ELSE {"expires"}

\* Mutant of Applied: pinned rows are not exempt.
AppliedToPinned(copy, score, s, t, taken) ==
    IF score < s.t24h
    THEN [row |-> [copy EXCEPT !.score = score, !.active = FALSE],
          fields |-> {"score", "active"}]
    ELSE [row |-> Renewed([copy EXCEPT !.score = score], t), fields |-> {"score", "expires"}]

\* A fresh score. taken is the set of groups another row of the cidr is in.
Applied(copy, score, s, t, taken) ==
    LET scored  == [copy EXCEPT !.score = score]
        target  == Target(copy, score, s, t)
        moved   == target # copy.group /\ target \notin taken
        placed  == IF moved THEN [scored EXCEPT !.group = target] ELSE scored
        fresh   == IF moved \/ copy.score # score THEN Renewed(placed, t) ELSE placed
    IN IF copy.pinned THEN [row |-> scored, fields |-> {"score"}]
       ELSE IF score < s.t24h
       THEN [row    |-> [scored EXCEPT !.active = FALSE],
             fields |-> {"score"} \cup IF copy.active THEN {"active"} ELSE {}]
       ELSE [row    |-> fresh,
             fields |-> {"score"} \cup (IF moved THEN {"group"} ELSE {})
                                  \cup (IF moved \/ copy.score # score
                                        THEN ExpiryField(copy, fresh) ELSE {})]

\* A changed threshold (promotionOnly = FALSE) or promotion rule (TRUE).
Reapplied(copy, s, t, promotionOnly, taken) ==
    LET target  == Target(copy, copy.score, s, t)
        exempt  == copy.pinned \/ (promotionOnly /\ ~copy.active)
        covered == copy.score >= s.t24h
        woken   == ~promotionOnly /\ ~copy.active
        moved   == target # copy.group /\ target \notin taken
        placed  == [copy EXCEPT !.group = IF moved THEN target ELSE @,
                                !.active = @ \/ woken]
        changed == (IF woken THEN {"active"} ELSE {})
                     \cup (IF moved THEN {"group"} ELSE {})
    IN IF exempt \/ (promotionOnly /\ ~covered)
       THEN [row |-> copy, fields |-> {}]
       ELSE IF ~covered
       THEN [row    |-> [copy EXCEPT !.active = FALSE],
             fields |-> IF copy.active THEN {"active"} ELSE {}]
       ELSE IF changed = {} THEN [row |-> copy, fields |-> {}]
       ELSE [row |-> Renewed(placed, t), fields |-> changed \cup {"expires"}]

=============================================================================
