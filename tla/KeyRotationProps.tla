--------------------------- MODULE KeyRotationProps ---------------------------
(***************************************************************************)
(* What the rotation of API keys is required to do.                        *)
(***************************************************************************)
EXTENDS KeyRotation

Task == [pc : {"idle", "listing", "asking", "answered", "gave up"},
         reg : {"abuse", "hash", "url"}, job : Jobs,
         tier : {"fresh", "limited", "exhausted", "again", "none"},
         ahead : Seq(Keys), found : Seq(Keys), todo : Seq(Keys),
         reply : Replies, rows : 0 .. MaxRows,
         listed : SUBSET Keys, failed : SUBSET Keys,
         rested : SUBSET Keys, awake : SUBSET Keys]
Marker == [Registers -> [Keys -> Times \cup {Null}]]

\* Every variable stays in its domain; a task that asks or waits has a key left.
TypeOK ==
    /\ now \in 0 .. MaxTime
    /\ configured \in SUBSET Keys /\ refused \in SUBSET Keys
    /\ exhausted \in Marker /\ limited \in Marker
    /\ dropping \in SUBSET ({"exhausted", "limited"} \X Registers \X Keys)
    /\ task \in [Tasks -> Task]
    /\ \A t \in Tasks :
         /\ task[t].pc # "idle" => task[t].reg \in Registers
         /\ task[t].pc \in {"asking", "answered"} => task[t].todo # <<>>

\* No marker lasts longer than what its kind allows: a day, or a cooldown from
\* now. So a key comes back whatever threads marked it when (_next_utc_reset).
MarkersExpire ==
    \A r \in Registers, k \in Keys :
        /\ exhausted[r][k] # Null => exhausted[r][k] <= now + Day
        /\ limited[r][k] # Null => limited[r][k] <= now + Cooldown

\* A key is out of the rotation for the day only if its provider reported its
\* daily quota used up. It holds of the two registers that only queries write.
RetiredOnlyIfRefused ==
    \A r \in Registers \ {"hash"}, k \in Keys : Exhausted(r, k) => k \in refused

\* A key that the task has tried, or may leave out: VirusTotal's, when a look at
\* its markers found it resting; AbuseIPDB's, which asks the resting keys last, only
\* when it was found resting and also not, its marker having changed while the
\* list was drawn up (_get_api_keys: such a key may be in neither tier).
TriedOrPassedOver(k, key) ==
    \/ key \in k.failed
    \/ key \in k.rested /\ (k.reg = "abuse" => key \in k.awake)

\* A query that ends without an answer has tried every key stored as it began,
\* but for those its service may leave out (fetch_ip_data, which promises to
\* have tried all of them, fetch_hash_data, fetch_url_data_ex).
NoneOnlyAfterAll ==
    \A t \in Tasks :
        task[t].pc = "gave up" /\ task[t].job = "lookup" =>
            \A key \in task[t].listed : TriedOrPassedOver(task[t], key)

\* A refresh that aborts has seen every key of its list out of quota, by an answer
\* or by its marker, and none has been left out but those whose marker changed
\* while the list was drawn up (bulk_refresh).
AbortsOnlyIfRefused ==
    \A t \in Tasks :
        task[t].pc = "gave up" /\ task[t].job = "bulk" =>
            /\ task[t].listed \subseteq refused
            /\ \A key \in task[t].listed : TriedOrPassedOver(task[t], key)
==============================================================================
