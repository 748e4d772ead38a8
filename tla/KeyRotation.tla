----------------------------- MODULE KeyRotation -----------------------------
(***************************************************************************)
(* API keys of AbuseIPDB and VirusTotal: which key a query uses, how a key *)
(* that answers 429 is taken out of the rotation, and when it comes back.  *)
(*                                                                         *)
(* Three modules keep such registers in the memory of the process: the IP  *)
(* list ("abuse"), the hash list ("hash") and the URL list ("url"). The    *)
(* last two share the VirusTotal keys but not their registers. The quota   *)
(* monitor and the "check key" page write the register of the hash list.   *)
(***************************************************************************)
EXTENDS Integers, Sequences, FiniteSets

CONSTANTS
    AbuseKeys, VtKeys,  \* keys, as their positions in the stored setting
    Registers,          \* the registers at work, of "abuse", "hash" and "url"
    KeySettings,        \* the sets of keys an administrator may store
    Tasks,              \* threads that query
    Day,                \* ticks from one quota reset (00:00 UTC) to the next
    Cooldown,           \* ticks a throttled VirusTotal key rests (75 s)
    MaxRows,            \* rows a bulk refresh works through
    MaxTime,            \* bound of the clock
    MaxDrops,           \* removals of expired markers under way at a time
    Null

Keys == AbuseKeys \cup VtKeys
Times == 0 .. MaxTime + Day + Cooldown

ASSUME KeyAssumption ==
    /\ Keys \subseteq Nat /\ IsFiniteSet(Keys)
    /\ AbuseKeys \cap VtKeys = {}
    /\ Registers \subseteq {"abuse", "hash", "url"}
    /\ KeySettings \subseteq SUBSET Keys
    /\ Day \in Nat \ {0} /\ Cooldown \in Nat \ {0}
    /\ MaxRows \in Nat \ {0} /\ MaxTime \in Nat /\ MaxDrops \in Nat
    /\ Null \notin Times /\ Null \notin Keys

KeysOf(r) == IF r = "abuse" THEN AbuseKeys ELSE VtKeys

\* Mutant of NextReset: the time of day is not cut off before a day is added.
NextResetLate(t) == (t \div Day + 1) * Day + t

\* The next quota reset after time t.
NextReset(t) == (t \div Day + 1) * Day

\* Tasks: a query of one row, a refresh of many, the monitor's probe of one
\* key, the administrator's check of all.
Jobs == {"lookup", "bulk", "probe", "check"}

\* What an API answers. "quota" is a 429 with a long Retry-After, "quiet" one of
\* the daily quota without it, "throttle" one of the per-minute limit;
\* "drained" is an answer that reports nothing left for today.
Replies == {"ok", "drained", "quota", "quiet", "throttle", "error"}

VARIABLES
    now,         \* clock
    configured,  \* keys stored in the settings; none when a service is disabled
    refused,     \* history: keys a provider reported without daily quota
    exhausted,   \* _QUOTA_EXHAUSTED and _VT_QUOTA_EXHAUSTED: key -> until when
    limited,     \* _VT_RATE_LIMITED: key -> until when
    dropping,    \* markers some thread found expired and is about to remove
    task         \* the tasks under way

vars == <<now, configured, refused, exhausted, limited, dropping, task>>

\* tier: the pass that draws up the list of keys; ahead: the keys it has yet to
\* look at; found: those it has found. listed: the keys stored as the task began.
\* History: failed, the keys tried in vain; rested and awake, those that a look at
\* their markers found resting, or not. On a list, they are forgotten.
Idle == [pc |-> "idle", reg |-> "abuse", job |-> "lookup", tier |-> "none",
         ahead |-> <<>>, found |-> <<>>, todo |-> <<>>, reply |-> "error", rows |-> 0,
         listed |-> {}, failed |-> {}, rested |-> {}, awake |-> {}]

Init ==
    /\ now = 0
    /\ configured \in KeySettings
    /\ refused = {}
    /\ exhausted = [r \in Registers |-> [k \in Keys |-> Null]]
    /\ limited = [r \in Registers |-> [k \in Keys |-> Null]]
    /\ dropping = {}
    /\ task = [t \in Tasks |-> Idle]

-----------------------------------------------------------------------------
(* The registers *)

Exhausted(r, k) == exhausted[r][k] # Null /\ now < exhausted[r][k]
Limited(r, k) == r # "abuse" /\ limited[r][k] # Null /\ now < limited[r][k]
Resting(r) == {k \in KeysOf(r) : Exhausted(r, k) \/ Limited(r, k)}

\* Every change of a marker, key by key.
Set(reg, r, k, until) == [reg EXCEPT ![r] = [reg[r] EXCEPT ![k] = until]]

MarkExhausted(r, k) ==
    /\ exhausted' = Set(exhausted, r, k, NextReset(now))
    /\ UNCHANGED limited

\* The marker of the day goes with it: it may stem from a misread throttle.
MarkRateLimited(r, k) ==
    /\ exhausted' = Set(exhausted, r, k, Null)
    /\ limited' = Set(limited, r, k, now + Cooldown)

-----------------------------------------------------------------------------
(* The list of keys a task works through *)

Elements(q) == {q[i] : i \in DOMAIN q}

\* The keys of S, each once, in every order and in the stored order.
Listings(S) ==
    {q \in [1 .. Cardinality(S) -> S] : \A k \in S : \E i \in DOMAIN q : q[i] = k}
Stored(S) == {q \in Listings(S) : \A i, j \in DOMAIN q : i < j => q[i] < q[j]}

\* Each tier of the list is a pass of its own over the keys, and looks at every
\* marker anew.  VirusTotal's queries go over the result once more.
Fits(r, tier, k) ==
    CASE tier \in {"fresh", "again"} -> k \notin Resting(r)
      [] tier = "limited" -> Limited(r, k) /\ ~Exhausted(r, k)
      [] tier = "exhausted" -> Exhausted(r, k)

NextTier(r, tier) ==
    CASE tier = "fresh" -> IF r = "abuse" THEN "exhausted" ELSE "limited"
      [] tier = "limited" -> "exhausted"
      [] tier = "exhausted" -> IF r = "abuse" THEN "none" ELSE "again"
      [] OTHER -> "none"

\* Mutant of Going: the end of the list is not noticed.
GoingOn(k, todo) == [k EXCEPT !.todo = todo, !.reply = "error", !.pc = "asking"]

\* A task that has no key left ends: a check is complete, a query gave no answer
\* and a refresh is aborted.
Going(k, todo) ==
    IF todo = <<>> /\ k.job = "check" THEN Idle
    ELSE [k EXCEPT !.todo = todo, !.reply = "error",
                   !.pc = IF todo = <<>> THEN "gave up" ELSE "asking"]

Moves(t, k) ==
    /\ task' = [task EXCEPT ![t] = k]
    /\ UNCHANGED <<now, configured, refused, exhausted, limited, dropping>>

\* What a task is as it begins, with the keys stored now.
Beginning(r, job, rows) ==
    [Idle EXCEPT !.reg = r, !.job = job, !.rows = rows, !.listed = configured \cap KeysOf(r)]

ListBegan(t, r, job, rows) ==
    LET k == Beginning(r, job, rows) IN
    /\ task[t].pc = "idle" /\ k.listed # {}
    /\ \E keys \in Stored(k.listed) :
         Moves(t, [k EXCEPT !.pc = "listing", !.tier = "fresh", !.ahead = keys])

LookupBegan(t, r) == ListBegan(t, r, "lookup", 1)

BulkBegan(t) ==
    /\ "abuse" \in Registers
    /\ \E rows \in 1 .. MaxRows : ListBegan(t, "abuse", "bulk", rows)

\* One look of the pass under way, at one key.
KeyLooked(t) ==
    LET k == task[t]
        key == Head(k.ahead)
        rests == key \in Resting(k.reg)
    IN /\ k.pc = "listing" /\ k.ahead # <<>>
       /\ Moves(t, [k EXCEPT !.ahead = Tail(@),
                             !.found = IF Fits(k.reg, k.tier, key) THEN Append(@, key) ELSE @,
                             !.rested = IF rests THEN @ \cup {key} ELSE @,
                             !.awake = IF rests THEN @ ELSE @ \cup {key}])

\* AbuseIPDB keeps the stored order; VirusTotal shuffles each tier.
Tiers(k) ==
    IF k.reg = "abuse" \/ k.tier = "again" THEN {k.found} ELSE Listings(Elements(k.found))

Listed(k, list) ==
    Going([k EXCEPT !.tier = "none", !.found = <<>>,
                    !.rested = @ \ Elements(list), !.awake = @ \ Elements(list)], list)

\* A pass is over: the next one begins, or the list is complete, which may be to
\* say that it is empty.
PassEnded(t) ==
    LET k == task[t]
        next == NextTier(k.reg, k.tier)
    IN /\ k.pc = "listing" /\ k.ahead = <<>>
       /\ \E tier \in Tiers(k) :
            \/ /\ next \in {"limited", "exhausted"}
               /\ \E keys \in Stored(k.listed) :
                    Moves(t, [k EXCEPT !.tier = next, !.ahead = keys, !.found = <<>>,
                                       !.todo = @ \o tier])
            \/ /\ next = "again"
               /\ Moves(t, [k EXCEPT !.tier = next, !.ahead = k.todo \o tier,
                                     !.found = <<>>, !.todo = <<>>])
            \/ /\ next = "none"
               /\ Moves(t, Listed(k, k.todo \o tier))

\* The monitor probes one key: the first that does not rest, else the first.
\* When all are exhausted it asks nobody.
ProbeBegan(t) ==
    LET keys == configured \cap VtKeys
        free == keys \ Resting("hash")
    IN /\ "hash" \in Registers
       /\ \E k \in keys : ~Exhausted("hash", k)
       /\ \E k \in IF free = {} THEN keys ELSE free :
            /\ \A other \in IF free = {} THEN keys ELSE free : k <= other
            /\ task[t].pc = "idle"
            /\ Moves(t, Going(Beginning("hash", "probe", 1), <<k>>))

CheckBegan(t) ==
    /\ "hash" \in Registers
    /\ task[t].pc = "idle" /\ configured \cap VtKeys # {}
    /\ \E todo \in Stored(configured \cap VtKeys) : Moves(t, Going(Beginning("hash", "check", 1), todo))

-----------------------------------------------------------------------------
(* One request *)

\* A refresh and a check look at the marker again before each request.
Rechecks(t) == task[t].job \in {"bulk", "check"}

KeySkipped(t) ==
    LET k == task[t] IN
    /\ k.pc = "asking" /\ Rechecks(t)
    /\ Exhausted(k.reg, Head(k.todo))
    /\ Moves(t, Going([k EXCEPT !.failed = k.failed \cup {Head(k.todo)}], Tail(k.todo)))

\* Only VirusTotal has a per-minute limit.
Answers(r) == IF r = "abuse" THEN Replies \ {"quiet", "throttle"} ELSE Replies

Asked(t, reply) ==
    LET k == task[t]
        key == Head(k.todo)
    IN /\ k.pc = "asking"
       /\ ~(Rechecks(t) /\ Exhausted(k.reg, key))
       /\ reply \in Answers(k.reg)
       /\ task' = [task EXCEPT ![t] = [k EXCEPT !.pc = "answered", !.reply = reply]]
       /\ refused' = IF reply \in {"quota", "quiet", "drained"}
                     THEN refused \cup {key} ELSE refused
       /\ UNCHANGED <<now, configured, exhausted, limited, dropping>>

\* An answer: the row is served.
Served(k) ==
    CASE k.job = "bulk" /\ k.rows > 1 -> [k EXCEPT !.pc = "asking", !.reply = "error",
                                               !.rows = k.rows - 1]
      [] k.job = "check" -> Going(k, Tail(k.todo))
      [] OTHER -> Idle

\* Mutant of Failed: the first key that fails ends a query.
FailedAtOnce(k) ==
    IF k.job = "probe"
    THEN Idle
    ELSE [k EXCEPT !.failed = k.failed \cup {Head(k.todo)}, !.todo = <<>>, !.pc = "gave up"]

\* A refusal or an error: on to the next key. The monitor probes only one.
Failed(k) ==
    IF k.job = "probe"
    THEN Idle
    ELSE Going([k EXCEPT !.failed = k.failed \cup {Head(k.todo)}], Tail(k.todo))

Continues(t, k) ==
    /\ task' = [task EXCEPT ![t] = k]
    /\ UNCHANGED <<now, configured, refused, dropping>>

AnswerHandled(t) ==
    LET k == task[t] IN
    /\ k.pc = "answered"
    /\ \/ k.reply = "ok"
       \/ k.reply = "drained" /\ k.job # "check"
    /\ Continues(t, Served(k))
    /\ UNCHANGED <<exhausted, limited>>

\* Mutant of ErrorHandled: a refresh moves on to the next key, as after a refusal.
ErrorRotates(t) ==
    LET k == task[t] IN
    /\ k.pc = "answered" /\ k.reply = "error"
    /\ Continues(t, Failed(k))
    /\ UNCHANGED <<exhausted, limited>>

\* Mutant of ErrorHandled: a failed request retires the key like a refusal.
ErrorRetires(t) ==
    LET k == task[t] IN
    /\ k.pc = "answered" /\ k.reply = "error"
    /\ Continues(t, IF k.job = "bulk" THEN Served(k) ELSE Failed(k))
    /\ MarkExhausted(k.reg, Head(k.todo))

\* A refresh gives up the row but keeps the key.
ErrorHandled(t) ==
    LET k == task[t] IN
    /\ k.pc = "answered" /\ k.reply = "error"
    /\ Continues(t, IF k.job = "bulk" THEN Served(k) ELSE Failed(k))
    /\ UNCHANGED <<exhausted, limited>>

QuotaHandled(t) ==
    LET k == task[t] IN
    /\ k.pc = "answered"
    /\ \/ k.reply = "quota"
       \/ k.reply = "drained" /\ k.job = "check"
    /\ Continues(t, Failed(k))
    /\ MarkExhausted(k.reg, Head(k.todo))

\* A 429 without a long Retry-After. Queries take it for the per-minute limit.
\* Monitor and check read the error code too, which is QuotaExceededError for
\* both limits: they take it for the daily quota if they can read the body.
ThrottleHandled(t) ==
    LET k == task[t] IN
    /\ k.pc = "answered" /\ k.reply \in {"quiet", "throttle"}
    /\ Continues(t, Failed(k))
    /\ IF k.job = "lookup"
       THEN MarkRateLimited(k.reg, Head(k.todo))
       ELSE \/ MarkExhausted(k.reg, Head(k.todo))
            \/ UNCHANGED <<exhausted, limited>>

Returned(t) ==
    /\ task[t].pc = "gave up"
    /\ Moves(t, Idle)

-----------------------------------------------------------------------------
(* The world around *)

\* A thread finds a marker expired; it removes whatever is there a moment later.
MarkerFoundExpired(r, k) ==
    /\ exhausted[r][k] # Null /\ now >= exhausted[r][k]
    /\ Cardinality(dropping) < MaxDrops
    /\ dropping' = dropping \cup {<<"exhausted", r, k>>}
    /\ UNCHANGED <<now, configured, refused, exhausted, limited, task>>

LimitFoundExpired(r, k) ==
    /\ limited[r][k] # Null /\ now >= limited[r][k]
    /\ Cardinality(dropping) < MaxDrops
    /\ dropping' = dropping \cup {<<"limited", r, k>>}
    /\ UNCHANGED <<now, configured, refused, exhausted, limited, task>>

MarkerDropped(r, k) ==
    /\ \/ /\ <<"exhausted", r, k>> \in dropping
          /\ dropping' = dropping \ {<<"exhausted", r, k>>}
          /\ exhausted' = Set(exhausted, r, k, Null)
          /\ UNCHANGED limited
       \/ /\ <<"limited", r, k>> \in dropping
          /\ dropping' = dropping \ {<<"limited", r, k>>}
          /\ limited' = Set(limited, r, k, Null)
          /\ UNCHANGED exhausted
    /\ UNCHANGED <<now, configured, refused, task>>

KeysSaved(keys) ==
    /\ configured' = keys
    /\ UNCHANGED <<now, refused, exhausted, limited, dropping, task>>

Tick ==
    /\ now < MaxTime
    /\ now' = now + 1
    /\ UNCHANGED <<configured, refused, exhausted, limited, dropping, task>>

\* The registers live in memory only.
Restart ==
    /\ exhausted' = [r \in Registers |-> [k \in Keys |-> Null]]
    /\ limited' = [r \in Registers |-> [k \in Keys |-> Null]]
    /\ dropping' = {}
    /\ task' = [t \in Tasks |-> Idle]
    /\ refused' = {}
    /\ UNCHANGED <<now, configured>>

Step(t) ==
    \/ \E r \in Registers : LookupBegan(t, r)
    \/ BulkBegan(t) \/ ProbeBegan(t) \/ CheckBegan(t)
    \/ KeyLooked(t) \/ PassEnded(t)
    \/ \E reply \in Replies : Asked(t, reply)
    \/ KeySkipped(t) \/ AnswerHandled(t) \/ ErrorHandled(t)
    \/ QuotaHandled(t) \/ ThrottleHandled(t)
    \/ Returned(t)

Environment ==
    \/ \E r \in Registers, k \in Keys :
         MarkerFoundExpired(r, k) \/ LimitFoundExpired(r, k) \/ MarkerDropped(r, k)
    \/ \E keys \in KeySettings : KeysSaved(keys)
    \/ Tick \/ Restart

Next == (\E t \in Tasks : Step(t)) \/ Environment

Spec == Init /\ [][Next]_vars
==============================================================================
