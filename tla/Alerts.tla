------------------------------- MODULE Alerts -------------------------------
(***************************************************************************)
(* The alert mails: three jobs of the scheduler that sample the providers' *)
(* quotas, the callers' use of the API and the silence of the API, and     *)
(* mail what they find unless a mail about it went out a short while ago.  *)
(*                                                                         *)
(* A job never overlaps itself.  It samples, reads the stamps of its last  *)
(* mails, mails, and writes all its stamps back: four steps between which  *)
(* the clock moves and the process may die.                                *)
(***************************************************************************)
EXTENDS Traffic

CONSTANTS
    Enabled,     \* the alerts that may be switched on together, a set of sets
    ApiKeys,     \* keys configured for each provider
    Percent,     \* threshold of both quota and rate alerts, in percent
    Silence,     \* minutes without a call that count as silence, in ticks
    Cooldown     \* hours between two mails about one subject, in ticks

Kinds == {"quota", "rate", "silence"}
Providers == {"AbuseIPDB", "VirusTotal"}
Platform == "platform"

ASSUME AlertsAssumption ==
    /\ Enabled \subseteq SUBSET Kinds /\ IsFiniteSet(ApiKeys)
    /\ Percent \in 1 .. 100 /\ Silence \in Nat \ {0} /\ Cooldown \in Nat \ {0}
    /\ Null \notin Time

VARIABLES
    enabled,     \* alerts that are switched on in the settings
    spent,       \* keys whose daily quota is used up at the provider
    flagged,     \* keys of VirusTotal this process holds for exhausted
    job,         \* the check each job is running
    stamp,       \* when the last mail about a subject was decided: a settings row per kind
    mailed,      \* history: the decision whose mail was delivered last
    unstamped    \* history: subjects whose last mail left no stamp

alerts == <<enabled, spent, flagged, job, stamp, mailed, unstamped>>
vars == <<traffic, alerts>>

Subjects(k) == CASE k = "quota" -> Providers [] k = "rate" -> Counters [] k = "silence" -> {Platform}
AllSubjects == Providers \cup Counters \cup {Platform}

NoCheck == [pc |-> "idle", about |-> {}, at |-> 0, sent |-> [s \in AllSubjects |-> Null]]

Init ==
    /\ TrafficInit
    /\ enabled \in Enabled
    /\ spent = [p \in Providers |-> {}] /\ flagged = {}
    /\ job = [k \in Kinds |-> NoCheck]
    /\ stamp = [k \in Kinds |-> [s \in AllSubjects |-> Null]]
    /\ mailed = [k \in Kinds |-> [s \in AllSubjects |-> Null]]
    /\ unstamped = [k \in Kinds |-> {}]

JobBecomes(k, j) == job' = [job EXCEPT ![k] = j]

-----------------------------------------------------------------------------

KeySpent(p, k) ==
    /\ spent' = [spent EXCEPT ![p] = spent[p] \cup {k}]
    /\ UNCHANGED <<traffic, enabled, flagged, job, stamp, mailed, unstamped>>

QuotaRenewed(p) ==
    /\ spent' = [spent EXCEPT ![p] = {}]
    /\ UNCHANGED <<traffic, enabled, flagged, job, stamp, mailed, unstamped>>

FlagExpired(k) ==
    /\ flagged' = flagged \ {k}
    /\ UNCHANGED <<traffic, enabled, spent, job, stamp, mailed, unstamped>>

\* A check that finds nothing, or cannot read what it needs, has no effect.
Starts(k, found) ==
    /\ k \in enabled
    /\ job[k].pc = "idle"
    /\ JobBecomes(k, IF found = {} THEN NoCheck ELSE [NoCheck EXCEPT !.pc = "sampled", !.about = found])

\* All keys of AbuseIPDB are asked; those that answer share the threshold.
AbuseOver(answered) ==
    /\ answered # {}
    /\ 100 * Cardinality(spent["AbuseIPDB"] \cap answered) >= Percent * Cardinality(answered)

\* One key of VirusTotal speaks for all of them.  A refusal is taken for the
\* end of the day's quota, and kept, or for the throttle of a minute; a key
\* that only reports its numbers is not kept.
QuotaSampled(answered, probe, read) ==
    LET all == ApiKeys # {} /\ ApiKeys \subseteq flagged
        refused == probe \in spent["VirusTotal"] /\ read # "missed"
        vt == all \/ refused
    IN /\ Starts("quota", {p \in Providers : IF p = "AbuseIPDB" THEN AbuseOver(answered) ELSE vt})
       /\ flagged' = IF ~all /\ refused /\ read = "flagged" THEN flagged \cup {probe} ELSE flagged
       /\ UNCHANGED <<traffic, enabled, spent, stamp, mailed, unstamped>>

Recently(length) == {t \in Time : t <= now /\ now - t <= length}
RowsOf(c) == Cardinality({r \in Recently(Window) \X (1 .. MaxCalls) : r[2] <= rows[c][r[1]]})

\* The limit of a token is the measure for anonymous callers too.
TooMany == {n \in 0 .. MaxCalls : 100 * n >= Percent * Limit}
Busy(c) == RowsOf(c) \in TooMany

RateSampled ==
    /\ Starts("rate", {c \in Counters : Busy(c)})
    /\ UNCHANGED <<traffic, enabled, spent, flagged, stamp, mailed, unstamped>>

Heard(c) == seen[c] \cap Recently(Silence) # {}

Quiet == \A c \in Counters : ~Heard(c)

SilenceSampled ==
    /\ Quiet /\ Starts("silence", {Platform})
    /\ UNCHANGED <<traffic, enabled, spent, flagged, stamp, mailed, unstamped>>

\* Mutant of CoolingAt: a subject is mailed about once and never again.
CoolingForEverAt(sent, s, i) == sent[s] # Null

\* Mutant of CoolingAt: the cooldown is a tick short.
CoolingShortAt(sent, s, i) == sent[s] # Null /\ i - sent[s] + 1 < Cooldown

CoolingAt(sent, s, i) == sent[s] # Null /\ i - sent[s] < Cooldown

\* Mutant of Decided: a mail carries the end of its cooldown.
DecidedAhead(k) ==
    LET due == {s \in job[k].about : ~CoolingAt(stamp[k], s, now)} IN
    /\ job[k].pc = "sampled"
    /\ JobBecomes(k, IF due = {} THEN NoCheck
                     ELSE [pc |-> "mailing", about |-> due, at |-> now + Cooldown, sent |-> stamp[k]])
    /\ UNCHANGED <<traffic, enabled, spent, flagged, stamp, mailed, unstamped>>

Decided(k) ==
    LET due == {s \in job[k].about : ~CoolingAt(stamp[k], s, now)} IN
    /\ job[k].pc = "sampled"
    /\ JobBecomes(k, IF due = {} THEN NoCheck
                     ELSE [pc |-> "mailing", about |-> due, at |-> now, sent |-> stamp[k]])
    /\ UNCHANGED <<traffic, enabled, spent, flagged, stamp, mailed, unstamped>>

Mailed(k, ok) ==
    /\ job[k].pc = "mailing"
    /\ mailed' = [mailed EXCEPT ![k] = [s \in AllSubjects |-> IF s \in job[k].about THEN job[k].at ELSE mailed[k][s]]]
    /\ unstamped' = [unstamped EXCEPT ![k] = unstamped[k] \cup job[k].about]
    /\ JobBecomes(k, IF ok THEN [job[k] EXCEPT !.pc = "mailed"] ELSE NoCheck)
    /\ UNCHANGED <<traffic, enabled, spent, flagged, stamp>>

\* Mutant of NotMailed: the check goes on to stamp what was not delivered.
NotMailedStamped(k) ==
    /\ job[k].pc = "mailing"
    /\ JobBecomes(k, [job[k] EXCEPT !.pc = "mailed"])
    /\ UNCHANGED <<traffic, enabled, spent, flagged, stamp, mailed, unstamped>>

NotMailed(k) ==
    /\ job[k].pc = "mailing"
    /\ JobBecomes(k, NoCheck)
    /\ UNCHANGED <<traffic, enabled, spent, flagged, stamp, mailed, unstamped>>

Restamped(k) == [s \in AllSubjects |-> IF s \in job[k].about THEN job[k].at ELSE job[k].sent[s]]

Stamped(k) ==
    /\ job[k].pc = "mailed"
    /\ stamp' = [stamp EXCEPT ![k] = Restamped(k)]
    /\ unstamped' = [unstamped EXCEPT ![k] = unstamped[k] \ job[k].about]
    /\ JobBecomes(k, NoCheck)
    /\ UNCHANGED <<traffic, enabled, spent, flagged, mailed>>

\* The database refuses the stamps: the shell of the job logs it and waits for the next run.
CheckFailed(k) ==
    /\ job[k].pc = "mailed"
    /\ JobBecomes(k, NoCheck)
    /\ UNCHANGED <<traffic, enabled, spent, flagged, stamp, mailed, unstamped>>

Crash ==
    /\ flagged' = {} /\ job' = [k \in Kinds |-> NoCheck]
    /\ call' = [w \in Workers |-> NoCall]
    /\ UNCHANGED <<now, entry, raced, lost, begun, passed, rows, seen, calls, enabled, spent, stamp, mailed, unstamped>>

Checked(k) ==
    \/ Decided(k) \/ (\E ok \in BOOLEAN : Mailed(k, ok)) \/ NotMailed(k) \/ Stamped(k) \/ CheckFailed(k)

\* Calls matter to the alerts about calls, the providers to the one about quotas:
\* what no enabled alert looks at stays still.
Next ==
    \/ enabled # {"quota"} /\ TrafficNext /\ UNCHANGED alerts
    \/ enabled = {"quota"} /\ Passing /\ UNCHANGED alerts
    \/ /\ "quota" \in enabled
       /\ \/ \E p \in Providers : QuotaRenewed(p) \/ \E k \in ApiKeys : KeySpent(p, k)
          \/ \E k \in ApiKeys : FlagExpired(k)
          \/ \E answered \in SUBSET ApiKeys, probe \in ApiKeys, read \in {"flagged", "reported", "missed"} :
               QuotaSampled(answered, probe, read)
    \/ RateSampled \/ SilenceSampled
    \/ \E k \in enabled : Checked(k)
    \/ Crash

Spec == Init /\ [][Next]_vars

\* The process stays up in the end, the jobs fire again and again, and neither
\* the providers nor the mail server fail each time they are asked about a subject.
QuotaSeen == \E probe \in ApiKeys : QuotaSampled(ApiKeys, probe, "reported")
Sampled(k) == CASE k = "quota" -> QuotaSeen [] k = "rate" -> RateSampled [] k = "silence" -> SilenceSampled
FairSpec ==
    /\ Spec
    /\ <>[][~Crash]_vars
    /\ \A k \in Kinds :
         /\ WF_vars(Checked(k)) /\ SF_vars(Sampled(k))
         /\ \A s \in Subjects(k) : SF_vars(s \in job[k].about /\ \E ok \in BOOLEAN : Mailed(k, ok))
==============================================================================
