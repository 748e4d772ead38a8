----------------------------- MODULE AlertsProofs -----------------------------
(***************************************************************************)
(* Proofs about the alert mails, for any callers, keys, clock and cooldown:*)
(* the types, NoSilentCooldown and MailsSpaced.                            *)
(***************************************************************************)
EXTENDS AlertsProps, TLAPS

Phases == {"idle", "sampled", "mailing", "mailed"}
Stamps == [AllSubjects -> Stamp]
Check == [pc : Phases, about : SUBSET AllSubjects, at : Time, sent : Stamps]

Typed ==
    /\ now \in Time
    /\ enabled \in Enabled
    /\ spent \in [Providers -> SUBSET ApiKeys] /\ flagged \subseteq ApiKeys
    /\ job \in [Kinds -> Check]
    /\ stamp \in [Kinds -> Stamps] /\ mailed \in [Kinds -> Stamps]
    /\ unstamped \in [Kinds -> SUBSET AllSubjects]

\* One kind of alert at time t: its check j, its stamps st, the mails ma that
\* arrived and the subjects un whose mail left no stamp.
OnTopic(k, t, j, un) == j.about \subseteq Subjects(k) /\ un \subseteq Subjects(k) /\ j.at <= t

\* A mail was decided from the stamps as they still are.
DecidedWell(j, st) ==
    j.pc \in {"mailing", "mailed"} =>
        j.sent = st /\ \A s \in j.about : ~CoolingAt(st, s, j.at)
Arrived(j, ma) == j.pc = "mailed" => \A s \in j.about : ma[s] = j.at

\* A mail whose stamp was kept is the one its subject is stamped with.
Kept(st, ma, un) == \A s \in AllSubjects : ma[s] # Null /\ s \notin un => st[s] = ma[s]
Backed(st, ma) == \A s \in AllSubjects : st[s] # Null => ma[s] # Null /\ st[s] <= ma[s]

Fine(k, t, j, st, ma, un) ==
    OnTopic(k, t, j, un) /\ DecidedWell(j, st) /\ Arrived(j, ma) /\ Kept(st, ma, un) /\ Backed(st, ma)

Inv == Typed /\ \A k \in Kinds : Fine(k, now, job[k], stamp[k], mailed[k], unstamped[k])

USE TrafficAssumption, AlertsAssumption
-----------------------------------------------------------------------------
(* Values of the model *)

LEMMA TimesAreNumbers == Time \subseteq Nat /\ Null \notin Time /\ 0 \in Time
  BY DEF Time

LEMMA CooldownIsNumber == Cooldown \in Nat
  OBVIOUS

LEMMA SubjectsOf == \A k \in Kinds : Subjects(k) \subseteq AllSubjects
  BY DEF Kinds, Subjects, AllSubjects

LEMMA NoCheckIs ==
    /\ NoCheck \in Check
    /\ NoCheck.pc = "idle" /\ NoCheck.about = {} /\ NoCheck.at = 0
  BY TimesAreNumbers DEF NoCheck, Check, Phases, Stamps, Stamp

\* What a check finds is what it may mail about.
LEMMA FoundIs ==
    ASSUME NEW found \in SUBSET AllSubjects
    PROVE  LET n == [NoCheck EXCEPT !.pc = "sampled", !.about = found] IN
           n \in Check /\ n.pc = "sampled" /\ n.about = found /\ n.at = 0
  BY TimesAreNumbers DEF NoCheck, Check, Phases, Stamps, Stamp

-----------------------------------------------------------------------------
(* Steps *)

\* A step of one kind of alert keeps the invariant if that kind is fine after it.
LEMMA OneKind ==
    ASSUME Inv, NEW k \in Kinds, NEW j \in Check, NEW st \in Stamps, NEW ma \in Stamps,
           NEW un \in SUBSET AllSubjects,
           Fine(k, now, j, st, ma, un),
           job' = [job EXCEPT ![k] = j], stamp' = [stamp EXCEPT ![k] = st],
           mailed' = [mailed EXCEPT ![k] = ma], unstamped' = [unstamped EXCEPT ![k] = un],
           now' = now, enabled' = enabled,
           spent' \in [Providers -> SUBSET ApiKeys], flagged' \subseteq ApiKeys
    PROVE  Inv'
  <1>1. Typed'
    BY DEF Inv, Typed
  <1>2. ASSUME NEW l \in Kinds
        PROVE  Fine(l, now, job'[l], stamp'[l], mailed'[l], unstamped'[l])
    <2>1. CASE l = k
      BY <2>1 DEF Inv, Typed
    <2>2. CASE l # k
      <3>1. job'[l] = job[l] /\ stamp'[l] = stamp[l] /\ mailed'[l] = mailed[l]
            /\ unstamped'[l] = unstamped[l]
        BY <2>2 DEF Inv, Typed
      <3> QED BY <3>1 DEF Inv
    <2> QED BY <2>1, <2>2
  <1> QED BY <1>1, <1>2 DEF Inv

\* A check that is not about to stamp: nothing else of its kind changes.
LEMMA OnlyTheCheck ==
    ASSUME Inv, NEW k \in Kinds, NEW j \in Check,
           OnTopic(k, now, j, unstamped[k]), DecidedWell(j, stamp[k]), j.pc # "mailed",
           job' = [job EXCEPT ![k] = j], UNCHANGED <<stamp, mailed, unstamped, now, enabled>>,
           spent' \in [Providers -> SUBSET ApiKeys], flagged' \subseteq ApiKeys
    PROVE  Inv'
  <1>1. stamp[k] \in Stamps /\ mailed[k] \in Stamps /\ unstamped[k] \in SUBSET AllSubjects
    BY DEF Inv, Typed
  <1>2. /\ stamp' = [stamp EXCEPT ![k] = stamp[k]] /\ mailed' = [mailed EXCEPT ![k] = mailed[k]]
        /\ unstamped' = [unstamped EXCEPT ![k] = unstamped[k]]
    BY DEF Inv, Typed
  <1>3. Fine(k, now, j, stamp[k], mailed[k], unstamped[k])
    BY DEF Inv, Fine, Arrived
  <1>4. now' = now /\ enabled' = enabled
    OBVIOUS
  <1> QED
    <2> DEFINE st == stamp[k]
               ma == mailed[k]
               un == unstamped[k]
    <2>1. st \in Stamps /\ ma \in Stamps /\ un \in SUBSET AllSubjects
      BY <1>1
    <2>2. /\ stamp' = [stamp EXCEPT ![k] = st] /\ mailed' = [mailed EXCEPT ![k] = ma]
          /\ unstamped' = [unstamped EXCEPT ![k] = un] /\ Fine(k, now, j, st, ma, un)
      BY <1>2, <1>3
    <2> HIDE DEF st, ma, un
    <2> QED BY <2>1, <2>2, <1>4, OneKind

LEMMA Still ==
    ASSUME Inv, UNCHANGED <<job, stamp, mailed, unstamped, enabled>>,
           now' \in Time, now <= now',
           spent' \in [Providers -> SUBSET ApiKeys], flagged' \subseteq ApiKeys
    PROVE  Inv'
  <1>1. Typed'
    BY DEF Inv, Typed
  <1>2. ASSUME NEW k \in Kinds
        PROVE  Fine(k, now', job[k], stamp[k], mailed[k], unstamped[k])
    <2>1. job[k].at \in Nat /\ now \in Nat /\ now' \in Nat
      BY TimesAreNumbers DEF Inv, Typed, Check
    <2>2. job[k].at <= now'
      BY <2>1 DEF Inv, Fine, OnTopic
    <2> QED BY <2>2 DEF Inv, Fine, OnTopic
  <1> QED BY <1>1, <1>2 DEF Inv

LEMMA TrafficKeeps ==
    ASSUME Inv, TrafficNext \/ Passing, UNCHANGED alerts
    PROVE  Inv'
  <1>1. now' \in Time /\ now <= now'
    <2>1. ASSUME Passing PROVE now' = now \/ (now < MaxTime /\ now' = now + 1)
      BY <2>1 DEF Passing, Tick, EntryExpired
    <2>2. ASSUME NEW w \in Workers, Answering(w) PROVE now' = now
      BY <2>2 DEF Answering, CounterRead, CounterSet, Refused, Served
    <2>3. ASSUME NEW w \in Workers, ListCalled(w) \/ \E c \in Callers : CallBegan(w, c) PROVE now' = now
      BY <2>3 DEF ListCalled, CallBegan
    <2>4. now' = now \/ (now < MaxTime /\ now' = now + 1)
      BY <2>1, <2>2, <2>3 DEF TrafficNext
    <2> QED BY <2>4 DEF Inv, Typed, Time
  <1>2. UNCHANGED <<job, stamp, mailed, unstamped, enabled, spent, flagged>>
    BY DEF alerts
  <1> QED BY <1>1, <1>2, Still DEF Inv, Typed

LEMMA ProvidersKeep ==
    ASSUME Inv,
           \/ \E p \in Providers : QuotaRenewed(p) \/ \E k \in ApiKeys : KeySpent(p, k)
           \/ \E k \in ApiKeys : FlagExpired(k)
    PROVE  Inv'
  <1>1. /\ UNCHANGED <<job, stamp, mailed, unstamped, enabled, now>>
        /\ spent' \in [Providers -> SUBSET ApiKeys] /\ flagged' \subseteq ApiKeys
    <2>1. CASE \E p \in Providers : QuotaRenewed(p)
      BY <2>1 DEF QuotaRenewed, traffic, Inv, Typed
    <2>2. CASE \E p \in Providers, k \in ApiKeys : KeySpent(p, k)
      BY <2>2 DEF KeySpent, traffic, Inv, Typed
    <2>3. CASE \E k \in ApiKeys : FlagExpired(k)
      BY <2>3 DEF FlagExpired, traffic, Inv, Typed
    <2> QED BY <2>1, <2>2, <2>3
  <1>2. now' \in Time /\ now <= now'
    BY <1>1, TimesAreNumbers DEF Inv, Typed
  <1> QED BY <1>1, <1>2, Still

\* A check of kind k that found something, whatever it found.
LEMMA StartKeeps ==
    ASSUME Inv, NEW k \in Kinds, NEW found \in SUBSET Subjects(k), Starts(k, found),
           UNCHANGED <<stamp, mailed, unstamped, now, enabled>>,
           spent' \in [Providers -> SUBSET ApiKeys], flagged' \subseteq ApiKeys
    PROVE  Inv'
  <1> DEFINE n == IF found = {} THEN NoCheck ELSE [NoCheck EXCEPT !.pc = "sampled", !.about = found]
  <1>1. found \in SUBSET AllSubjects
    BY SubjectsOf
  <1>2. n \in Check /\ n.pc \in {"idle", "sampled"} /\ n.about \subseteq found /\ n.at = 0
    BY <1>1, FoundIs, NoCheckIs
  <1>3. job' = [job EXCEPT ![k] = n]
    BY DEF Starts, JobBecomes
  <1> HIDE DEF n
  <1>4. 0 <= now
    BY TimesAreNumbers DEF Inv, Typed
  <1>5. OnTopic(k, now, n, unstamped[k])
    BY <1>2, <1>4 DEF OnTopic, Inv, Fine
  <1>6. DecidedWell(n, stamp[k]) /\ n.pc # "mailed"
    BY <1>2 DEF DecidedWell
  <1> QED BY <1>2, <1>3, <1>5, <1>6, OnlyTheCheck

LEMMA SamplesKeep ==
    ASSUME Inv,
           \/ \E answered \in SUBSET ApiKeys, probe \in ApiKeys, read \in {"flagged", "reported", "missed"} :
                QuotaSampled(answered, probe, read)
           \/ RateSampled \/ SilenceSampled
    PROVE  Inv'
  <1>1. CASE \E answered \in SUBSET ApiKeys, probe \in ApiKeys, read \in {"flagged", "reported", "missed"} :
                QuotaSampled(answered, probe, read)
    <2>1. \E found \in SUBSET Providers : Starts("quota", found)
      BY <1>1 DEF QuotaSampled
    <2>2. flagged' \subseteq ApiKeys /\ spent' = spent /\ UNCHANGED <<stamp, mailed, unstamped, now, enabled>>
      BY <1>1 DEF QuotaSampled, traffic, Inv, Typed
    <2>3. "quota" \in Kinds /\ Subjects("quota") = Providers
      BY DEF Kinds, Subjects
    <2> QED BY <2>1, <2>2, <2>3, StartKeeps DEF Inv, Typed
  <1>2. CASE RateSampled
    <2>1. \E found \in SUBSET Counters : Starts("rate", found)
      BY <1>2 DEF RateSampled
    <2>2. UNCHANGED <<stamp, mailed, unstamped, now, enabled, flagged, spent>>
      BY <1>2 DEF RateSampled, traffic
    <2>3. "rate" \in Kinds /\ Subjects("rate") = Counters
      BY DEF Kinds, Subjects
    <2> QED BY <2>1, <2>2, <2>3, StartKeeps DEF Inv, Typed
  <1>3. CASE SilenceSampled
    <2>1. Starts("silence", {Platform})
      BY <1>3 DEF SilenceSampled
    <2>2. UNCHANGED <<stamp, mailed, unstamped, now, enabled, flagged, spent>>
      BY <1>3 DEF SilenceSampled, traffic
    <2>3. "silence" \in Kinds /\ Subjects("silence") = {Platform}
      BY DEF Kinds, Subjects
    <2> QED BY <2>1, <2>2, <2>3, StartKeeps DEF Inv, Typed
  <1> QED BY <1>1, <1>2, <1>3
-----------------------------------------------------------------------------
(* From the decision to the stamp *)

LEMMA DecidedKeeps ==
    ASSUME Inv, NEW k \in Kinds, Decided(k)
    PROVE  Inv'
  <1> DEFINE due == {s \in job[k].about : ~CoolingAt(stamp[k], s, now)}
             m == [pc |-> "mailing", about |-> due, at |-> now, sent |-> stamp[k]]
             n == IF due = {} THEN NoCheck ELSE m
  <1>1. job' = [job EXCEPT ![k] = n] /\ UNCHANGED <<spent, flagged, stamp, mailed, unstamped, now, enabled>>
    BY DEF Decided, JobBecomes, traffic
  <1>2. due \subseteq job[k].about /\ \A s \in due : ~CoolingAt(stamp[k], s, now)
    OBVIOUS
  <1>3. /\ job[k].about \subseteq Subjects(k) /\ unstamped[k] \subseteq Subjects(k)
        /\ Subjects(k) \subseteq AllSubjects /\ stamp[k] \in Stamps /\ now \in Time
    BY SubjectsOf DEF Inv, Typed, Fine, OnTopic
  <1> HIDE DEF due
  <1>4. m \in Check
    BY <1>2, <1>3 DEF Check, Phases
  <1>5. /\ n \in Check /\ n.about \subseteq due /\ n.pc # "mailed" /\ n.at \in {0, now}
        /\ n.pc = "mailing" => n.sent = stamp[k] /\ n.at = now
        /\ n.pc \in {"idle", "mailing"}
    BY <1>4, NoCheckIs
  <1> HIDE DEF n, m
  <1>6. OnTopic(k, now, n, unstamped[k])
    BY <1>2, <1>3, <1>5, TimesAreNumbers DEF OnTopic
  <1>7. DecidedWell(n, stamp[k])
    BY <1>2, <1>5 DEF DecidedWell
  <1>8. spent' \in [Providers -> SUBSET ApiKeys] /\ flagged' \subseteq ApiKeys
    BY <1>1 DEF Inv, Typed
  <1> QED BY <1>1, <1>5, <1>6, <1>7, <1>8, OnlyTheCheck

\* A check that ends without a stamp.
LEMMA EndKeeps ==
    ASSUME Inv, NEW k \in Kinds, JobBecomes(k, NoCheck),
           UNCHANGED <<traffic, enabled, spent, flagged, stamp, mailed, unstamped>>
    PROVE  Inv'
  <1>1. OnTopic(k, now, NoCheck, unstamped[k])
    BY NoCheckIs, TimesAreNumbers DEF OnTopic, Inv, Typed, Fine
  <1>2. DecidedWell(NoCheck, stamp[k]) /\ NoCheck.pc # "mailed"
    BY NoCheckIs DEF DecidedWell
  <1>3. /\ spent' \in [Providers -> SUBSET ApiKeys] /\ flagged' \subseteq ApiKeys
        /\ job' = [job EXCEPT ![k] = NoCheck] /\ UNCHANGED <<stamp, mailed, unstamped, now, enabled>>
    BY DEF Inv, Typed, JobBecomes, traffic
  <1> QED BY <1>1, <1>2, <1>3, NoCheckIs, OnlyTheCheck

\* What a mail replaces: an older one, unless it left no stamp.
LEMMA MailIsLater ==
    ASSUME Inv, NEW k \in Kinds, job[k].pc = "mailing", NEW s \in job[k].about
    PROVE  /\ s \in AllSubjects /\ job[k].at \in Time
           /\ stamp[k][s] # Null => job[k].at - stamp[k][s] >= Cooldown
           /\ mailed[k][s] # Null /\ s \notin unstamped[k] => job[k].at - mailed[k][s] >= Cooldown
  <1>1. s \in AllSubjects /\ job[k].at \in Time /\ stamp[k][s] \in Stamp
    BY SubjectsOf DEF Inv, Typed, Fine, OnTopic, Check, Stamps
  <1>2. ~CoolingAt(stamp[k], s, job[k].at)
    BY DEF Inv, Fine, DecidedWell
  <1>3. ASSUME stamp[k][s] # Null PROVE job[k].at - stamp[k][s] >= Cooldown
    <2>1. stamp[k][s] \in Nat /\ job[k].at \in Nat
      BY <1>1, <1>3, TimesAreNumbers DEF Stamp
    <2>2. ~(job[k].at - stamp[k][s] < Cooldown)
      BY <1>2, <1>3 DEF CoolingAt
    <2> QED BY <2>1, <2>2, CooldownIsNumber
  <1>4. mailed[k][s] # Null /\ s \notin unstamped[k] => stamp[k][s] = mailed[k][s]
    BY <1>1 DEF Inv, Fine, Kept
  <1> QED BY <1>1, <1>3, <1>4

LEMMA MailedKeeps ==
    ASSUME Inv, NEW k \in Kinds, NEW ok \in BOOLEAN, Mailed(k, ok)
    PROVE  Inv'
  <1> DEFINE about == job[k].about
             st == stamp[k]
             ma == [s \in AllSubjects |-> IF s \in about THEN job[k].at ELSE mailed[k][s]]
             un == unstamped[k] \cup about
             n == IF ok THEN [job[k] EXCEPT !.pc = "mailed"] ELSE NoCheck
  <1>1. /\ job' = [job EXCEPT ![k] = n] /\ mailed' = [mailed EXCEPT ![k] = ma]
        /\ unstamped' = [unstamped EXCEPT ![k] = un]
        /\ UNCHANGED <<now, enabled, spent, flagged, stamp>> /\ job[k].pc = "mailing"
    BY DEF Mailed, JobBecomes, traffic
  <1>2. /\ job[k] \in Check /\ OnTopic(k, now, job[k], unstamped[k]) /\ Subjects(k) \subseteq AllSubjects
        /\ st \in Stamps /\ mailed[k] \in Stamps /\ DecidedWell(job[k], st)
        /\ Kept(st, mailed[k], unstamped[k]) /\ Backed(st, mailed[k]) /\ now \in Time
    BY SubjectsOf DEF Inv, Typed, Fine
  <1>3. n \in Check /\ n.about \subseteq about /\ n.pc \in {"idle", "mailed"}
        /\ (n.pc = "mailed" => n.about = about /\ n.at = job[k].at /\ n.sent = job[k].sent)
        /\ n.at <= now
    BY <1>2, NoCheckIs, TimesAreNumbers DEF Check, Phases, OnTopic
  <1>4. ma \in Stamps /\ un \in SUBSET AllSubjects
    BY <1>2 DEF Stamps, Stamp, Check, OnTopic
  <1>5. OnTopic(k, now, n, un)
    BY <1>2, <1>3 DEF OnTopic
  <1>6. DecidedWell(n, st)
    <2>1. job[k].sent = st /\ \A s \in about : ~CoolingAt(st, s, job[k].at)
      BY <1>1, <1>2 DEF DecidedWell
    <2> HIDE DEF n
    <2> QED BY <2>1, <1>3 DEF DecidedWell
  <1>7. Arrived(n, ma)
    <2>1. \A s \in about : ma[s] = job[k].at
      BY <1>2 DEF OnTopic
    <2> HIDE DEF n, ma
    <2> QED BY <2>1, <1>3 DEF Arrived
  <1>8. Kept(st, ma, un)
    BY <1>2 DEF Kept
  <1>9. Backed(st, ma)
    <2> SUFFICES ASSUME NEW s \in AllSubjects, st[s] # Null
                 PROVE  ma[s] # Null /\ st[s] <= ma[s]
      BY DEF Backed
    <2>1. CASE s \in about
      <3>1. job[k].at \in Time /\ job[k].at - st[s] >= Cooldown
        BY <1>1, <2>1, MailIsLater
      <3>2. st[s] \in Time
        BY <1>2 DEF Stamps, Stamp
      <3>3. st[s] \in Nat /\ job[k].at \in Nat /\ job[k].at # Null
        BY <3>1, <3>2, TimesAreNumbers
      <3>4. st[s] <= job[k].at
        <4> HIDE DEF st
        <4> QED BY <3>1, <3>3, CooldownIsNumber
      <3>5. ma[s] = job[k].at
        BY <2>1
      <3> QED BY <3>3, <3>4, <3>5
    <2>2. CASE s \notin about
      BY <1>2, <2>2 DEF Backed
    <2> QED BY <2>1, <2>2
  <1>10. Fine(k, now, n, st, ma, un)
    BY <1>5, <1>6, <1>7, <1>8, <1>9 DEF Fine
  <1>11. stamp' = [stamp EXCEPT ![k] = st] /\ now' = now /\ enabled' = enabled
         /\ spent' \in [Providers -> SUBSET ApiKeys] /\ flagged' \subseteq ApiKeys
    BY <1>1 DEF Inv, Typed
  <1> HIDE DEF n, ma, un, st
  <1> QED BY <1>1, <1>2, <1>3, <1>4, <1>10, <1>11, OneKind

LEMMA StampedKeeps ==
    ASSUME Inv, NEW k \in Kinds, Stamped(k)
    PROVE  Inv'
  <1> DEFINE about == job[k].about
             st == Restamped(k)
             ma == mailed[k]
             un == unstamped[k] \ about
  <1>1. /\ job' = [job EXCEPT ![k] = NoCheck] /\ stamp' = [stamp EXCEPT ![k] = st]
        /\ unstamped' = [unstamped EXCEPT ![k] = un]
        /\ UNCHANGED <<now, enabled, spent, flagged, mailed>> /\ job[k].pc = "mailed"
    BY DEF Stamped, JobBecomes, traffic
  <1>2. /\ job[k] \in Check /\ OnTopic(k, now, job[k], unstamped[k]) /\ Subjects(k) \subseteq AllSubjects
        /\ stamp[k] \in Stamps /\ ma \in Stamps /\ unstamped[k] \in SUBSET AllSubjects
        /\ Kept(stamp[k], ma, unstamped[k]) /\ Backed(stamp[k], ma) /\ now \in Time
    BY SubjectsOf DEF Inv, Typed, Fine
  <1>3. job[k].sent = stamp[k] /\ \A s \in about : ma[s] = job[k].at
    BY <1>1 DEF Inv, Fine, DecidedWell, Arrived
  <1>4. \A s \in AllSubjects : st[s] = IF s \in about THEN ma[s] ELSE stamp[k][s]
    BY <1>3 DEF Restamped
  <1>5. st \in Stamps /\ un \in SUBSET AllSubjects
    BY <1>2, <1>3 DEF Restamped, Stamps
  <1>6. OnTopic(k, now, NoCheck, un)
    BY <1>2, NoCheckIs, TimesAreNumbers DEF OnTopic
  <1>7. DecidedWell(NoCheck, st) /\ Arrived(NoCheck, ma)
    BY NoCheckIs DEF DecidedWell, Arrived
  <1> HIDE DEF st
  <1>8. Kept(st, ma, un)
    BY <1>2, <1>4 DEF Kept
  <1>9. Backed(st, ma)
    <2> SUFFICES ASSUME NEW s \in AllSubjects, st[s] # Null
                 PROVE  ma[s] # Null /\ st[s] <= ma[s]
      BY DEF Backed
    <2>1. CASE s \in about
      <3>1. job[k].at \in Nat /\ job[k].at # Null
        BY <1>2, TimesAreNumbers DEF Check
      <3>2. st[s] = job[k].at /\ ma[s] = job[k].at
        BY <1>3, <1>4, <2>1
      <3> QED BY <3>1, <3>2
    <2>2. CASE s \notin about
      BY <1>2, <1>4, <2>2 DEF Backed
    <2> QED BY <2>1, <2>2
  <1>10. Fine(k, now, NoCheck, st, ma, un)
    BY <1>6, <1>7, <1>8, <1>9 DEF Fine
  <1>11. mailed' = [mailed EXCEPT ![k] = ma] /\ now' = now /\ enabled' = enabled
         /\ spent' \in [Providers -> SUBSET ApiKeys] /\ flagged' \subseteq ApiKeys
    BY <1>1 DEF Inv, Typed
  <1> HIDE DEF ma, un
  <1> QED BY <1>1, <1>2, <1>5, <1>10, <1>11, NoCheckIs, OneKind

LEMMA CrashKeeps ==
    ASSUME Inv, Crash
    PROVE  Inv'
  <1>1. /\ job' = [k \in Kinds |-> NoCheck] /\ flagged' = {}
        /\ UNCHANGED <<now, enabled, spent, stamp, mailed, unstamped>>
    BY DEF Crash
  <1>2. Typed'
    BY <1>1, NoCheckIs DEF Inv, Typed
  <1>3. ASSUME NEW k \in Kinds
        PROVE  Fine(k, now, NoCheck, stamp[k], mailed[k], unstamped[k])
    <2>1. OnTopic(k, now, NoCheck, unstamped[k])
      BY NoCheckIs, TimesAreNumbers DEF OnTopic, Inv, Typed, Fine
    <2>2. DecidedWell(NoCheck, stamp[k]) /\ Arrived(NoCheck, mailed[k])
      BY NoCheckIs DEF DecidedWell, Arrived
    <2> QED BY <2>1, <2>2 DEF Inv, Fine
  <1> QED BY <1>1, <1>2, <1>3 DEF Inv

-----------------------------------------------------------------------------
(* The theorems *)

LEMMA Initial == Init => Inv
  <1> SUFFICES ASSUME Init PROVE Inv
    OBVIOUS
  <1>1. Typed
    BY NoCheckIs, TimesAreNumbers DEF Init, TrafficInit, Typed, Stamps, Stamp
  <1>2. ASSUME NEW k \in Kinds
        PROVE  Fine(k, now, job[k], stamp[k], mailed[k], unstamped[k])
    <2>1. /\ job[k] = NoCheck /\ now = 0 /\ unstamped[k] = {}
          /\ \A s \in AllSubjects : stamp[k][s] = Null /\ mailed[k][s] = Null
      BY DEF Init, TrafficInit
    <2>2. OnTopic(k, now, job[k], unstamped[k])
      BY <2>1, NoCheckIs DEF OnTopic
    <2>3. DecidedWell(job[k], stamp[k]) /\ Arrived(job[k], mailed[k])
      BY <2>1, NoCheckIs DEF DecidedWell, Arrived
    <2>4. Kept(stamp[k], mailed[k], unstamped[k]) /\ Backed(stamp[k], mailed[k])
      BY <2>1 DEF Kept, Backed
    <2> QED BY <2>2, <2>3, <2>4 DEF Fine
  <1> QED BY <1>1, <1>2 DEF Inv

LEMMA StepKeeps == Inv /\ [Next]_vars => Inv'
  <1> SUFFICES ASSUME Inv, [Next]_vars PROVE Inv'
    OBVIOUS
  <1>1. ASSUME NEW k \in Kinds, Checked(k) PROVE Inv'
    <2>1. CASE Decided(k)
      BY <2>1, DecidedKeeps
    <2>2. CASE \E ok \in BOOLEAN : Mailed(k, ok)
      BY <2>2, MailedKeeps
    <2>3. CASE NotMailed(k) \/ CheckFailed(k)
      BY <2>3, EndKeeps DEF NotMailed, CheckFailed
    <2>4. CASE Stamped(k)
      BY <2>4, StampedKeeps
    <2> QED BY <1>1, <2>1, <2>2, <2>3, <2>4 DEF Checked
  <1>2. enabled \subseteq Kinds
    BY DEF Inv, Typed
  <1>3. CASE \E k \in enabled : Checked(k)
    BY <1>1, <1>2, <1>3
  <1>4. CASE Crash
    BY <1>4, CrashKeeps
  <1>5. CASE UNCHANGED vars
    <2>1. UNCHANGED <<now, enabled, spent, flagged, job, stamp, mailed, unstamped>>
      BY <1>5 DEF vars, traffic, alerts
    <2> QED BY <2>1 DEF Inv, Typed
  <1> QED BY <1>3, <1>4, <1>5, TrafficKeeps, ProvidersKeep, SamplesKeep DEF Next

\* The types hold, whatever the callers, the keys and the bound on the clock.
THEOREM AlertsTyped == Spec => []TypeOK
  <1>1. Inv => TypeOK
    <2> SUFFICES ASSUME Inv PROVE TypeOK
      OBVIOUS
    <2>1. ASSUME NEW k \in Kinds
          PROVE  /\ job[k].pc \in Phases /\ job[k].about \subseteq Subjects(k) /\ job[k].at \in 0 .. now
                 /\ job[k].sent \in Stamps /\ stamp[k] \in Stamps /\ mailed[k] \in Stamps
                 /\ unstamped[k] \subseteq Subjects(k)
      <3>1. /\ job[k] \in Check /\ stamp[k] \in Stamps /\ mailed[k] \in Stamps /\ now \in Time
            /\ OnTopic(k, now, job[k], unstamped[k])
        BY DEF Inv, Typed, Fine
      <3>2. job[k].pc \in Phases /\ job[k].sent \in Stamps /\ job[k].at \in Time
        BY <3>1 DEF Check
      <3>3. job[k].at \in 0 .. now
        <4>1. job[k].at \in Nat /\ now \in Nat
          BY <3>1, <3>2, TimesAreNumbers
        <4>2. job[k].at <= now
          BY <3>1 DEF OnTopic
        <4> QED BY <4>1, <4>2
      <3> QED BY <3>1, <3>2, <3>3 DEF OnTopic
    <2> QED BY <2>1 DEF TypeOK, Phases, Stamps, Inv, Typed
  <1> QED BY <1>1, Initial, StepKeeps, PTL DEF Spec

\* No stamp is later than the last mail delivered about its subject.
THEOREM StampsFollowMails == Spec => []NoSilentCooldown
  <1>1. Inv => NoSilentCooldown
    BY DEF Inv, Fine, Backed, NoSilentCooldown
  <1> QED BY <1>1, Initial, StepKeeps, PTL DEF Spec

\* Two mails about one subject are decided a cooldown apart, unless the stamp
\* of the first was lost.
THEOREM MailsKeepTheirDistance == Spec => MailsSpaced
  <1> DEFINE Spaced ==
        \A k \in Kinds, s \in AllSubjects :
            mailed'[k][s] # mailed[k][s] =>
               \/ mailed[k][s] = Null \/ s \in unstamped[k]
               \/ mailed'[k][s] - mailed[k][s] >= Cooldown
  <1>1. Inv /\ [Next]_vars => [Spaced]_vars
    <2> SUFFICES ASSUME Inv, Next, NEW k \in Kinds, NEW s \in AllSubjects,
                        mailed'[k][s] # mailed[k][s], mailed[k][s] # Null, s \notin unstamped[k]
                 PROVE  mailed'[k][s] - mailed[k][s] >= Cooldown
      OBVIOUS
    <2>1. PICK l \in Kinds, ok \in BOOLEAN : Mailed(l, ok)
      <3>1. mailed' # mailed
        OBVIOUS
      <3>2. enabled \subseteq Kinds
        BY DEF Inv, Typed
      <3> QED BY <3>1, <3>2 DEF Next, alerts, QuotaRenewed, KeySpent, FlagExpired, QuotaSampled, RateSampled,
                   SilenceSampled, Checked, Decided, NotMailed, Stamped, CheckFailed, Crash
    <2>2. mailed' = [mailed EXCEPT ![l] = [r \in AllSubjects |-> IF r \in job[l].about THEN job[l].at ELSE mailed[l][r]]]
          /\ job[l].pc = "mailing"
      BY <2>1 DEF Mailed
    <2>3. l = k /\ s \in job[k].about /\ mailed'[k][s] = job[k].at
      BY <2>2 DEF Inv, Typed
    <2> QED BY <2>2, <2>3, MailIsLater
  <1> QED BY <1>1, Initial, StepKeeps, PTL DEF Spec, MailsSpaced
==============================================================================
