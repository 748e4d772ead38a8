------------------------------ MODULE JobsProofs ------------------------------
(***************************************************************************)
(* Proofs about settings, their cache and the scheduler, for any services, *)
(* plans and threads: the types, SchedulesFollow, StaleOnlyByRace, and that *)
(* Jobs implements Schedule.                                               *)
(***************************************************************************)
EXTENDS JobsProps, TLAPS

Slot(f) == IF f = "switch" THEN Switch ELSE Plans

Typed ==
    /\ kind \in [Services -> Kinds]
    /\ stored \in [Services -> Configs]
    /\ job \in [Services -> Plans \cup {Null}]
    /\ missed \in SUBSET Services
    /\ cache \in [Services -> Partial]
    /\ suspect \in SUBSET (Services \X Fields)
    /\ lock \in Threads \cup {Null} /\ left \in SUBSET Services
    /\ thread \in [Threads -> Thread]

\* What a thread is doing agrees with the lock and with what start() has left.
Phase(k) ==
    /\ k.pc # "idle" => k.s \in Services
    /\ k.pc \in {"saving", "written"} => k.job = "save"
    /\ k.pc = "waiting" => k.job \in {"save", "start"} /\ k.got = Unread
    /\ k.pc \in {"reading", "loaded"} => k.job \in {"save", "start", "run"}
    /\ k.pc = "idle" => k = Idle
    /\ k.gone => k.job \in {"save", "start"} /\ k.pc \in {"reading", "loaded"}
    /\ k.pc = "loaded" => k.field = NextField(k) /\ k.val \in Slot(k.field)
Phases == \A t \in Threads : Phase(thread[t])

Holding ==
    \A t \in Threads :
        /\ thread[t].pc \in {"reading", "loaded"} /\ thread[t].job # "run" => lock = t
        /\ thread[t].job = "start" => lock = t /\ thread[t].s \in left
        /\ thread[t].job \in {"save", "run"} => left = {}

\* What a thread read as stored for a service it reschedules is still stored,
\* or somebody has changed it since, who is at it or has failed.
Changing(t, s) == s \in missed \/ \E u \in Threads \ {t} : Saving(u, s)
Rescheduling(k) == k.job \in {"save", "start"} /\ k.pc \in {"reading", "loaded"}
ReadAsStored ==
    \A t \in Threads :
        Rescheduling(thread[t]) /\ ~Changing(t, thread[t].s) =>
            /\ thread[t].misread \/ AsStored(thread[t])
            /\ thread[t].pc = "loaded" => thread[t].val = stored[thread[t].s][thread[t].field]

\* A value read from the database is stored still, or will be suspect.
Written(s, f) == \E t \in Threads : /\ thread[t].pc = "written"
                                    /\ thread[t].s = s /\ thread[t].field = f
LoadedFresh ==
    \A t \in Threads :
        thread[t].pc = "loaded" =>
            \/ thread[t].val = stored[thread[t].s][thread[t].field]
            \/ <<thread[t].s, thread[t].field>> \in suspect
            \/ Written(thread[t].s, thread[t].field)

Bounded == saves \in 0 .. MaxSaves /\ crashes \in 0 .. MaxCrashes

Inv == Typed /\ Phases /\ Holding

USE ScheduleAssumption, JobsAssumption
-----------------------------------------------------------------------------
(* Settings *)

LEMMA FieldsAre == Fields = {"switch", "plan"} /\ Slot("switch") = Switch /\ Slot("plan") = Plans
  BY DEF Fields, Slot

LEMMA SlotValues == \A f \in Fields : Slot(f) \subseteq Values /\ Null \notin Slot(f)
  BY DEF Fields, Slot, Values

\* Reading a partial configuration.
LEMMA PartialValue ==
    ASSUME NEW c \in Partial, NEW f \in Fields
    PROVE  c[f] \in Slot(f) \cup {Null}
  BY DEF Partial, Slot, Fields

LEMMA ConfigValue ==
    ASSUME NEW c \in Configs, NEW f \in Fields
    PROVE  c[f] \in Slot(f) /\ c[f] # Null
  BY DEF Configs, Slot, Fields, Values

LEMMA PartialUpdate ==
    ASSUME NEW c \in Partial, NEW f \in Fields, NEW v \in Slot(f) \cup {Null}
    PROVE  [c EXCEPT ![f] = v] \in Partial
  <1>1. v \in Values \cup {Null}
    BY SlotValues
  <1> QED BY <1>1 DEF Partial, Slot, Fields

LEMMA ConfigUpdate ==
    ASSUME NEW c \in Configs, NEW f \in Fields, NEW v \in Slot(f)
    PROVE  [c EXCEPT ![f] = v] \in Configs
  <1>1. v \in Values
    BY SlotValues
  <1> QED BY <1>1 DEF Configs, Slot, Fields

LEMMA ConfigPartial == \A c \in Configs : c \in Partial
  BY DEF Configs, Partial

LEMMA UnreadPartial == Unread \in Partial /\ Unread["switch"] = Null /\ Unread["plan"] = Null
  BY DEF Unread, Partial, Fields

LEMMA DefaultSlot == \A f \in Fields : Default(f) \in Slot(f)
  BY DEF Default, Slot, Fields, Switch

LEMMA IdleTyped == Idle \in Thread /\ Idle.pc = "idle" /\ Idle.job = "none" /\ ~Idle.gone
  BY UnreadPartial DEF Idle, Thread, Fields, Values

LEMMA NextFieldIn == \A k : NextField(k) \in Fields
  BY DEF NextField, Fields

\* A trigger is made of what has been read of the settings, and only that.
LEMMA PlannedType ==
    ASSUME NEW q \in Kinds, NEW c \in Partial, c["switch"] # Null,
           c["plan"] # Null \/ q = "minute" \/ (q = "quota" /\ c["switch"] = "off")
    PROVE  Planned(q, c) \in Plans \cup {Null}
  BY DEF Planned, Kinds, Partial, Switch, TimedTrigger, QuotaTrigger, MinuteTrigger

LEMMA PlannedSame ==
    ASSUME NEW q \in Kinds, NEW c \in Partial, NEW d \in Partial,
           c["switch"] # Null, d["switch"] = c["switch"],
           \/ c["plan"] # Null /\ d["plan"] = c["plan"]
           \/ q = "minute" \/ (q = "quota" /\ c["switch"] = "off")
    PROVE  Planned(q, c) = Planned(q, d)
  BY DEF Planned, Kinds, Partial, Switch, TimedTrigger, QuotaTrigger, MinuteTrigger

-----------------------------------------------------------------------------
(* Types *)

LEMMA InitTyped == Init => Typed /\ Phases /\ Holding
  <1> SUFFICES ASSUME Init PROVE Typed /\ Phases /\ Holding
    OBVIOUS
  <1>1. Typed
    BY IdleTyped, UnreadPartial DEF Init, Typed
  <1>2. Phases
    BY IdleTyped DEF Init, Phases, Phase
  <1>3. Holding
    BY IdleTyped DEF Init, Holding
  <1> QED BY <1>1, <1>2, <1>3

\* What a thread has read is kept until it reads the next field.
LEMMA ReturnsTyped ==
    \A k \in Thread : \A v \in Slot(NextField(k)), b \in BOOLEAN :
        /\ k.pc \in {"reading", "loaded"} /\ k.s \in Services
        /\ k.job \in {"save", "start", "run"} /\ (k.gone => k.job \in {"save", "start"})
        => /\ Returns(k, v, b) \in Thread
           /\ Phase(Returns(k, v, b))
           /\ Returns(k, v, b).pc = "reading" /\ Returns(k, v, b).job = k.job
           /\ Returns(k, v, b).s = k.s /\ Returns(k, v, b).gone = k.gone
  <1> TAKE k \in Thread
  <1> TAKE v \in Slot(NextField(k)), b \in BOOLEAN
  <1> HAVE /\ k.pc \in {"reading", "loaded"} /\ k.s \in Services
           /\ k.job \in {"save", "start", "run"} /\ (k.gone => k.job \in {"save", "start"})
  <1>1. [k.got EXCEPT ![NextField(k)] = v] \in Partial
    BY PartialUpdate, NextFieldIn DEF Thread
  <1> QED BY <1>1 DEF Returns, Thread, Phase, Fields

\* Only the step of a thread t to k: what it must be like.
LEMMA ThreadStep ==
    ASSUME Inv, NEW t \in Threads, NEW k \in Thread, Phase(k), Becomes(t, k)
    PROVE  /\ thread' \in [Threads -> Thread]
           /\ Phases'
           /\ thread'[t] = k
           /\ \A u \in Threads \ {t} : thread'[u] = thread[u]
  <1>1. thread \in [Threads -> Thread]
    BY DEF Inv, Typed
  <1>2. thread' = [thread EXCEPT ![t] = k]
    BY DEF Becomes
  <1>3. \A u \in Threads : Phase(thread'[u])
    BY <1>1, <1>2 DEF Inv, Phases
  <1>4. Phases'
    BY <1>3 DEF Phases, Phase, NextField, Slot, Idle
  <1> QED BY <1>1, <1>2, <1>4

\* A step of the types, of the phases and of the lock, action by action.
LEMMA ReadSteps ==
    ASSUME Inv, NEW t \in Threads,
           CacheHit(t) \/ CacheMissed(t) \/ CacheFilled(t) \/ ReadFailed(t)
    PROVE  Inv'
  <1> DEFINE k == thread[t]
             f == NextField(k)
  <1>0. k \in Thread /\ Phase(k) /\ f \in Fields
    BY NextFieldIn DEF Inv, Typed, Phases
  <1>1. k.pc \in {"reading", "loaded"} /\ k.s \in Services /\ k.job \in {"save", "start", "run"}
        /\ (k.gone => k.job \in {"save", "start"})
    BY <1>0 DEF CacheHit, CacheMissed, CacheFilled, ReadFailed, ReadBegun, Phase
  <1>2. cache[k.s] \in Partial /\ stored[k.s] \in Configs
    BY <1>1 DEF Inv, Typed
  <1>3. PICK v \in Slot(f), b \in BOOLEAN :
            \/ Becomes(t, Returns(k, v, b))
            \/ /\ k.pc = "reading" /\ v = stored[k.s][f]
               /\ Becomes(t, [k EXCEPT !.pc = "loaded", !.field = f, !.val = v])
    <2>1. CASE CacheHit(t)
      BY <2>1, <1>0, <1>2, PartialValue DEF CacheHit
    <2>2. CASE CacheMissed(t)
      BY <2>2, <1>0, <1>2, ConfigValue DEF CacheMissed, ReadBegun
    <2>3. CASE CacheFilled(t)
      BY <2>3, <1>0 DEF CacheFilled, Phase
    <2>4. CASE ReadFailed(t)
      BY <2>4, <1>0, DefaultSlot DEF ReadFailed
    <2> QED BY <2>1, <2>2, <2>3, <2>4
  <1>4. PICK n \in Thread :
            /\ Becomes(t, n) /\ Phase(n) /\ n.pc \in {"reading", "loaded"}
            /\ n.job = k.job /\ n.s = k.s /\ n.gone = k.gone
    <2>1. CASE Becomes(t, Returns(k, v, b))
      <3> DEFINE n == Returns(k, v, b)
      <3>1. n \in Thread /\ Phase(n) /\ n.pc = "reading"
            /\ n.job = k.job /\ n.s = k.s /\ n.gone = k.gone
        BY <1>0, <1>1, ReturnsTyped
      <3> QED BY <3>1, <2>1
    <2>2. CASE /\ k.pc = "reading" /\ v = stored[k.s][f]
               /\ Becomes(t, [k EXCEPT !.pc = "loaded", !.field = f, !.val = v])
      <3> DEFINE n == [k EXCEPT !.pc = "loaded", !.field = f, !.val = v]
      <3>1. n \in Thread
        BY <1>0, SlotValues DEF Thread
      <3>2. Phase(n)
        BY <1>0, <1>1 DEF Thread, Phase, NextField
      <3> QED BY <3>1, <3>2, <2>2, <1>0 DEF Thread
    <2> QED BY <1>3, <2>1, <2>2
  <1>5. cache' \in [Services -> Partial]
    <2>1. CASE cache' = cache
      BY <2>1 DEF Inv, Typed
    <2>2. CASE CacheFilled(t) /\ cache' = With(cache, k.s, k.field, k.val)
      BY <2>2, <1>0, <1>1, <1>2, PartialUpdate DEF CacheFilled, Phase, With, Inv, Typed
    <2> QED BY <2>1, <2>2 DEF CacheHit, CacheMissed, CacheFilled, ReadFailed
  <1>6. UNCHANGED <<kind, stored, job, missed, suspect, lock, left>>
    BY DEF CacheHit, CacheMissed, CacheFilled, ReadFailed
  <1>7. /\ thread' \in [Threads -> Thread] /\ Phases' /\ thread'[t] = n
        /\ \A u \in Threads \ {t} : thread'[u] = thread[u]
    BY <1>4, ThreadStep
  <1>8. Typed'
    BY <1>5, <1>6, <1>7 DEF Inv, Typed
  <1>9. Holding'
    BY <1>1, <1>4, <1>6, <1>7 DEF Inv, Holding
  <1> QED BY <1>7, <1>8, <1>9 DEF Inv

LEMMA IdlePhase == Phase(Idle)
  BY IdleTyped DEF Phase

LEMMA SaveSteps ==
    ASSUME Inv, NEW t \in Threads,
           \/ \E s \in Services, new \in Configs : SaveBegan(t, s, new)
           \/ \E f \in Fields : KeySaved(t, f)
           \/ Invalidated(t) \/ SaveFailed(t) \/ KeysSaved(t)
    PROVE  Inv'
  <1> DEFINE k == thread[t]
  <1>0. k \in Thread /\ Phase(k)
    BY DEF Inv, Typed, Phases
  <1>1. PICK n \in Thread :
            /\ Becomes(t, n) /\ Phase(n)
            /\ n.pc \notin {"reading", "loaded"}
            /\ n.job \in {"none", "save"} /\ (n.job = "save" => left = {})
    <2>1. CASE \E s \in Services, new \in Configs : SaveBegan(t, s, new)
      <3>1. PICK s \in Services, new \in Configs : SaveBegan(t, s, new)
        BY <2>1
      <3> DEFINE n == [Idle EXCEPT !.pc = "saving", !.job = "save", !.s = s, !.new = new]
      <3>2. n \in Thread /\ Phase(n) /\ n.pc = "saving" /\ n.job = "save"
        BY IdleTyped, ConfigPartial, UnreadPartial DEF Thread, Phase, Idle
      <3> QED BY <3>1, <3>2 DEF SaveBegan, Running
    <2>2. CASE \E f \in Fields : KeySaved(t, f)
      <3>1. PICK f \in Fields : KeySaved(t, f)
        BY <2>2
      <3> DEFINE rest == [k EXCEPT !.new = [k.new EXCEPT ![f] = Null]]
      <3>2. [k.new EXCEPT ![f] = Null] \in Partial
        BY <1>0, PartialUpdate DEF Thread
      <3>3. k.pc = "saving" /\ k.job = "save" /\ left = {} /\ k.s \in Services
        BY <1>0, <3>1 DEF KeySaved, Phase, Inv, Holding
      <3>4. rest \in Thread /\ Phase(rest) /\ rest.pc = "saving" /\ rest.job = "save"
        BY <1>0, <3>2, <3>3 DEF Thread, Phase
      <3> DEFINE n == [rest EXCEPT !.pc = "written", !.field = f]
      <3>5. n \in Thread /\ Phase(n) /\ n.pc = "written" /\ n.job = "save"
        BY <1>0, <3>3, <3>4 DEF Thread, Phase
      <3> QED BY <3>1, <3>3, <3>4, <3>5 DEF KeySaved
    <2>3. CASE Invalidated(t)
      <3> DEFINE n == [k EXCEPT !.pc = "saving", !.field = "switch"]
      <3>1. k.pc = "written" /\ k.job = "save" /\ left = {} /\ k.s \in Services
        BY <1>0, <2>3 DEF Invalidated, Phase, Inv, Holding
      <3>2. n \in Thread /\ Phase(n) /\ n.pc = "saving" /\ n.job = "save"
        BY <1>0, <3>1 DEF Thread, Phase, Fields
      <3> QED BY <3>1, <3>2, <2>3 DEF Invalidated
    <2>4. CASE SaveFailed(t)
      BY <2>4, IdleTyped, IdlePhase DEF SaveFailed
    <2>5. CASE KeysSaved(t)
      <3> DEFINE n == [Idle EXCEPT !.pc = "waiting", !.job = "save", !.s = k.s]
      <3>1. k.pc = "saving" /\ k.job = "save" /\ left = {} /\ k.s \in Services
        BY <1>0, <2>5 DEF KeysSaved, Phase, Inv, Holding
      <3>2. n \in Thread /\ Phase(n) /\ n.pc = "waiting" /\ n.job = "save"
        BY <3>1, IdleTyped, UnreadPartial DEF Thread, Phase, Idle
      <3> QED BY <3>1, <3>2, <2>5 DEF KeysSaved
    <2> QED BY <2>1, <2>2, <2>3, <2>4, <2>5
  <1>2. stored' \in [Services -> Configs]
    <2>1. CASE stored' = stored
      BY <2>1 DEF Inv, Typed
    <2>2. CASE \E f \in Fields : /\ KeySaved(t, f) /\ k.new[f] # Null
                                 /\ stored' = With(stored, k.s, f, k.new[f])
      <3>1. PICK f \in Fields : /\ KeySaved(t, f) /\ k.new[f] # Null
                                /\ stored' = With(stored, k.s, f, k.new[f])
        BY <2>2
      <3>2. k.s \in Services /\ k.new[f] \in Slot(f)
        BY <1>0, <3>1, PartialValue DEF KeySaved, Phase, Thread
      <3>3. [stored[k.s] EXCEPT ![f] = k.new[f]] \in Configs
        BY <3>2, ConfigUpdate DEF Inv, Typed
      <3> QED BY <3>1, <3>2, <3>3 DEF With, Inv, Typed
    <2> QED BY <2>1, <2>2 DEF SaveBegan, KeySaved, Invalidated, SaveFailed, KeysSaved
  <1>3. cache' \in [Services -> Partial]
    <2>1. CASE cache' = cache
      BY <2>1 DEF Inv, Typed
    <2>2. CASE Invalidated(t)
      <3>1. k.s \in Services /\ k.field \in Fields
        BY <1>0, <2>2 DEF Invalidated, Phase, Thread
      <3>2. [cache[k.s] EXCEPT ![k.field] = Null] \in Partial
        BY <3>1, PartialUpdate DEF Inv, Typed
      <3> QED BY <2>2, <3>1, <3>2 DEF Invalidated, With, Inv, Typed
    <2> QED BY <2>1, <2>2 DEF SaveBegan, KeySaved, SaveFailed, KeysSaved
  <1>4. missed' \in SUBSET Services /\ suspect' \in SUBSET (Services \X Fields)
    <2>1. CASE missed' = missed /\ suspect' = suspect
      BY <2>1 DEF Inv, Typed
    <2>2. CASE Invalidated(t) \/ SaveFailed(t)
      <3>1. k.s \in Services /\ k.field \in Fields
        BY <1>0, <2>2 DEF Invalidated, SaveFailed, Phase, Thread
      <3> QED BY <2>2, <3>1 DEF Invalidated, SaveFailed, Inv, Typed
    <2> QED BY <2>1, <2>2 DEF SaveBegan, KeySaved, KeysSaved
  <1>5. UNCHANGED <<kind, job, lock, left>>
    BY DEF SaveBegan, KeySaved, Invalidated, SaveFailed, KeysSaved
  <1>6. /\ thread' \in [Threads -> Thread] /\ Phases' /\ thread'[t] = n
        /\ \A u \in Threads \ {t} : thread'[u] = thread[u]
    BY <1>1, ThreadStep
  <1>7. Typed'
    BY <1>2, <1>3, <1>4, <1>5, <1>6 DEF Inv, Typed
  <1>8. Holding'
    BY <1>1, <1>5, <1>6 DEF Inv, Holding
  <1> QED BY <1>6, <1>7, <1>8 DEF Inv

LEMMA LockSteps ==
    ASSUME Inv, NEW t \in Threads, StartBegan(t) \/ Locked(t) \/ JobRemoved(t)
    PROVE  Inv'
  <1> DEFINE k == thread[t]
  <1>0. k \in Thread /\ Phase(k)
    BY DEF Inv, Typed, Phases
  <1>1. PICK n \in Thread :
            /\ Becomes(t, n) /\ Phase(n) /\ n.job \in {"save", "start", "run"}
            /\ (n.job = "start" => n.s \in left)
            /\ (n.job \in {"save", "run"} => left = {})
            /\ lock' = t
    <2>1. CASE StartBegan(t)
      <3>1. PICK s \in left :
                Becomes(t, [Idle EXCEPT !.pc = "waiting", !.job = "start", !.s = s])
        BY <2>1 DEF StartBegan
      <3> DEFINE n == [Idle EXCEPT !.pc = "waiting", !.job = "start", !.s = s]
      <3>2. s \in Services
        BY DEF Inv, Typed
      <3>3. n \in Thread /\ Phase(n) /\ n.job = "start" /\ n.s = s
        BY <3>2, IdleTyped, UnreadPartial DEF Thread, Phase, Idle
      <3> QED BY <3>1, <3>3, <2>1 DEF StartBegan
    <2>2. CASE Locked(t)
      <3> DEFINE n == [k EXCEPT !.pc = "reading"]
      <3>1. n \in Thread /\ Phase(n) /\ n.job = k.job /\ n.s = k.s /\ n.job \in {"save", "start"}
        BY <1>0, <2>2 DEF Locked, Thread, Phase
      <3> QED BY <3>1, <2>2 DEF Locked, Inv, Holding
    <2>3. CASE JobRemoved(t)
      <3> DEFINE n == [k EXCEPT !.gone = TRUE]
      <3>1. k.job \in {"save", "start"} /\ k.pc = "reading" /\ lock = t
        BY <1>0, <2>3 DEF JobRemoved, Phase, Inv, Holding
      <3>2. n \in Thread /\ Phase(n) /\ n.job = k.job /\ n.s = k.s
        BY <1>0, <3>1 DEF Thread, Phase
      <3> QED BY <3>1, <3>2, <2>3 DEF JobRemoved, Inv, Holding
    <2> QED BY <2>1, <2>2, <2>3
  <1>2. lock \in {Null, t}
    BY <1>0 DEF StartBegan, Locked, JobRemoved, Phase, Inv, Holding
  <1>3. UNCHANGED <<kind, stored, missed, cache, suspect, left>>
    BY DEF StartBegan, Locked, JobRemoved
  <1>4. job' \in [Services -> Plans \cup {Null}]
    BY DEF StartBegan, Locked, JobRemoved, Inv, Typed
  <1>5. /\ thread' \in [Threads -> Thread] /\ Phases' /\ thread'[t] = n
        /\ \A u \in Threads \ {t} : thread'[u] = thread[u]
    BY <1>1, ThreadStep
  <1>6. Typed'
    BY <1>1, <1>3, <1>4, <1>5 DEF Inv, Typed
  <1>7. Holding'
    BY <1>1, <1>2, <1>3, <1>5 DEF Inv, Holding
  <1> QED BY <1>5, <1>6, <1>7 DEF Inv

\* What the thread that adds a job knows.
LEMMA AddingFacts ==
    ASSUME Inv, NEW t \in Threads, JobAdded(t)
    PROVE  LET k == thread[t] IN
           /\ k \in Thread /\ k.s \in Services /\ k.job \in {"save", "start"} /\ lock = t
           /\ k.got \in Partial /\ k.got["switch"] # Null
           /\ \/ k.got["plan"] # Null \/ kind[k.s] = "minute"
              \/ kind[k.s] = "quota" /\ k.got["switch"] = "off"
           /\ kind[k.s] \in Kinds
           /\ Planned(kind[k.s], k.got) \in Plans \cup {Null}
  <1> DEFINE k == thread[t]
  <1>1. k \in Thread /\ Phase(k)
    BY DEF Inv, Typed, Phases
  <1>2. k.s \in Services /\ k.job \in {"save", "start"} /\ lock = t
    BY <1>1 DEF JobAdded, Phase, Inv, Holding
  <1>3. /\ k.got \in Partial /\ k.got["switch"] # Null
        /\ \/ k.got["plan"] # Null \/ kind[k.s] = "minute"
           \/ kind[k.s] = "quota" /\ k.got["switch"] = "off"
    BY <1>1, <1>2 DEF JobAdded, Complete, Thread
  <1>4. kind[k.s] \in Kinds
    BY <1>2 DEF Inv, Typed
  <1> QED BY <1>1, <1>2, <1>3, <1>4, PlannedType

LEMMA AddStep ==
    ASSUME Inv, NEW t \in Threads, JobAdded(t)
    PROVE  Inv'
  <1> DEFINE k == thread[t]
             more == left \ {k.s}
  <1>0. k \in Thread /\ k.s \in Services /\ k.job \in {"save", "start"} /\ lock = t
        /\ Planned(kind[k.s], k.got) \in Plans \cup {Null}
    BY AddingFacts
  <1>1. PICK n \in Thread :
            /\ Becomes(t, n) /\ Phase(n) /\ n.pc \notin {"reading", "loaded"}
            /\ \/ n.job = "start" /\ n.s \in more /\ lock' = lock
               \/ n.job = "none" /\ lock' = Null
    <2>1. CASE k.job = "start" /\ more # {}
      <3>1. PICK s \in more :
                Becomes(t, [Idle EXCEPT !.pc = "waiting", !.job = "start", !.s = s])
        BY <2>1 DEF JobAdded
      <3> DEFINE n == [Idle EXCEPT !.pc = "waiting", !.job = "start", !.s = s]
      <3>2. s \in Services
        BY DEF Inv, Typed
      <3>3. n \in Thread /\ Phase(n) /\ n.job = "start" /\ n.s = s /\ n.pc = "waiting"
        BY <3>2, IdleTyped, UnreadPartial DEF Thread, Phase, Idle
      <3> QED BY <3>1, <3>3, <2>1 DEF JobAdded
    <2>2. CASE ~(k.job = "start" /\ more # {})
      BY <2>2, IdleTyped, IdlePhase DEF JobAdded
    <2> QED BY <2>1, <2>2
  <1>2. left' = more /\ UNCHANGED <<kind, stored, cache, suspect>>
    BY DEF JobAdded
  <1>3. job' \in [Services -> Plans \cup {Null}]
    BY <1>0 DEF JobAdded, Inv, Typed
  <1>4. missed' \in SUBSET Services
    BY <1>0 DEF JobAdded, Inv, Typed
  <1>5. /\ thread' \in [Threads -> Thread] /\ Phases' /\ thread'[t] = n
        /\ \A u \in Threads \ {t} : thread'[u] = thread[u]
    BY <1>1, ThreadStep
  <1>6. Typed'
    BY <1>0, <1>1, <1>2, <1>3, <1>4, <1>5 DEF Inv, Typed
  <1>7. Holding'
    BY <1>0, <1>1, <1>2, <1>5 DEF Inv, Holding
  <1> QED BY <1>5, <1>6, <1>7 DEF Inv

LEMMA OtherSteps ==
    ASSUME Inv,
           \/ \E t \in Threads : JobRan(t) \/ \E s \in Services : JobFired(t, s)
           \/ \E s \in Services, f \in Fields : CacheExpired(s, f)
           \/ Crash \/ UNCHANGED vars
    PROVE  Inv'
  <1>1. CASE \E t \in Threads : JobRan(t) \/ \E s \in Services : JobFired(t, s)
    <2>1. PICK t \in Threads : JobRan(t) \/ \E s \in Services : JobFired(t, s)
      BY <1>1
    <2>2. PICK n \in Thread :
              /\ Becomes(t, n) /\ Phase(n)
              /\ n.job \in {"none", "run"} /\ (n.job = "run" => left = {})
      <3>1. CASE JobRan(t)
        BY <3>1, IdleTyped, IdlePhase DEF JobRan
      <3>2. CASE \E s \in Services : JobFired(t, s)
        <4>1. PICK s \in Services : JobFired(t, s)
          BY <3>2
        <4> DEFINE n == [Idle EXCEPT !.pc = "reading", !.job = "run", !.s = s]
        <4>2. n \in Thread /\ Phase(n) /\ n.job = "run"
          BY IdleTyped, UnreadPartial DEF Thread, Phase, Idle
        <4> QED BY <4>1, <4>2 DEF JobFired, Running
      <3> QED BY <2>1, <3>1, <3>2
    <2>3. UNCHANGED <<kind, stored, job, missed, cache, suspect, lock, left>>
      BY <2>1 DEF JobRan, JobFired
    <2>4. /\ thread' \in [Threads -> Thread] /\ Phases' /\ thread'[t] = n
          /\ \A u \in Threads \ {t} : thread'[u] = thread[u]
      BY <2>2, ThreadStep
    <2>5. Typed'
      BY <2>3, <2>4 DEF Inv, Typed
    <2>6. Holding'
      BY <2>2, <2>3, <2>4 DEF Inv, Holding, Phase
    <2> QED BY <2>4, <2>5, <2>6 DEF Inv
  <1>2. CASE \E s \in Services, f \in Fields : CacheExpired(s, f)
    <2>1. PICK s \in Services, f \in Fields : CacheExpired(s, f)
      BY <1>2
    <2>2. [cache[s] EXCEPT ![f] = Null] \in Partial
      BY PartialUpdate DEF Inv, Typed
    <2>3. Typed'
      BY <2>1, <2>2 DEF CacheExpired, With, Inv, Typed
    <2>4. Phases' /\ Holding'
      BY <2>1 DEF CacheExpired, Inv, Phases, Phase, Holding, NextField, Slot, Idle
    <2> QED BY <2>3, <2>4 DEF Inv
  <1>3. CASE Crash
    <2>1. \A t \in Threads : thread[t].pc = "written" => thread[t].s \in Services
                                                     /\ thread[t].field \in Fields
      BY DEF Inv, Typed, Phases, Phase, Thread
    <2>2. suspect' \in SUBSET (Services \X Fields)
      BY <1>3, <2>1 DEF Crash, Inv, Typed
    <2>3. Typed'
      BY <1>3, <2>2, IdleTyped DEF Crash, Inv, Typed
    <2>4. \A t \in Threads : thread'[t] = Idle
      BY <1>3 DEF Crash
    <2>5. Phases'
      BY <2>4, IdlePhase DEF Phases, Phase, NextField, Slot, Idle
    <2>6. Holding'
      BY <2>4, IdleTyped DEF Holding
    <2> QED BY <2>3, <2>5, <2>6 DEF Inv
  <1>4. CASE UNCHANGED vars
    BY <1>4 DEF vars, Inv, Typed, Phases, Phase, Holding, NextField, Slot, Idle
  <1> QED BY <1>1, <1>2, <1>3, <1>4

LEMMA InvStep == Inv /\ [Next]_vars => Inv'
  <1> SUFFICES ASSUME Inv, [Next]_vars PROVE Inv'
    OBVIOUS
  <1> QED BY ReadSteps, SaveSteps, LockSteps, AddStep, OtherSteps DEF Next, Continued

-----------------------------------------------------------------------------
(* What is read, and what has changed since *)

\* Who saves a service's settings changes only with who saves.
LEMMA InitReads == Init => ReadAsStored /\ LoadedFresh
  BY IdleTyped DEF Init, ReadAsStored, LoadedFresh, Rescheduling

\* While nobody stops saving and nothing is taken off missed, what the threads
\* that do not move have read is as stored or changing.
LEMMA OthersRead ==
    ASSUME Inv, ReadAsStored, NEW t \in Threads,
           missed \subseteq missed', stored' = stored,
           \A u \in Threads \ {t} : thread'[u] = thread[u],
           \A s \in Services : Saving(t, s) /\ s \notin missed' => Saving(t, s)'
    PROVE  \A u \in Threads \ {t} :
             (Rescheduling(thread[u]) /\ ~Changing(u, thread[u].s))' =>
               (/\ thread[u].misread \/ AsStored(thread[u])
                /\ thread[u].pc = "loaded" => thread[u].val = stored[thread[u].s][thread[u].field])'
  <1> SUFFICES ASSUME NEW u \in Threads \ {t},
                      Rescheduling(thread[u])', ~(Changing(u, thread[u].s))'
               PROVE  (/\ thread[u].misread \/ AsStored(thread[u])
                       /\ thread[u].pc = "loaded" => thread[u].val = stored[thread[u].s][thread[u].field])'
    OBVIOUS
  <1>1. thread'[u] = thread[u] /\ Rescheduling(thread[u]) /\ thread[u].s \in Services
    BY DEF Rescheduling, Inv, Phases, Phase
  <1>2. ~Changing(u, thread[u].s)
    BY <1>1 DEF Changing, Saving
  <1> QED BY <1>1, <1>2 DEF ReadAsStored, AsStored

LEMMA ReadAsStoredRead ==
    ASSUME Inv, ReadAsStored, NEW t \in Threads,
           CacheHit(t) \/ CacheMissed(t) \/ CacheFilled(t) \/ ReadFailed(t)
    PROVE  ReadAsStored'
  <1> DEFINE k == thread[t]
             f == NextField(k)
  <1>0. k \in Thread /\ Phase(k) /\ f \in Fields /\ k.pc \in {"reading", "loaded"}
        /\ thread \in [Threads -> Thread]
    BY NextFieldIn DEF Inv, Typed, Phases, CacheHit, CacheMissed, CacheFilled, ReadFailed, ReadBegun
  <1>1. stored' = stored /\ missed' = missed
    BY DEF CacheHit, CacheMissed, CacheFilled, ReadFailed
  <1>2. PICK n :
          /\ thread' = [thread EXCEPT ![t] = n]
          /\ n.job = k.job /\ n.s = k.s /\ n.pc \in {"reading", "loaded"}
          /\ Rescheduling(k) /\ ~Changing(t, k.s) =>
                /\ n.misread \/ AsStored(n)
                /\ n.pc = "loaded" => n.val = stored[n.s][n.field]
    <2>1. ASSUME NEW v, NEW b \in BOOLEAN, Becomes(t, Returns(k, v, b)),
                 Rescheduling(k) /\ ~Changing(t, k.s) => b \/ v = stored[k.s][f]
          PROVE  LET n == Returns(k, v, b) IN
                 /\ thread' = [thread EXCEPT ![t] = n]
                 /\ n.job = k.job /\ n.s = k.s /\ n.pc \in {"reading", "loaded"}
                 /\ Rescheduling(k) /\ ~Changing(t, k.s) =>
                       /\ n.misread \/ AsStored(n)
                       /\ n.pc = "loaded" => n.val = stored[n.s][n.field]
      <3> DEFINE n == Returns(k, v, b)
      <3>1. /\ n.pc = "reading" /\ n.job = k.job /\ n.s = k.s
            /\ n.misread = (k.misread \/ b) /\ n.got = [k.got EXCEPT ![f] = v]
        BY <1>0 DEF Returns, Thread
      <3>2. thread' = [thread EXCEPT ![t] = n]
        BY <2>1 DEF Becomes
      <3>3. ASSUME Rescheduling(k) /\ ~Changing(t, k.s) PROVE n.misread \/ AsStored(n)
        <4>1. k.misread \/ AsStored(k)
          BY <3>3 DEF ReadAsStored
        <4>2. CASE b
          BY <4>2, <3>1
        <4>3. CASE k.misread
          BY <4>3, <3>1
        <4>4. CASE ~b /\ ~k.misread
          <5>1. AsStored(k) /\ v = stored[k.s][f]
            BY <4>1, <4>4, <2>1, <3>3
          <5>2. k.got \in [Fields -> Values \cup {Null}]
            BY <1>0 DEF Thread, Partial
          <5> QED BY <5>1, <5>2, <3>1 DEF AsStored
        <4> QED BY <4>2, <4>3, <4>4
      <3> QED BY <3>1, <3>2, <3>3
    <2>2. CASE CacheHit(t)
      <3> DEFINE v == cache[k.s][f]
                 b == v # stored[k.s][f]
      <3>1. Becomes(t, Returns(k, v, b)) /\ b \in BOOLEAN /\ (b \/ v = stored[k.s][f])
        BY <2>2 DEF CacheHit
      <3> QED BY <3>1, <2>1
    <2>3. CASE ReadFailed(t)
      <3> DEFINE v == Default(f)
                 b == v # stored[k.s][f]
      <3>1. Becomes(t, Returns(k, v, b)) /\ b \in BOOLEAN /\ (b \/ v = stored[k.s][f])
        BY <2>3 DEF ReadFailed
      <3> QED BY <3>1, <2>1
    <2>4. CASE CacheFilled(t)
      <3>1. Becomes(t, Returns(k, k.val, FALSE)) /\ k.pc = "loaded"
        BY <2>4 DEF CacheFilled
      <3>2. Rescheduling(k) /\ ~Changing(t, k.s) => k.val = stored[k.s][f]
        BY <1>0, <3>1 DEF ReadAsStored, Phase
      <3> QED BY <3>1, <3>2, <2>1
    <2>5. CASE CacheMissed(t)
      <3> DEFINE n == [k EXCEPT !.pc = "loaded", !.field = f, !.val = stored[k.s][f]]
      <3>1. thread' = [thread EXCEPT ![t] = n] /\ k.pc = "reading"
        BY <2>5 DEF CacheMissed, ReadBegun, Becomes
      <3>2. /\ n.job = k.job /\ n.s = k.s /\ n.pc = "loaded" /\ n.misread = k.misread
            /\ n.got = k.got /\ n.val = stored[n.s][n.field]
        BY <1>0 DEF Thread
      <3>3. Rescheduling(k) /\ ~Changing(t, k.s) => n.misread \/ AsStored(n)
        BY <3>2 DEF ReadAsStored, AsStored
      <3> QED BY <3>1, <3>2, <3>3
    <2> QED BY <2>2, <2>3, <2>4, <2>5
  <1>3. thread'[t] = n /\ \A u \in Threads \ {t} : thread'[u] = thread[u]
    BY <1>0, <1>2
  <1>4. \A s \in Services : Saving(t, s) => Saving(t, s)'
    BY <1>2, <1>3 DEF Saving
  <1>5. (Rescheduling(thread[t]) /\ ~Changing(t, thread[t].s))' => Rescheduling(k) /\ ~Changing(t, k.s)
    BY <1>0, <1>1, <1>2, <1>3 DEF Rescheduling, Changing, Saving
  <1>6. (Rescheduling(thread[t]) /\ ~Changing(t, thread[t].s))' =>
               (/\ thread[t].misread \/ AsStored(thread[t])
                /\ thread[t].pc = "loaded" => thread[t].val = stored[thread[t].s][thread[t].field])'
    BY <1>1, <1>2, <1>3, <1>5 DEF AsStored
  <1> QED BY <1>1, <1>3, <1>4, <1>6, OthersRead DEF ReadAsStored

LEMMA ReadAsStoredStep ==
    ASSUME Inv, Inv', ReadAsStored, [Next]_vars
    PROVE  ReadAsStored'
  <1>0. thread \in [Threads -> Thread]
    BY DEF Inv, Typed
  <1>1. CASE \E t \in Threads : CacheHit(t) \/ CacheMissed(t) \/ CacheFilled(t) \/ ReadFailed(t)
    BY <1>1, ReadAsStoredRead
  \* Threads that come to rest, or wait, or save: nothing is read.
  <1>2. ASSUME NEW t \in Threads, ~Rescheduling(thread[t])',
               missed \subseteq missed', stored' = stored,
               \A u \in Threads \ {t} : thread'[u] = thread[u],
               \A s \in Services : Saving(t, s) /\ s \notin missed' => Saving(t, s)'
        PROVE  ReadAsStored'
    BY <1>2, OthersRead DEF ReadAsStored
  <1>3. CASE \E t \in Threads : \/ Invalidated(t) \/ SaveFailed(t) \/ KeysSaved(t)
                                \/ StartBegan(t) \/ JobRan(t)
                                \/ \E s \in Services, new \in Configs : SaveBegan(t, s, new)
                                \/ \E s \in Services : JobFired(t, s)
    <2>1. PICK t \in Threads : \/ Invalidated(t) \/ SaveFailed(t) \/ KeysSaved(t)
                               \/ StartBegan(t) \/ JobRan(t)
                               \/ \E s \in Services, new \in Configs : SaveBegan(t, s, new)
                               \/ \E s \in Services : JobFired(t, s)
      BY <1>3
    <2>2. \A u \in Threads \ {t} : thread'[u] = thread[u]
      BY <1>0, <2>1 DEF Invalidated, SaveFailed, KeysSaved, StartBegan, JobRan, SaveBegan,
                        JobFired, Becomes
    <2>3. stored' = stored /\ missed \subseteq missed'
      BY <2>1 DEF Invalidated, SaveFailed, KeysSaved, StartBegan, JobRan, SaveBegan, JobFired
    <2>4. Phase(thread[t]) /\ thread[t] \in Thread
      BY DEF Inv, Typed, Phases
    <2>5. /\ ~Rescheduling(thread[t])'
          /\ \A s \in Services : Saving(t, s) /\ s \notin missed' => Saving(t, s)'
      <3>1. CASE Invalidated(t)
        BY <1>0, <2>4, <3>1 DEF Invalidated, Becomes, Rescheduling, Saving, Thread
      <3>2. CASE SaveFailed(t)
        BY <1>0, <2>4, <3>2, IdleTyped DEF SaveFailed, Becomes, Rescheduling, Saving
      <3>3. CASE KeysSaved(t)
        BY <1>0, <2>4, <3>3 DEF KeysSaved, Becomes, Rescheduling, Saving, Phase, Idle
      <3>4. CASE JobRan(t)
        BY <1>0, <3>4, IdleTyped DEF JobRan, Becomes, Rescheduling, Saving
      <3>5. CASE \/ StartBegan(t)
                 \/ \E s \in Services, new \in Configs : SaveBegan(t, s, new)
                 \/ \E s \in Services : JobFired(t, s)
        <4>1. thread[t].job = "none"
          BY <2>4, <3>5, IdleTyped DEF StartBegan, SaveBegan, JobFired, Phase
        <4>2. PICK n : /\ Becomes(t, n)
                       /\ n.pc \notin {"reading", "loaded"} \/ n.job = "run"
          <5>1. CASE StartBegan(t)
            <6>1. PICK s \in left :
                      Becomes(t, [Idle EXCEPT !.pc = "waiting", !.job = "start", !.s = s])
              BY <5>1 DEF StartBegan
            <6> DEFINE m == [Idle EXCEPT !.pc = "waiting", !.job = "start", !.s = s]
            <6>2. m.pc = "waiting"
              BY DEF Idle
            <6> QED BY <6>1, <6>2
          <5>2. CASE \E s \in Services, new \in Configs : SaveBegan(t, s, new)
            <6>1. PICK s \in Services, new \in Configs : SaveBegan(t, s, new)
              BY <5>2
            <6> DEFINE m == [Idle EXCEPT !.pc = "saving", !.job = "save", !.s = s, !.new = new]
            <6>2. m.pc = "saving"
              BY DEF Idle
            <6> QED BY <6>1, <6>2 DEF SaveBegan
          <5>3. CASE \E s \in Services : JobFired(t, s)
            <6>1. PICK s \in Services : JobFired(t, s)
              BY <5>3
            <6> DEFINE m == [Idle EXCEPT !.pc = "reading", !.job = "run", !.s = s]
            <6>2. m.job = "run"
              BY DEF Idle
            <6> QED BY <6>1, <6>2 DEF JobFired
          <5> QED BY <3>5, <5>1, <5>2, <5>3
        <4>3. thread'[t] = n
          BY <1>0, <4>2 DEF Becomes
        <4> QED BY <4>1, <4>2, <4>3 DEF Saving, Rescheduling
      <3> QED BY <2>1, <3>1, <3>2, <3>3, <3>4, <3>5
    <2> QED BY <1>2, <2>2, <2>3, <2>5
  <1>4. CASE \E t \in Threads, f \in Fields : KeySaved(t, f)
    <2>1. PICK t \in Threads, f \in Fields : KeySaved(t, f)
      BY <1>4
    <2> DEFINE k == thread[t]
    <2>2. k.pc = "saving" /\ k.job = "save" /\ k \in Thread /\ k.s \in Services
      BY <2>1 DEF KeySaved, Inv, Typed, Phases, Phase
    <2>3. /\ \A u \in Threads \ {t} : thread'[u] = thread[u]
          /\ thread'[t].pc \in {"saving", "written"} /\ thread'[t].job = "save"
          /\ thread'[t].s = k.s
      <3> DEFINE rest == [k EXCEPT !.new = [k.new EXCEPT ![f] = Null]]
                 n == [rest EXCEPT !.pc = "written", !.field = f]
      <3>1. rest.pc = "saving" /\ rest.job = "save" /\ rest.s = k.s
        BY <2>2 DEF Thread
      <3>2. n.pc = "written" /\ n.job = "save" /\ n.s = k.s
        BY <2>2 DEF Thread
      <3>3. thread' = [thread EXCEPT ![t] = rest] \/ thread' = [thread EXCEPT ![t] = n]
        BY <2>1 DEF KeySaved, Becomes
      <3> QED BY <1>0, <3>1, <3>2, <3>3
    <2>4. missed' = missed /\ \A s \in Services \ {k.s} : stored'[s] = stored[s]
      BY <2>1, <2>2 DEF KeySaved, With, Inv, Typed
    <2>6. ASSUME NEW u \in Threads, Rescheduling(thread[u])', ~(Changing(u, thread[u].s))'
          PROVE  (/\ thread[u].misread \/ AsStored(thread[u])
                  /\ thread[u].pc = "loaded" => thread[u].val = stored[thread[u].s][thread[u].field])'
      <3>1. u # t
        BY <2>3, <2>6 DEF Rescheduling
      <3>2. thread'[u] = thread[u] /\ Rescheduling(thread[u]) /\ thread[u].s \in Services
        BY <2>3, <2>6, <3>1 DEF Rescheduling, Inv, Phases, Phase
      <3>3. thread[u].s # k.s
        BY <2>3, <2>6, <3>1, <3>2 DEF Changing, Saving
      <3>4. ~Changing(u, thread[u].s)
        BY <2>3, <2>4, <2>6, <3>2, <3>3 DEF Changing, Saving
      <3> QED BY <2>4, <3>2, <3>3, <3>4 DEF ReadAsStored, AsStored
    <2> QED BY <2>6 DEF ReadAsStored
  <1>5. CASE \E t \in Threads : Locked(t)
    <2>1. PICK t \in Threads : Locked(t)
      BY <1>5
    <2>2. /\ \A u \in Threads \ {t} : thread'[u] = thread[u]
          /\ thread'[t] = [thread[t] EXCEPT !.pc = "reading"]
          /\ stored' = stored /\ missed' = missed
      BY <1>0, <2>1 DEF Locked, Becomes
    <2>3. thread[t].got = Unread /\ thread[t] \in Thread
      BY <2>1 DEF Locked, Inv, Typed, Phases, Phase
    <2>4. thread'[t].pc = "reading" /\ thread'[t].got = Unread
          /\ thread'[t].s = thread[t].s /\ thread'[t].job = thread[t].job
      BY <2>2, <2>3 DEF Thread
    <2>5. AsStored(thread[t])'
      BY <2>4 DEF AsStored, Unread
    <2>6. \A s \in Services : Saving(t, s) => Saving(t, s)'
      BY <2>4 DEF Saving
    <2>7. \A u \in Threads \ {t} :
             (Rescheduling(thread[u]) /\ ~Changing(u, thread[u].s))' =>
               (/\ thread[u].misread \/ AsStored(thread[u])
                /\ thread[u].pc = "loaded" => thread[u].val = stored[thread[u].s][thread[u].field])'
      BY <2>2, <2>6, OthersRead
    <2>8. (/\ thread[t].misread \/ AsStored(thread[t])
           /\ thread[t].pc = "loaded" => thread[t].val = stored[thread[t].s][thread[t].field])'
      BY <2>4, <2>5
    <2> QED BY <2>7, <2>8 DEF ReadAsStored
  <1>6. CASE \E t \in Threads : JobRemoved(t)
    <2>1. PICK t \in Threads : JobRemoved(t)
      BY <1>6
    <2>2. /\ \A u \in Threads \ {t} : thread'[u] = thread[u]
          /\ thread'[t] = [thread[t] EXCEPT !.gone = TRUE] /\ thread[t] \in Thread
          /\ stored' = stored /\ missed' = missed /\ thread[t].pc = "reading"
      BY <1>0, <2>1 DEF JobRemoved, Becomes
    <2>3. \A u \in Threads : /\ thread'[u].job = thread[u].job /\ thread'[u].s = thread[u].s
                             /\ thread'[u].pc = thread[u].pc /\ thread'[u].got = thread[u].got
                             /\ thread'[u].misread = thread[u].misread
                             /\ thread'[u].val = thread[u].val /\ thread'[u].field = thread[u].field
      BY <2>2 DEF Thread
    <2> QED BY <2>2, <2>3 DEF ReadAsStored, Rescheduling, Changing, Saving, AsStored
  <1>7. CASE \E t \in Threads : JobAdded(t)
    <2>1. PICK t \in Threads : JobAdded(t)
      BY <1>7
    <2>2. lock = t
      BY <2>1, AddingFacts
    <2>3. \A u \in Threads \ {t} : thread'[u] = thread[u]
      BY <1>0, <2>1 DEF JobAdded, Becomes
    <2>4. thread'[t].pc \notin {"reading", "loaded"}
      <3>1. CASE Becomes(t, Idle)
        BY <1>0, <3>1, IdleTyped DEF Becomes
      <3>2. CASE \E s \in left : Becomes(t, [Idle EXCEPT !.pc = "waiting", !.job = "start", !.s = s])
        BY <1>0, <3>2 DEF Becomes, Idle
      <3> QED BY <2>1, <3>1, <3>2 DEF JobAdded
    <2>5. \A u \in Threads : ~Rescheduling(thread[u])'
      BY <2>2, <2>3, <2>4 DEF Rescheduling, Inv, Holding
    <2> QED BY <2>5 DEF ReadAsStored
  <1>8. CASE Crash
    <2>1. \A t \in Threads : thread'[t] = Idle
      BY <1>8 DEF Crash
    <2> QED BY <2>1, IdleTyped DEF ReadAsStored, Rescheduling
  <1>9. CASE (\E s \in Services, f \in Fields : CacheExpired(s, f)) \/ UNCHANGED vars
    <2>1. thread' = thread /\ stored' = stored /\ missed' = missed
      BY <1>9 DEF CacheExpired, vars
    <2> QED BY <2>1 DEF ReadAsStored, Rescheduling, Changing, Saving, AsStored
  <1> QED BY <1>1, <1>3, <1>4, <1>5, <1>6, <1>7, <1>8, <1>9 DEF Next, Continued

-----------------------------------------------------------------------------
(* Which changes are due *)

\* Steps after which the same changes are due.
QuietStep(t) ==
    \/ CacheHit(t) \/ CacheMissed(t) \/ CacheFilled(t) \/ ReadFailed(t)
    \/ (\E f \in Fields : KeySaved(t, f)) \/ Invalidated(t) \/ KeysSaved(t)
    \/ StartBegan(t) \/ Locked(t) \/ JobRemoved(t)
    \/ JobRan(t) \/ (\E s \in Services : JobFired(t, s))

LEMMA QuietThread ==
    ASSUME Inv, NEW t \in Threads, QuietStep(t)
    PROVE  /\ \A u \in Threads \ {t} : thread'[u] = thread[u]
           /\ thread'[t].job = "save" <=> thread[t].job = "save"
           /\ thread[t].job = "save" => thread'[t].s = thread[t].s
           /\ left' = left /\ missed' = missed
  <1> DEFINE k == thread[t]
  <1>0. thread \in [Threads -> Thread] /\ k \in Thread /\ Phase(k)
    BY DEF Inv, Typed, Phases
  <1>1. left' = left /\ missed' = missed
    BY DEF QuietStep, CacheHit, CacheMissed, CacheFilled, ReadFailed, KeySaved, Invalidated,
           KeysSaved, StartBegan, Locked, JobRemoved, JobRan, JobFired
  <1>2. ASSUME NEW n, Becomes(t, n), n.job = "save" <=> k.job = "save",
               k.job = "save" => n.s = k.s
        PROVE  /\ \A u \in Threads \ {t} : thread'[u] = thread[u]
               /\ thread'[t].job = "save" <=> k.job = "save"
               /\ k.job = "save" => thread'[t].s = k.s
    BY <1>0, <1>2 DEF Becomes
  <1>3. CASE CacheHit(t) \/ CacheFilled(t) \/ ReadFailed(t)
    <2>1. PICK v, b : Becomes(t, Returns(k, v, b))
      BY <1>3 DEF CacheHit, CacheFilled, ReadFailed
    <2>2. Returns(k, v, b).job = k.job /\ Returns(k, v, b).s = k.s
      BY <1>0 DEF Returns, Thread
    <2> QED BY <1>1, <1>2, <2>1, <2>2
  <1>4. CASE CacheMissed(t)
    <2> DEFINE n == [k EXCEPT !.pc = "loaded", !.field = NextField(k),
                              !.val = stored[k.s][NextField(k)]]
    <2>1. Becomes(t, n) /\ n.job = k.job /\ n.s = k.s
      BY <1>0, <1>4 DEF CacheMissed, Thread
    <2> QED BY <1>1, <1>2, <2>1
  <1>5. CASE \E f \in Fields : KeySaved(t, f)
    <2>1. PICK f \in Fields : KeySaved(t, f)
      BY <1>5
    <2> DEFINE rest == [k EXCEPT !.new = [k.new EXCEPT ![f] = Null]]
               n == [rest EXCEPT !.pc = "written", !.field = f]
    <2>2. rest.job = k.job /\ rest.s = k.s /\ n.job = k.job /\ n.s = k.s
      BY <1>0 DEF Thread
    <2>3. Becomes(t, rest) \/ Becomes(t, n)
      BY <2>1 DEF KeySaved
    <2> QED BY <1>1, <1>2, <2>2, <2>3
  <1>6. CASE Invalidated(t)
    <2> DEFINE n == [k EXCEPT !.pc = "saving", !.field = "switch"]
    <2>1. Becomes(t, n) /\ n.job = k.job /\ n.s = k.s
      BY <1>0, <1>6 DEF Invalidated, Thread
    <2> QED BY <1>1, <1>2, <2>1
  <1>7. CASE KeysSaved(t)
    <2> DEFINE n == [Idle EXCEPT !.pc = "waiting", !.job = "save", !.s = k.s]
    <2>1. Becomes(t, n) /\ k.job = "save"
      BY <1>0, <1>7 DEF KeysSaved, Phase
    <2>2. n.job = "save" /\ n.s = k.s
      BY DEF Idle
    <2> QED BY <1>1, <1>2, <2>1, <2>2
  <1>8. CASE StartBegan(t)
    <2>1. PICK s \in left : Becomes(t, [Idle EXCEPT !.pc = "waiting", !.job = "start", !.s = s])
      BY <1>8 DEF StartBegan
    <2> DEFINE n == [Idle EXCEPT !.pc = "waiting", !.job = "start", !.s = s]
    <2>2. n.job = "start" /\ k.job = "none"
      BY <1>0, <1>8, IdleTyped DEF Idle, StartBegan, Phase
    <2> QED BY <1>1, <1>2, <2>1, <2>2
  <1>9. CASE Locked(t)
    <2> DEFINE n == [k EXCEPT !.pc = "reading"]
    <2>1. Becomes(t, n) /\ n.job = k.job /\ n.s = k.s
      BY <1>0, <1>9 DEF Locked, Thread
    <2> QED BY <1>1, <1>2, <2>1
  <1>10. CASE JobRemoved(t)
    <2> DEFINE n == [k EXCEPT !.gone = TRUE]
    <2>1. Becomes(t, n) /\ n.job = k.job /\ n.s = k.s
      BY <1>0, <1>10 DEF JobRemoved, Thread
    <2> QED BY <1>1, <1>2, <2>1
  <1>11. CASE JobRan(t)
    BY <1>1, <1>2, <1>11, IdleTyped DEF JobRan
  <1>12. CASE \E s \in Services : JobFired(t, s)
    <2>1. PICK s \in Services : JobFired(t, s)
      BY <1>12
    <2> DEFINE n == [Idle EXCEPT !.pc = "reading", !.job = "run", !.s = s]
    <2>2. Becomes(t, n) /\ n.job = "run" /\ k.job = "none"
      BY <1>0, <2>1, IdleTyped DEF Idle, JobFired, Phase
    <2> QED BY <1>1, <1>2, <2>2
  <1> QED BY <1>3, <1>4, <1>5, <1>6, <1>7, <1>8, <1>9, <1>10, <1>11, <1>12 DEF QuietStep

LEMMA QuietDue ==
    ASSUME Inv, NEW t \in Threads, QuietStep(t)
    PROVE  Due' = Due
  <1>1. \A u \in Threads, s \in Services : Saving(u, s)' <=> Saving(u, s)
    BY QuietThread DEF Saving
  <1> QED BY <1>1, QuietThread DEF Due

\* A thread that stops: its service alone may be due no more.
LEMMA EndedDue ==
    ASSUME Inv, NEW t \in Threads, JobAdded(t) \/ SaveFailed(t)
    PROVE  /\ thread[t].s \in Due
           /\ Due' \in {Due, Due \ {thread[t].s}}
           /\ \A u \in Threads \ {t} : thread'[u] = thread[u]
           /\ thread'[t].gone = FALSE /\ thread'[t].pc \notin {"reading", "loaded"}
  <1> DEFINE k == thread[t]
  <1>0. thread \in [Threads -> Thread] /\ k \in Thread /\ Phase(k) /\ k.s \in Services
    BY AddingFacts DEF Inv, Typed, Phases, Phase, SaveFailed
  <1>1. PICK n : /\ Becomes(t, n) /\ n.job \in {"none", "start"} /\ n.gone = FALSE
                 /\ n.pc \notin {"reading", "loaded"}
    <2>1. CASE Becomes(t, Idle)
      BY <2>1, IdleTyped DEF Idle
    <2>2. CASE \E s \in left : Becomes(t, [Idle EXCEPT !.pc = "waiting", !.job = "start", !.s = s])
      <3>1. PICK s \in left : Becomes(t, [Idle EXCEPT !.pc = "waiting", !.job = "start", !.s = s])
        BY <2>2
      <3> DEFINE n == [Idle EXCEPT !.pc = "waiting", !.job = "start", !.s = s]
      <3>2. n.job = "start" /\ n.gone = FALSE /\ n.pc = "waiting"
        BY DEF Idle
      <3> QED BY <3>1, <3>2
    <2> QED BY <2>1, <2>2 DEF JobAdded, SaveFailed
  <1>2. \A u \in Threads \ {t} : thread'[u] = thread[u]
    BY <1>0, <1>1 DEF Becomes
  <1>3. thread'[t] = n
    BY <1>0, <1>1 DEF Becomes
  <1>4. k.job = "save" \/ (k.job = "start" /\ k.s \in left)
    BY <1>0, AddingFacts DEF SaveFailed, Phase, Inv, Holding
  <1>5. left' \in {left, left \ {k.s}}
    BY DEF JobAdded, SaveFailed
  <1>6. \A s \in Services : Saving(t, s) => s = k.s
    BY DEF Saving
  <1>7. \A s \in Services : ~Saving(t, s)'
    BY <1>1, <1>3 DEF Saving
  <1>8. \A u \in Threads \ {t}, s \in Services : Saving(u, s)' <=> Saving(u, s)
    BY <1>2 DEF Saving
  <1>9. k.s \in Due
    BY <1>0, <1>4 DEF Due, Saving
  <1>10. \A s \in Services : s # k.s => (s \in Due' <=> s \in Due)
    BY <1>5, <1>6, <1>7, <1>8 DEF Due
  <1>11. Due \subseteq Services /\ Due' \subseteq Services
    BY DEF Due
  <1>12. Due' \in {Due, Due \ {k.s}}
    <2>1. CASE k.s \in Due'
      BY <1>9, <1>10, <1>11, <2>1
    <2>2. CASE k.s \notin Due'
      BY <1>9, <1>10, <1>11, <2>2
    <2> QED BY <2>1, <2>2
  <1> QED BY <1>1, <1>2, <1>3, <1>9, <1>12

-----------------------------------------------------------------------------
(* Jobs follow the settings *)

LEMMA InitFollows == Init => SchedulesFollow
  BY DEF Init, SchedulesFollow, Due

\* A job is added as its service's settings are stored, or they are changing,
\* or the change is missed.
LEMMA AddedAsStored ==
    ASSUME Inv, ReadAsStored, NEW t \in Threads, JobAdded(t),
           thread[t].s \notin Due' \cup missed'
    PROVE  job'[thread[t].s] = Planned(kind[thread[t].s], stored[thread[t].s])
  <1> DEFINE k == thread[t]
  <1>0. /\ k \in Thread /\ k.s \in Services /\ k.got \in Partial /\ k.got["switch"] # Null
        /\ \/ k.got["plan"] # Null \/ kind[k.s] = "minute"
           \/ kind[k.s] = "quota" /\ k.got["switch"] = "off"
        /\ kind[k.s] \in Kinds /\ Rescheduling(k)
    BY AddingFacts DEF JobAdded, Rescheduling
  <1>1. job'[k.s] = Planned(kind[k.s], k.got)
    BY <1>0 DEF JobAdded, Inv, Typed
  <1>2. ~k.misread /\ (AsStored(k) \/ k.s \notin missed)
    <2>1. missed' = CASE k.misread -> missed \cup {k.s}
                      [] ~k.misread /\ AsStored(k) -> missed \ {k.s}
                      [] OTHER -> missed
      BY DEF JobAdded
    <2>2. k.misread \in BOOLEAN
      BY <1>0 DEF Thread
    <2>3. CASE k.misread
      BY <1>0, <2>1, <2>3
    <2>4. CASE ~k.misread /\ ~AsStored(k)
      BY <2>1, <2>4
    <2> QED BY <2>2, <2>3, <2>4
  <1>3. AsStored(k)
    <2>1. CASE k.s \in missed
      BY <1>2, <2>1
    <2>2. CASE k.s \notin missed
      <3>1. \A u \in Threads \ {t} : ~Saving(u, k.s)
        <4>1. \A u \in Threads \ {t} : thread'[u] = thread[u]
          BY EndedDue
        <4> QED BY <1>0, <4>1 DEF Due, Saving
      <3> QED BY <1>0, <1>2, <2>2, <3>1 DEF Changing, ReadAsStored
    <2> QED BY <2>1, <2>2
  <1>4. stored[k.s] \in Partial
    BY <1>0, ConfigPartial DEF Inv, Typed
  <1>5. /\ k.got["switch"] = stored[k.s]["switch"]
        /\ k.got["plan"] # Null => k.got["plan"] = stored[k.s]["plan"]
    BY <1>0, <1>3 DEF AsStored, Fields
  <1> QED BY <1>0, <1>1, <1>4, <1>5, PlannedSame

LEMMA FollowsStep ==
    ASSUME Inv, ReadAsStored, SchedulesFollow, [Next]_vars
    PROVE  SchedulesFollow'
  <1>1. CASE \E t \in Threads : QuietStep(t)
    <2>1. PICK t \in Threads : QuietStep(t)
      BY <1>1
    <2>2. Due' = Due /\ missed' = missed
      BY <2>1, QuietDue, QuietThread
    <2>3. kind' = kind
      BY <2>1 DEF QuietStep, CacheHit, CacheMissed, CacheFilled, ReadFailed, KeySaved,
                  Invalidated, KeysSaved, StartBegan, Locked, JobRemoved, JobRan, JobFired
    <2>4. \A s \in Services \ Due : job'[s] = job[s] /\ stored'[s] = stored[s]
      <3>1. CASE \E f \in Fields : KeySaved(t, f)
        <4>1. PICK f \in Fields : KeySaved(t, f)
          BY <3>1
        <4>2. thread[t].s \in Due
          BY <3>1 DEF KeySaved, Due, Saving, Inv, Phases, Phase
        <4> QED BY <4>1, <4>2 DEF KeySaved, With, Inv, Typed
      <3>2. CASE JobRemoved(t)
        <4>1. thread[t].s \in Due
          BY <3>2 DEF JobRemoved, Due, Saving, Inv, Phases, Phase, Holding
        <4> QED BY <3>2, <4>1 DEF JobRemoved, Inv, Typed
      <3>3. CASE job' = job /\ stored' = stored
        BY <3>3
      <3> QED BY <2>1, <3>1, <3>2, <3>3 DEF QuietStep, CacheHit, CacheMissed, CacheFilled,
                 ReadFailed, Invalidated, KeysSaved, StartBegan, Locked, JobRan, JobFired
    <2> QED BY <2>2, <2>3, <2>4 DEF SchedulesFollow
  <1>2. CASE \E t \in Threads : SaveFailed(t)
    <2>1. PICK t \in Threads : SaveFailed(t)
      BY <1>2
    <2>2. Due \cup missed \subseteq Due' \cup missed'
      BY <2>1, EndedDue DEF SaveFailed
    <2> QED BY <2>1, <2>2 DEF SaveFailed, SchedulesFollow
  <1>3. CASE \E t \in Threads : JobAdded(t)
    <2>1. PICK t \in Threads : JobAdded(t)
      BY <1>3
    <2>2. UNCHANGED <<kind, stored>>
      BY <2>1 DEF JobAdded
    <2>3. ASSUME NEW s \in Services \ (Due \cup missed)', s # thread[t].s
          PROVE  job'[s] = Planned(kind[s], stored[s])
      <3>1. s \notin Due \cup missed
        <4>1. missed \ {thread[t].s} \subseteq missed'
          BY <2>1 DEF JobAdded
        <4>2. Due \ {thread[t].s} \subseteq Due'
          BY <2>1, EndedDue
        <4> QED BY <2>3, <4>1, <4>2
      <3>2. job'[s] = job[s]
        BY <2>1, <2>3 DEF JobAdded, Inv, Typed
      <3> QED BY <2>3, <3>1, <3>2 DEF SchedulesFollow
    <2> QED BY <2>1, <2>2, <2>3, AddedAsStored DEF SchedulesFollow
  <1>4. CASE \E t \in Threads, s \in Services, new \in Configs : SaveBegan(t, s, new)
    <2>1. PICK t \in Threads, s \in Services, new \in Configs : SaveBegan(t, s, new)
      BY <1>4
    <2>2. \A u \in Threads \ {t} : thread'[u] = thread[u]
      BY <2>1 DEF SaveBegan, Becomes, Inv, Typed
    <2>3. thread[t].job = "none"
      BY <2>1, IdleTyped DEF SaveBegan, Inv, Phases, Phase
    <2>4. Due \subseteq Due'
      BY <2>1, <2>2, <2>3 DEF Due, Saving, SaveBegan
    <2> QED BY <2>1, <2>4 DEF SaveBegan, SchedulesFollow
  <1>5. CASE (\E s \in Services, f \in Fields : CacheExpired(s, f)) \/ UNCHANGED vars
    <2>1. UNCHANGED <<kind, stored, job, missed, left, thread>>
      BY <1>5 DEF CacheExpired, vars
    <2> QED BY <2>1 DEF SchedulesFollow, Due, Saving
  <1>6. CASE Crash
    <2>1. Due' = Services
      BY <1>6 DEF Crash, Due
    <2> QED BY <2>1 DEF SchedulesFollow
  <1> QED BY <1>1, <1>2, <1>3, <1>4, <1>5, <1>6 DEF Next, Continued, QuietStep

-----------------------------------------------------------------------------
(* The cache *)

StaleOK(s, f) == <<s, f>> \in suspect \/ Written(s, f)

LEMMA StaleStep ==
    ASSUME Inv, StaleOnlyByRace, LoadedFresh, [Next]_vars
    PROVE  StaleOnlyByRace' /\ LoadedFresh'
  <1>0. /\ thread \in [Threads -> Thread] /\ cache \in [Services -> Partial]
        /\ stored \in [Services -> Configs]
        /\ \A c \in Partial : c \in [Fields -> Values \cup {Null}]
        /\ \A c \in Configs : c \in [Fields -> Values]
    BY DEF Inv, Typed, Partial, Configs
  <1>1. \A t \in Threads : Phase(thread[t])
    BY DEF Inv, Phases
  \* Steps that write neither settings nor cache, and end no write.
  <1>2. ASSUME stored' = stored, suspect' = suspect,
               \A s \in Services, f \in Fields : Written(s, f) => Written(s, f)',
               \A s \in Services, f \in Fields :
                   cache'[s][f] \in {Null, cache[s][f]} \/ cache'[s][f] = stored[s][f]
                   \/ StaleOK(s, f),
               \A t \in Threads :
                   \/ thread'[t].pc # "loaded"
                   \/ thread'[t] = thread[t]
                   \/ thread'[t].val = stored[thread'[t].s][thread'[t].field]
        PROVE  StaleOnlyByRace' /\ LoadedFresh'
    <2>1. StaleOnlyByRace'
      BY <1>2 DEF StaleOnlyByRace, Written, StaleOK
    <2>2. ASSUME NEW t \in Threads, thread'[t].pc = "loaded"
          PROVE  \/ thread'[t].val = stored'[thread'[t].s][thread'[t].field]
                 \/ <<thread'[t].s, thread'[t].field>> \in suspect'
                 \/ Written(thread[t].s, thread[t].field)'
      <3>1. CASE thread'[t] = thread[t]
        <4>1. thread[t].s \in Services /\ thread[t].field \in Fields
          BY <1>0, <1>1, <2>2, <3>1 DEF Phase, Thread
        <4> QED BY <1>2, <2>2, <3>1, <4>1 DEF LoadedFresh, Written
      <3> QED BY <1>2, <2>2, <3>1
    <2> QED BY <2>1, <2>2 DEF LoadedFresh
  <1>3. CASE \E t \in Threads : CacheHit(t) \/ CacheMissed(t) \/ CacheFilled(t) \/ ReadFailed(t)
    <2>1. PICK t \in Threads : CacheHit(t) \/ CacheMissed(t) \/ CacheFilled(t) \/ ReadFailed(t)
      BY <1>3
    <2> DEFINE k == thread[t]
    <2>2. k \in Thread /\ k.pc \in {"reading", "loaded"} /\ stored' = stored /\ suspect' = suspect
      BY <1>0, <2>1 DEF CacheHit, CacheMissed, CacheFilled, ReadFailed, ReadBegun
    <2>3. /\ \A u \in Threads \ {t} : thread'[u] = thread[u]
          /\ \/ thread'[t].pc = "reading"
             \/ thread'[t].val = stored[thread'[t].s][thread'[t].field]
      <3>1. CASE CacheMissed(t)
        BY <1>0, <2>2, <3>1 DEF CacheMissed, Becomes, Thread
      <3>2. CASE CacheHit(t) \/ CacheFilled(t) \/ ReadFailed(t)
        <4>1. PICK v, b : Becomes(t, Returns(k, v, b))
          BY <3>2 DEF CacheHit, CacheFilled, ReadFailed
        <4>2. Returns(k, v, b).pc = "reading"
          BY <2>2 DEF Returns, Thread
        <4> QED BY <1>0, <4>1, <4>2 DEF Becomes
      <3> QED BY <2>1, <3>1, <3>2
    <2>4. \A s \in Services, f \in Fields : Written(s, f) => Written(s, f)'
      BY <2>2, <2>3 DEF Written
    <2>5. ASSUME NEW s \in Services, NEW f \in Fields
          PROVE  cache'[s][f] \in {Null, cache[s][f]} \/ cache'[s][f] = stored[s][f] \/ StaleOK(s, f)
      <3>1. CASE cache' = cache
        BY <3>1
      <3>2. CASE CacheFilled(t) /\ cache' = With(cache, k.s, k.field, k.val)
        <4>1. k.val = stored[k.s][k.field] \/ StaleOK(k.s, k.field)
          BY <3>2 DEF CacheFilled, LoadedFresh, StaleOK
        <4>2. k.s \in Services /\ k.field \in Fields
          BY <1>1, <2>2 DEF Phase, Thread
        <4>3. CASE s = k.s /\ f = k.field
          BY <1>0, <3>2, <4>1, <4>2, <4>3 DEF With
        <4>4. CASE ~(s = k.s /\ f = k.field)
          BY <1>0, <3>2, <4>2, <4>4 DEF With
        <4> QED BY <4>3, <4>4
      <3> QED BY <2>1, <3>1, <3>2 DEF CacheHit, CacheMissed, CacheFilled, ReadFailed
    <2> QED BY <1>2, <2>2, <2>3, <2>4, <2>5
  <1>4. CASE \E t \in Threads : \/ KeysSaved(t) \/ StartBegan(t) \/ Locked(t) \/ JobRemoved(t)
                                \/ JobAdded(t) \/ JobRan(t)
                                \/ \E s \in Services, new \in Configs : SaveBegan(t, s, new)
                                \/ \E s \in Services : JobFired(t, s)
    <2>1. PICK t \in Threads : \/ KeysSaved(t) \/ StartBegan(t) \/ Locked(t) \/ JobRemoved(t)
                               \/ JobAdded(t) \/ JobRan(t)
                               \/ \E s \in Services, new \in Configs : SaveBegan(t, s, new)
                               \/ \E s \in Services : JobFired(t, s)
      BY <1>4
    <2>2. stored' = stored /\ suspect' = suspect /\ cache' = cache
      BY <2>1 DEF KeysSaved, StartBegan, Locked, JobRemoved, JobAdded, JobRan, SaveBegan, JobFired
    <2>3. thread[t].pc # "written"
      BY <2>1 DEF KeysSaved, StartBegan, Locked, JobRemoved, JobAdded, JobRan, SaveBegan, JobFired
    <2>4. \A u \in Threads \ {t} : thread'[u] = thread[u]
      BY <1>0, <2>1 DEF KeysSaved, StartBegan, Locked, JobRemoved, JobAdded, JobRan, SaveBegan,
                        JobFired, Becomes
    <2>5. thread'[t].pc # "loaded"
      <3>1. CASE JobAdded(t)
        BY <3>1, EndedDue
      <3>2. CASE KeysSaved(t) \/ JobRan(t)
        <4>1. PICK n : Becomes(t, n) /\ n.pc # "loaded"
          <5>1. CASE JobRan(t)
            BY <5>1, IdleTyped DEF JobRan
          <5>2. CASE KeysSaved(t)
            <6> DEFINE m == [Idle EXCEPT !.pc = "waiting", !.job = "save", !.s = thread[t].s]
            <6>1. Becomes(t, m) /\ m.pc = "waiting"
              BY <5>2 DEF KeysSaved, Idle
            <6> QED BY <6>1
          <5> QED BY <3>2, <5>1, <5>2
        <4> QED BY <1>0, <4>1 DEF Becomes
      <3>3. CASE Locked(t) \/ JobRemoved(t)
        <4>1. thread[t] \in Thread /\ thread' \in {[thread EXCEPT ![t] = [thread[t] EXCEPT !.pc = "reading"]],
                                                  [thread EXCEPT ![t] = [thread[t] EXCEPT !.gone = TRUE]]}
          BY <1>0, <3>3 DEF Locked, JobRemoved, Becomes
        <4>2. thread[t].pc # "loaded"
          BY <3>3 DEF Locked, JobRemoved
        <4>3. thread'[t] \in {[thread[t] EXCEPT !.pc = "reading"], [thread[t] EXCEPT !.gone = TRUE]}
          BY <1>0, <4>1
        <4> QED BY <4>1, <4>2, <4>3 DEF Thread
      <3>4. CASE StartBegan(t)
        <4>1. PICK s \in left : Becomes(t, [Idle EXCEPT !.pc = "waiting", !.job = "start", !.s = s])
          BY <3>4 DEF StartBegan
        <4> QED BY <1>0, <4>1 DEF Becomes, Idle
      <3>5. CASE \E s \in Services, new \in Configs : SaveBegan(t, s, new)
        <4>1. PICK s \in Services, new \in Configs : SaveBegan(t, s, new)
          BY <3>5
        <4> QED BY <1>0, <4>1 DEF SaveBegan, Becomes, Idle
      <3>6. CASE \E s \in Services : JobFired(t, s)
        BY <1>0, <3>6 DEF JobFired, Becomes, Idle
      <3> QED BY <2>1, <3>1, <3>2, <3>3, <3>4, <3>5, <3>6
    <2>6. \A s \in Services, f \in Fields : Written(s, f) => Written(s, f)'
      BY <2>3, <2>4 DEF Written
    <2> QED BY <1>2, <2>2, <2>4, <2>5, <2>6
  <1>5. CASE \E s \in Services, f \in Fields : CacheExpired(s, f)
    <2>1. PICK s \in Services, f \in Fields : CacheExpired(s, f)
      BY <1>5
    <2>2. stored' = stored /\ suspect' = suspect /\ thread' = thread
      BY <2>1 DEF CacheExpired
    <2>3. \A s1 \in Services, f1 \in Fields : cache'[s1][f1] \in {Null, cache[s1][f1]}
      BY <1>0, <2>1 DEF CacheExpired, With
    <2>4. \A s1 \in Services, f1 \in Fields : Written(s1, f1) => Written(s1, f1)'
      BY <2>2 DEF Written
    <2> QED BY <1>2, <2>2, <2>3, <2>4
  <1>6. CASE UNCHANGED vars
    BY <1>6 DEF vars, StaleOnlyByRace, LoadedFresh, Written
  \* A key is written: its entry is stale until the writer drops it.
  <1>7. CASE \E t \in Threads, f \in Fields : KeySaved(t, f)
    <2>1. PICK t \in Threads, f \in Fields : KeySaved(t, f)
      BY <1>7
    <2> DEFINE k == thread[t]
               rest == [k EXCEPT !.new = [k.new EXCEPT ![f] = Null]]
               n == [rest EXCEPT !.pc = "written", !.field = f]
    <2>2. k \in Thread /\ k.pc = "saving" /\ k.s \in Services
      BY <1>0, <1>1, <2>1 DEF KeySaved, Phase
    <2>3. rest.pc = "saving" /\ n.pc = "written" /\ n.s = k.s /\ n.field = f
      BY <2>2 DEF Thread
    <2>4. suspect' = suspect /\ cache' = cache
      BY <2>1 DEF KeySaved
    <2>5. \A u \in Threads \ {t} : thread'[u] = thread[u]
      BY <1>0, <2>1 DEF KeySaved, Becomes
    <2>6. \/ stored' = stored /\ thread'[t] = rest
          \/ stored' = With(stored, k.s, f, k.new[f]) /\ thread'[t] = n
      BY <1>0, <2>1 DEF KeySaved, Becomes
    <2>7. \A s \in Services, g \in Fields : Written(s, g) => Written(s, g)'
      BY <2>2, <2>5 DEF Written
    <2>8. CASE stored' = stored /\ thread'[t] = rest
      BY <1>2, <2>3, <2>4, <2>5, <2>7, <2>8
    <2>9. CASE stored' = With(stored, k.s, f, k.new[f]) /\ thread'[t] = n
      <3>1. Written(thread[t].s, f)' /\ n.s = k.s
        BY <2>3, <2>9 DEF Written
      <3>2. \A s \in Services, g \in Fields :
               stored'[s][g] = stored[s][g] \/ \E u \in Threads : /\ thread'[u].pc = "written"
                                                                 /\ thread'[u].s = s
                                                                 /\ thread'[u].field = g
        <4> SUFFICES ASSUME NEW s \in Services, NEW g \in Fields
                     PROVE  \/ stored'[s][g] = stored[s][g]
                            \/ \E u \in Threads : /\ thread'[u].pc = "written"
                                                  /\ thread'[u].s = s /\ thread'[u].field = g
          OBVIOUS
        <4>1. CASE s # k.s
          BY <1>0, <2>2, <2>9, <4>1 DEF With
        <4>2. CASE s = k.s /\ g # f
          BY <1>0, <2>2, <2>9, <4>2 DEF With
        <4>3. CASE s = k.s /\ g = f
          <5>1. thread'[t].pc = "written" /\ thread'[t].s = s /\ thread'[t].field = g
            BY <2>3, <2>9, <4>3
          <5> QED BY <5>1
        <4> QED BY <4>1, <4>2, <4>3
      <3>3. StaleOnlyByRace'
        BY <2>4, <2>7, <3>2 DEF StaleOnlyByRace, Written
      <3>4. ASSUME NEW u \in Threads, thread'[u].pc = "loaded"
            PROVE  \/ thread'[u].val = stored'[thread'[u].s][thread'[u].field]
                   \/ <<thread'[u].s, thread'[u].field>> \in suspect'
                   \/ Written(thread[u].s, thread[u].field)'
        <4>1. u # t
          BY <2>3, <2>9, <3>4
        <4>2. thread'[u] = thread[u] /\ thread[u].s \in Services /\ thread[u].field \in Fields
          BY <1>0, <1>1, <2>5, <3>4, <4>1 DEF Phase, Thread
        <4> QED BY <2>4, <2>7, <3>2, <3>4, <4>2 DEF LoadedFresh, Written
      <3> QED BY <3>3, <3>4 DEF LoadedFresh
    <2> QED BY <2>6, <2>8, <2>9
  \* The writer drops its entry; late readers make it suspect.
  <1>8. CASE \E t \in Threads : Invalidated(t)
    <2>1. PICK t \in Threads : Invalidated(t)
      BY <1>8
    <2> DEFINE k == thread[t]
    <2>2. k \in Thread /\ k.pc = "written" /\ k.s \in Services /\ k.field \in Fields
      BY <1>0, <1>1, <2>1 DEF Invalidated, Phase, Thread
    <2>3. stored' = stored /\ cache' = With(cache, k.s, k.field, Null)
      BY <2>1 DEF Invalidated
    <2>4. /\ \A u \in Threads \ {t} : thread'[u] = thread[u]
          /\ thread'[t].pc = "saving"
      BY <1>0, <2>1, <2>2 DEF Invalidated, Becomes, Thread
    <2>5. \A s \in Services, g \in Fields :
             (s # k.s \/ g # k.field) /\ StaleOK(s, g) =>
                 <<s, g>> \in suspect' \/ Written(s, g)'
      <3> SUFFICES ASSUME NEW s \in Services, NEW g \in Fields, s # k.s \/ g # k.field, StaleOK(s, g)
                   PROVE  <<s, g>> \in suspect' \/ Written(s, g)'
        OBVIOUS
      <3>1. CASE <<s, g>> \in suspect
        BY <2>1, <3>1 DEF Invalidated
      <3>2. CASE Written(s, g)
        <4>1. PICK u \in Threads : thread[u].pc = "written" /\ thread[u].s = s /\ thread[u].field = g
          BY <3>2 DEF Written
        <4>2. u # t
          BY <4>1
        <4> QED BY <2>4, <4>1, <4>2 DEF Written
      <3> QED BY <3>1, <3>2 DEF StaleOK
    <2>6. StaleOnlyByRace'
      <3> SUFFICES ASSUME NEW s \in Services, NEW g \in Fields, cache'[s][g] \notin {Null, stored'[s][g]}
                   PROVE  <<s, g>> \in suspect' \/ Written(s, g)'
        BY DEF StaleOnlyByRace, Written
      <3>1. s # k.s \/ g # k.field
        BY <1>0, <2>2, <2>3 DEF With
      <3>2. cache'[s][g] = cache[s][g]
        <4>1. CASE s # k.s
          BY <1>0, <2>2, <2>3, <4>1 DEF With
        <4>2. CASE s = k.s /\ g # k.field
          BY <1>0, <2>2, <2>3, <4>2 DEF With
        <4> QED BY <3>1, <4>1, <4>2
      <3> QED BY <2>3, <2>5, <3>1, <3>2 DEF StaleOnlyByRace, StaleOK, Written
    <2>7. ASSUME NEW u \in Threads, thread'[u].pc = "loaded"
          PROVE  \/ thread'[u].val = stored'[thread'[u].s][thread'[u].field]
                 \/ <<thread'[u].s, thread'[u].field>> \in suspect'
                 \/ Written(thread[u].s, thread[u].field)'
      <3>1. u # t /\ thread'[u] = thread[u]
        BY <2>4, <2>7
      <3>2. thread[u].s \in Services /\ thread[u].field \in Fields
        BY <1>0, <1>1, <2>7, <3>1 DEF Phase, Thread
      <3>3. CASE thread[u].val = stored[thread[u].s][thread[u].field]
        BY <2>3, <3>1, <3>3
      <3>4. CASE thread[u].val # stored[thread[u].s][thread[u].field]
        <4>1. StaleOK(thread[u].s, thread[u].field)
          BY <2>7, <3>1, <3>4 DEF LoadedFresh, StaleOK
        <4>2. CASE thread[u].s = k.s /\ thread[u].field = k.field
          <5>1. LateReader(k.s, k.field)
            BY <2>7, <3>1, <3>4, <4>2 DEF LateReader
          <5>2. <<k.s, k.field>> \in suspect'
            BY <2>1, <5>1 DEF Invalidated
          <5> QED BY <3>1, <4>2, <5>2
        <4>3. CASE ~(thread[u].s = k.s /\ thread[u].field = k.field)
          BY <2>5, <3>1, <3>2, <4>1, <4>3 DEF Written
        <4> QED BY <4>2, <4>3
      <3> QED BY <3>3, <3>4
    <2> QED BY <2>6, <2>7 DEF LoadedFresh
  \* What a writer that fails leaves behind is suspect.
  <1>9. CASE (\E t \in Threads : SaveFailed(t)) \/ Crash
    <2>1. stored' = stored /\ cache' = cache
      BY <1>9 DEF SaveFailed, Crash
    <2>2. \A t \in Threads : thread'[t] = thread[t] \/ thread'[t] = Idle
      BY <1>0, <1>9 DEF SaveFailed, Crash, Becomes
    <2>3. \A s \in Services, g \in Fields :
             StaleOK(s, g) => <<s, g>> \in suspect' \/ Written(s, g)'
      <3> SUFFICES ASSUME NEW s \in Services, NEW g \in Fields, StaleOK(s, g)
                   PROVE  <<s, g>> \in suspect' \/ Written(s, g)'
        OBVIOUS
      <3>1. CASE <<s, g>> \in suspect
        BY <1>9, <3>1 DEF SaveFailed, Crash
      <3>2. CASE Written(s, g)
        <4>1. PICK u \in Threads : thread[u].pc = "written" /\ thread[u].s = s /\ thread[u].field = g
          BY <3>2 DEF Written
        <4>2. CASE Crash
          BY <4>1, <4>2 DEF Crash
        <4>3. CASE SaveFailed(u)
          BY <4>1, <4>3 DEF SaveFailed
        <4>4. CASE \E t \in Threads \ {u} : SaveFailed(t)
          <5>1. thread'[u] = thread[u]
            BY <1>0, <4>4 DEF SaveFailed, Becomes
          <5> QED BY <4>1, <5>1 DEF Written
        <4> QED BY <1>9, <4>2, <4>3, <4>4
      <3> QED BY <3>1, <3>2 DEF StaleOK
    <2>4. StaleOnlyByRace'
      BY <2>1, <2>3 DEF StaleOnlyByRace, StaleOK, Written
    <2>5. ASSUME NEW u \in Threads, thread'[u].pc = "loaded"
          PROVE  \/ thread'[u].val = stored'[thread'[u].s][thread'[u].field]
                 \/ <<thread'[u].s, thread'[u].field>> \in suspect'
                 \/ Written(thread[u].s, thread[u].field)'
      <3>1. thread'[u] = thread[u]
        BY <2>2, <2>5, IdleTyped
      <3>2. thread[u].s \in Services /\ thread[u].field \in Fields
        BY <1>0, <1>1, <2>5, <3>1 DEF Phase, Thread
      <3>3. CASE thread[u].val = stored[thread[u].s][thread[u].field]
        BY <2>1, <3>1, <3>3
      <3>4. CASE thread[u].val # stored[thread[u].s][thread[u].field]
        <4>1. StaleOK(thread[u].s, thread[u].field)
          BY <2>5, <3>1, <3>4 DEF LoadedFresh, StaleOK
        <4> QED BY <2>3, <3>1, <3>2, <4>1 DEF Written
      <3> QED BY <3>3, <3>4
    <2> QED BY <2>4, <2>5 DEF LoadedFresh
  <1> QED BY <1>3, <1>4, <1>5, <1>6, <1>7, <1>8, <1>9 DEF Next, Continued

-----------------------------------------------------------------------------
(* The scheduler as its users see it *)

LEMMA PlannedConfig ==
    ASSUME NEW q \in Kinds, NEW g \in Partial, g["switch"] # Null,
           g["plan"] # Null \/ q = "minute" \/ (q = "quota" /\ g["switch"] = "off")
    PROVE  \E c \in Configs : Planned(q, g) = Planned(q, c)
  <1> DEFINE c == [f \in Fields |-> IF g[f] # Null THEN g[f] ELSE DefaultPlan]
  <1>1. c \in Configs
    BY DEF Configs, Partial, Fields, Values
  <1>2. c \in Partial /\ c["switch"] = g["switch"] /\ (g["plan"] # Null => c["plan"] = g["plan"])
    BY <1>1, ConfigPartial DEF Fields
  <1>3. Planned(q, g) = Planned(q, c)
    BY <1>2, PlannedSame
  <1> QED BY <1>1, <1>3

LEMMA PlannedNull == \A q \in Kinds : \E c \in Configs : Planned(q, c) = Null
  <1> TAKE q \in Kinds
  <1> DEFINE c == [f \in Fields |-> IF f = "switch" THEN "off" ELSE DefaultPlan]
  <1>1. c \in Configs /\ c["switch"] = "off"
    BY DEF Configs, Fields, Values, Switch
  <1> QED BY <1>1 DEF Planned

LEMMA RescheduledStep ==
    ASSUME NEW s \in Services, s \in Due, NEW c \in Configs,
           JobShown' = [JobShown EXCEPT ![s] = Planned(kind[s], c)],
           UNCHANGED <<kind, stored, missed>>, Due' = Due
    PROVE  Promise!Next
  BY DEF Promise!Next, Promise!Rescheduled, Promise!Configs, Configs, Promise!Planned, Planned,
         Promise!Fields, Fields, Promise!Values, Values, Promise!Switch, Switch,
         Promise!TimedTrigger, TimedTrigger, Promise!QuotaTrigger, QuotaTrigger,
         Promise!MinuteTrigger, MinuteTrigger

\* A step of a thread that is not between removing a job and adding it.
LEMMA ShownSame ==
    ASSUME Inv, NEW t \in Threads, job' = job, kind' = kind,
           \A u \in Threads \ {t} : thread'[u] = thread[u],
           ~thread[t].gone, ~thread'[t].gone,
           lock' = lock \/ (lock \in {Null, t} /\ lock' \in {Null, t})
    PROVE  JobShown' = JobShown
  <1>1. lock \in Threads \cup {Null}
    BY DEF Inv, Typed
  <1>2. CASE lock \in {Null, t}
    <2>1. lock' \in {Null, t}
      BY <1>2
    <2>2. JobShown = [s \in Services |-> job[s]]
      BY <1>2 DEF JobShown
    <2>3. JobShown' = [s \in Services |-> job'[s]]
      BY <2>1 DEF JobShown
    <2> QED BY <2>2, <2>3
  <1>3. CASE lock \notin {Null, t}
    <2>1. lock' = lock /\ lock # Null /\ thread'[lock] = thread[lock]
      BY <1>1, <1>3
    <2> QED BY <2>1 DEF JobShown, Complete
  <1> QED BY <1>2, <1>3

\* The thread that holds the lock reads on after it removed a job.
LEMMA ShownStep ==
    ASSUME Inv, NEW t \in Threads, lock = t, lock' = t, kind' = kind, thread[t].s \in Services,
           thread'[t].gone, thread'[t].s = thread[t].s,
           \A s \in Services \ {thread[t].s} : job'[s] = job[s]
    PROVE  /\ \A s \in Services \ {thread[t].s} : JobShown'[s] = JobShown[s]
           /\ JobShown'[thread[t].s] = IF Complete(thread[t])' THEN Planned(kind[thread[t].s], thread'[t].got)
                                       ELSE job'[thread[t].s]
           /\ thread[t].gone => JobShown[thread[t].s] =
                  IF Complete(thread[t]) THEN Planned(kind[thread[t].s], thread[t].got)
                  ELSE job[thread[t].s]
  BY DEF JobShown

LEMMA ShownFunction == JobShown = [s \in Services |-> JobShown[s]]
  BY DEF JobShown

LEMMA InitPromise == Init => Promise!Init
  <1> SUFFICES ASSUME Init PROVE Promise!Init
    OBVIOUS
  <1>1. JobShown = [s \in Services |-> Null]
    BY DEF Init, JobShown
  <1>2. Due = Services
    BY DEF Init, Due
  <1>3. stored \in [Services -> Configs]
    BY DEF Init
  <1> QED BY <1>1, <1>2, <1>3 DEF Init, Promise!Init, Promise!Kinds, Kinds, Promise!Configs, Configs,
             Promise!Fields, Fields, Promise!Values, Values, Promise!Switch, Switch

\* A settings save of a service, as the abstract scheduler sees it.
LEMMA SavedStep ==
    ASSUME NEW s \in Services, NEW c \in Configs, stored' = [stored EXCEPT ![s] = c],
           Due' = Due \cup {s}, JobShown' = JobShown, UNCHANGED <<kind, missed>>
    PROVE  Promise!Next
  BY DEF Promise!Next, Promise!Saved, Promise!Configs, Configs, Promise!Fields, Fields,
         Promise!Values, Values, Promise!Switch, Switch

LEMMA SettledStep ==
    ASSUME NEW s \in Services, s \in Due, Due' \in {Due, Due \ {s}},
           missed' \in {missed \cup {s}, missed \ {s}},
           s \in Due' \cup missed' \/ JobShown[s] = Planned(kind[s], stored[s]),
           JobShown' = JobShown, UNCHANGED <<kind, stored>>
    PROVE  Promise!Next
  BY DEF Promise!Next, Promise!Settled, Promise!Planned, Planned,
         Promise!TimedTrigger, TimedTrigger, Promise!QuotaTrigger, QuotaTrigger,
         Promise!MinuteTrigger, MinuteTrigger

\* Reading on: the trigger of a job that has been removed becomes known.
LEMMA PromiseRead ==
    ASSUME Inv, Inv', NEW t \in Threads, Due' = Due,
           CacheHit(t) \/ CacheMissed(t) \/ CacheFilled(t) \/ ReadFailed(t)
    PROVE  [Promise!Next]_(Promise!vars)
  <1> DEFINE k == thread[t]
             n == thread'[t]
  <1>0. thread \in [Threads -> Thread] /\ k \in Thread /\ Phase(k)
        /\ n \in Thread /\ k.pc \in {"reading", "loaded"}
    BY DEF Inv, Typed, Phases, CacheHit, CacheMissed, CacheFilled, ReadFailed, ReadBegun
  <1>1. UNCHANGED <<kind, stored, job, missed, lock>>
    BY DEF CacheHit, CacheMissed, CacheFilled, ReadFailed
  <1>2. /\ \A u \in Threads \ {t} : thread'[u] = thread[u]
        /\ n.gone = k.gone /\ n.s = k.s /\ n.job = k.job
        /\ \/ n.got = k.got
           \/ /\ n.got = [k.got EXCEPT ![NextField(k)] = n.got[NextField(k)]]
              /\ n.got[NextField(k)] # Null
    <2>1. CASE CacheMissed(t)
      BY <1>0, <2>1 DEF CacheMissed, Becomes, Thread
    <2>2. CASE CacheHit(t) \/ CacheFilled(t) \/ ReadFailed(t)
      <3>1. PICK v, b : Becomes(t, Returns(k, v, b)) /\ v # Null
        <4>1. CASE CacheHit(t)
          BY <4>1 DEF CacheHit
        <4>2. CASE CacheFilled(t)
          BY <1>0, <4>2, SlotValues DEF CacheFilled, Phase, Thread
        <4>3. CASE ReadFailed(t)
          BY <4>3, NextFieldIn, DefaultSlot, SlotValues DEF ReadFailed
        <4> QED BY <2>2, <4>1, <4>2, <4>3
      <3> DEFINE m == Returns(k, v, b)
      <3>2. m.gone = k.gone /\ m.s = k.s /\ m.job = k.job /\ m.got = [k.got EXCEPT ![NextField(k)] = v]
        BY <1>0 DEF Returns, Thread
      <3>3. m.got[NextField(k)] = v
        BY <1>0, <3>2, NextFieldIn DEF Thread, Partial
      <3>4. n = m /\ \A u \in Threads \ {t} : thread'[u] = thread[u]
        BY <1>0, <3>1 DEF Becomes
      <3> HIDE DEF m
      <3> QED BY <3>1, <3>2, <3>3, <3>4
    <2> QED BY <2>1, <2>2
  <1>3. CASE ~k.gone
    <2>1. JobShown' = JobShown
      BY <1>1, <1>2, <1>3, ShownSame
    <2> QED BY <1>1, <2>1 DEF Promise!vars
  <1>4. CASE k.gone
    <2>1. k.s \in Services /\ k.job \in {"save", "start"} /\ lock = t /\ kind[k.s] \in Kinds
      BY <1>0, <1>4 DEF Phase, Inv, Holding, Typed
    <2>2. k.s \in Due
      BY <2>1 DEF Due, Saving, Inv, Holding
    <2>3. /\ \A s \in Services \ {k.s} : JobShown'[s] = JobShown[s]
          /\ JobShown'[k.s] = IF Complete(thread[t])' THEN Planned(kind[k.s], n.got) ELSE job[k.s]
          /\ JobShown[k.s] = IF Complete(k) THEN Planned(kind[k.s], k.got) ELSE job[k.s]
      <3>1. /\ lock = t /\ lock' = t /\ kind' = kind /\ job' = job /\ thread[t].s \in Services
            /\ thread'[t].gone /\ thread'[t].s = thread[t].s /\ thread[t].gone
        BY <1>1, <1>2, <1>4, <2>1
      <3> QED BY <3>1, ShownStep
    <2>4. Complete(thread[t])' \/ ~Complete(k)
      <3> DEFINE f == NextField(k)
      <3>1. n.got \in Partial /\ k.got \in Partial
        BY <1>0 DEF Thread
      <3>2. CASE n.got = k.got
        BY <1>1, <1>2, <3>2 DEF Complete
      <3>3. CASE n.got # k.got /\ k.got["switch"] = Null
        BY <3>3 DEF Complete
      <3>4. CASE /\ n.got = [k.got EXCEPT !["plan"] = n.got["plan"]] /\ n.got["plan"] # Null
                 /\ k.got["switch"] # Null
        <4>1. n.got["switch"] = k.got["switch"]
          BY <3>1, <3>4 DEF Partial, Fields
        <4>2. ASSUME Complete(k) PROVE Complete(thread[t])'
          BY <1>1, <1>2, <3>4, <4>1, <4>2 DEF Complete
        <4> QED BY <4>2
      <3> QED BY <1>2, <3>2, <3>3, <3>4 DEF NextField
    <2>5. CASE Complete(thread[t])'
      <3>1. n.got \in Partial /\ n.got["switch"] # Null /\ n.job # "run"
            /\ (n.got["plan"] # Null \/ kind[k.s] = "minute" \/ (kind[k.s] = "quota" /\ n.got["switch"] = "off"))
        BY <1>0, <1>1, <1>2, <2>1, <2>5 DEF Complete, Thread
      <3>2. PICK c \in Configs : Planned(kind[k.s], n.got) = Planned(kind[k.s], c)
        BY <2>1, <3>1, PlannedConfig
      <3>3. JobShown' = [JobShown EXCEPT ![k.s] = Planned(kind[k.s], c)]
        BY <2>1, <2>3, <2>5, <3>2, ShownFunction DEF JobShown
      <3> QED BY <1>1, <2>1, <2>2, <3>3, RescheduledStep
    <2>6. CASE ~Complete(thread[t])' /\ ~Complete(k)
      <3>1. JobShown' = JobShown
        BY <2>3, <2>6 DEF JobShown
      <3> QED BY <1>1, <3>1 DEF Promise!vars
    <2> QED BY <2>4, <2>5, <2>6
  <1> QED BY <1>3, <1>4

LEMMA PromiseRemoved ==
    ASSUME Inv, NEW t \in Threads, JobRemoved(t), Due' = Due
    PROVE  [Promise!Next]_(Promise!vars)
  <1> DEFINE k == thread[t]
  <1>0. thread \in [Threads -> Thread] /\ k \in Thread /\ Phase(k)
    BY DEF Inv, Typed, Phases
  <1>1. /\ k.s \in Services /\ k.job \in {"save", "start"} /\ lock = t /\ kind[k.s] \in Kinds
        /\ k.s \in Due
    BY <1>0 DEF JobRemoved, Phase, Inv, Holding, Typed, Due, Saving
  <1>2. /\ thread'[t] = [k EXCEPT !.gone = TRUE]
        /\ lock' = t /\ kind' = kind /\ UNCHANGED <<stored, missed>>
        /\ job' = [job EXCEPT ![k.s] = Null]
    BY <1>0, <1>1 DEF JobRemoved, Becomes
  <1>3. thread'[t].gone /\ thread'[t].s = k.s /\ thread'[t].got = k.got /\ thread'[t].job = k.job
    BY <1>0, <1>2 DEF Thread
  <1>4. job'[k.s] = Null /\ \A s \in Services \ {k.s} : job'[s] = job[s]
    BY <1>1, <1>2 DEF Inv, Typed
  <1>5. /\ \A s \in Services \ {k.s} : JobShown'[s] = JobShown[s]
        /\ JobShown'[k.s] = IF Complete(thread[t])' THEN Planned(kind[k.s], k.got) ELSE Null
    BY <1>1, <1>2, <1>3, <1>4, ShownStep
  <1>6. PICK c \in Configs : JobShown'[k.s] = Planned(kind[k.s], c)
    <2>1. CASE Complete(thread[t])'
      <3>1. k.got \in Partial /\ k.got["switch"] # Null
            /\ (k.got["plan"] # Null \/ kind[k.s] = "minute" \/ (kind[k.s] = "quota" /\ k.got["switch"] = "off"))
        BY <1>0, <1>1, <1>2, <1>3, <2>1 DEF Complete, Thread
      <3> QED BY <1>1, <1>5, <2>1, <3>1, PlannedConfig
    <2>2. CASE ~Complete(thread[t])'
      BY <1>1, <1>5, <2>2, PlannedNull
    <2> QED BY <2>1, <2>2
  <1>7. JobShown' = [JobShown EXCEPT ![k.s] = Planned(kind[k.s], c)]
    <2>1. JobShown' = [s \in Services |-> JobShown'[s]]
      BY DEF JobShown
    <2>2. \A s \in Services : JobShown'[s] = IF s = k.s THEN Planned(kind[k.s], c) ELSE JobShown[s]
      BY <1>5, <1>6
    <2> QED BY <1>1, <2>1, <2>2, ShownFunction
  <1> QED BY <1>1, <1>2, <1>7, RescheduledStep

LEMMA PromiseAdded ==
    ASSUME Inv, ReadAsStored, NEW t \in Threads, JobAdded(t)
    PROVE  [Promise!Next]_(Promise!vars)
  <1> DEFINE k == thread[t]
  <1>0. /\ k \in Thread /\ k.s \in Services /\ lock = t /\ k.gone /\ Complete(k)
        /\ UNCHANGED <<kind, stored>>
    BY AddingFacts DEF JobAdded
  <1>1. job' = [job EXCEPT ![k.s] = Planned(kind[k.s], k.got)]
    BY DEF JobAdded
  <1>2. lock' \in {Null, t} /\ thread'[t].gone = FALSE
    BY <1>0, EndedDue DEF JobAdded
  <1>3. JobShown' = [s \in Services |-> job'[s]]
    BY <1>2 DEF JobShown
  <1>4. JobShown = [s \in Services |-> IF s = k.s THEN Planned(kind[s], k.got) ELSE job[s]]
    BY <1>0 DEF JobShown
  <1>5. \A s \in Services : job'[s] = IF s = k.s THEN Planned(kind[s], k.got) ELSE job[s]
    BY <1>0, <1>1 DEF Inv, Typed
  <1>6. JobShown' = JobShown
    BY <1>3, <1>4, <1>5
  <1>7. missed' \in {missed \cup {k.s}, missed \ {k.s}}
    <2>1. CASE k.misread
      BY <2>1 DEF JobAdded
    <2>2. CASE ~k.misread /\ AsStored(k)
      BY <2>2 DEF JobAdded
    <2>3. CASE ~k.misread /\ ~AsStored(k)
      <3>1. missed' = missed
        BY <2>3 DEF JobAdded
      <3> QED BY <3>1
    <2> QED BY <2>1, <2>2, <2>3
  <1>8. k.s \in Due' \cup missed' \/ JobShown[k.s] = Planned(kind[k.s], stored[k.s])
    BY <1>0, <1>3, <1>6, AddedAsStored
  <1>9. k.s \in Due /\ Due' \in {Due, Due \ {k.s}}
    BY EndedDue
  <1> QED BY <1>0, <1>6, <1>7, <1>8, <1>9, SettledStep

LEMMA PromiseStep ==
    ASSUME Inv, Inv', ReadAsStored, [Next]_vars
    PROVE  [Promise!Next]_(Promise!vars)
  <1>0. thread \in [Threads -> Thread] /\ stored \in [Services -> Configs]
    BY DEF Inv, Typed
  <1>1. CASE \E t \in Threads : CacheHit(t) \/ CacheMissed(t) \/ CacheFilled(t) \/ ReadFailed(t)
    BY <1>1, QuietDue, PromiseRead DEF QuietStep
  <1>2. CASE \E t \in Threads : JobRemoved(t)
    BY <1>2, QuietDue, PromiseRemoved DEF QuietStep
  <1>3. CASE \E t \in Threads : JobAdded(t)
    BY <1>3, PromiseAdded
  \* Steps that neither remove nor add a job.
  <1>4. ASSUME NEW t \in Threads,
               \/ QuietStep(t) /\ ~thread[t].gone /\ ~thread'[t].gone
               \/ SaveFailed(t)
               \/ \E s \in Services, new \in Configs : SaveBegan(t, s, new),
               job' = job
        PROVE  JobShown' = JobShown
    <2>1. ~thread[t].gone /\ ~thread'[t].gone
      <3>1. CASE SaveFailed(t)
        BY <3>1, EndedDue DEF SaveFailed, Inv, Phases, Phase
      <3>2. CASE \E s \in Services, new \in Configs : SaveBegan(t, s, new)
        <4>1. PICK s \in Services, new \in Configs : SaveBegan(t, s, new)
          BY <3>2
        <4>2. ~thread[t].gone
          BY <4>1 DEF SaveBegan, Inv, Phases, Phase
        <4>3. ~thread'[t].gone
          BY <1>0, <4>1 DEF SaveBegan, Becomes, Idle
        <4> QED BY <4>2, <4>3
      <3> QED BY <1>4, <3>1, <3>2
    <2>2. \A u \in Threads \ {t} : thread'[u] = thread[u]
      <3>1. CASE QuietStep(t)
        BY <3>1, QuietThread
      <3>2. CASE SaveFailed(t)
        BY <3>2, EndedDue
      <3>3. CASE \E s \in Services, new \in Configs : SaveBegan(t, s, new)
        BY <1>0, <3>3 DEF SaveBegan, Becomes
      <3> QED BY <1>4, <3>1, <3>2, <3>3
    <2>3. kind' = kind
      BY <1>4 DEF QuietStep, CacheHit, CacheMissed, CacheFilled, ReadFailed, KeySaved, Invalidated,
                  KeysSaved, StartBegan, Locked, JobRemoved, JobRan, JobFired, SaveFailed, SaveBegan
    <2>4. lock' = lock \/ (lock \in {Null, t} /\ lock' \in {Null, t})
      BY <1>4 DEF QuietStep, CacheHit, CacheMissed, CacheFilled, ReadFailed, KeySaved, Invalidated,
                  KeysSaved, StartBegan, Locked, JobRemoved, JobRan, JobFired, SaveFailed, SaveBegan
    <2> QED BY <1>4, <2>1, <2>2, <2>3, <2>4, ShownSame
  <1>5. CASE \E t \in Threads : \/ Invalidated(t) \/ KeysSaved(t) \/ StartBegan(t) \/ Locked(t)
                                \/ JobRan(t) \/ \E s \in Services : JobFired(t, s)
    <2>1. PICK t \in Threads : \/ Invalidated(t) \/ KeysSaved(t) \/ StartBegan(t) \/ Locked(t)
                               \/ JobRan(t) \/ \E s \in Services : JobFired(t, s)
      BY <1>5
    <2>2. QuietStep(t) /\ UNCHANGED <<kind, stored, job, missed>>
      BY <2>1 DEF QuietStep, Invalidated, KeysSaved, StartBegan, Locked, JobRan, JobFired
    <2>3. ~thread[t].gone
      BY <2>1 DEF Invalidated, KeysSaved, StartBegan, Locked, JobRan, JobFired, Inv, Phases, Phase
    <2>4. ~thread'[t].gone
      <3>1. thread[t] \in Thread
        BY <1>0
      <3>2. CASE Invalidated(t)
        BY <1>0, <2>3, <3>1, <3>2 DEF Invalidated, Becomes, Thread
      <3>3. CASE KeysSaved(t)
        BY <1>0, <3>3 DEF KeysSaved, Becomes, Idle
      <3>4. CASE StartBegan(t)
        <4>1. PICK s \in left : Becomes(t, [Idle EXCEPT !.pc = "waiting", !.job = "start", !.s = s])
          BY <3>4 DEF StartBegan
        <4> QED BY <1>0, <4>1 DEF Becomes, Idle
      <3>5. CASE Locked(t)
        BY <1>0, <2>3, <3>1, <3>5 DEF Locked, Becomes, Thread
      <3>6. CASE JobRan(t)
        BY <1>0, <3>6, IdleTyped DEF JobRan, Becomes
      <3>7. CASE \E s \in Services : JobFired(t, s)
        <4>1. PICK s \in Services : JobFired(t, s)
          BY <3>7
        <4> QED BY <1>0, <4>1 DEF JobFired, Becomes, Idle
      <3> QED BY <2>1, <3>2, <3>3, <3>4, <3>5, <3>6, <3>7
    <2>5. JobShown' = JobShown
      BY <1>4, <2>2, <2>3, <2>4
    <2> QED BY <2>2, <2>5, QuietDue DEF Promise!vars
  <1>6. CASE \E t \in Threads, f \in Fields : KeySaved(t, f)
    <2>1. PICK t \in Threads, f \in Fields : KeySaved(t, f)
      BY <1>6
    <2> DEFINE k == thread[t]
    <2>2. k.pc = "saving" /\ k.job = "save" /\ k.s \in Services /\ ~k.gone
      BY <2>1 DEF KeySaved, Inv, Phases, Phase
    <2>3. thread'[t].pc \in {"saving", "written"}
      <3> DEFINE rest == [k EXCEPT !.new = [k.new EXCEPT ![f] = Null]]
                 n == [rest EXCEPT !.pc = "written", !.field = f]
      <3>1. rest.pc = "saving" /\ n.pc = "written"
        BY <1>0, <2>2 DEF Thread
      <3>2. thread' = [thread EXCEPT ![t] = rest] \/ thread' = [thread EXCEPT ![t] = n]
        BY <2>1 DEF KeySaved, Becomes
      <3> QED BY <1>0, <3>1, <3>2
    <2>4. ~thread'[t].gone
      BY <2>3 DEF Inv, Phases, Phase
    <2>5. QuietStep(t) /\ UNCHANGED <<kind, job, missed>>
      BY <2>1 DEF QuietStep, KeySaved
    <2>6. Due' = Due /\ JobShown' = JobShown
      BY <1>4, <2>2, <2>4, <2>5, QuietDue
    <2>7. k.s \in Due
      BY <2>2 DEF Due, Saving
    <2>8. CASE stored' = stored
      BY <2>5, <2>6, <2>8 DEF Promise!vars
    <2>9. CASE stored' = With(stored, k.s, f, k.new[f])
      <3>1. stored' = [stored EXCEPT ![k.s] = stored'[k.s]] /\ stored'[k.s] \in Configs
        BY <1>0, <2>2, <2>9 DEF With, Inv, Typed
      <3>2. Due' = Due \cup {k.s}
        BY <2>6, <2>7
      <3> QED BY <2>2, <2>5, <2>6, <3>1, <3>2, SavedStep
    <2> QED BY <2>1, <2>8, <2>9 DEF KeySaved
  <1>7. CASE \E t \in Threads, s \in Services, new \in Configs : SaveBegan(t, s, new)
    <2>1. PICK t \in Threads, s \in Services, new \in Configs : SaveBegan(t, s, new)
      BY <1>7
    <2>2. UNCHANGED <<kind, stored, job, missed, left>>
      BY <2>1 DEF SaveBegan
    <2>3. JobShown' = JobShown
      BY <1>4, <2>1, <2>2
    <2>4. thread[t].job = "none"
      BY <2>1, IdleTyped DEF SaveBegan, Inv, Phases, Phase
    <2>5. thread'[t].job = "save" /\ thread'[t].s = s
      BY <1>0, <2>1 DEF SaveBegan, Becomes, Idle
    <2>6. \A u \in Threads \ {t} : thread'[u] = thread[u]
      BY <1>0, <2>1 DEF SaveBegan, Becomes
    <2>7. \A r \in Services : (\E u \in Threads : Saving(u, r))' <=> r = s \/ \E u \in Threads : Saving(u, r)
      BY <2>4, <2>5, <2>6 DEF Saving
    <2>8. Due' = Due \cup {s}
      BY <2>2, <2>7 DEF Due
    <2>9. stored' = [stored EXCEPT ![s] = stored[s]] /\ stored[s] \in Configs
      BY <1>0, <2>2
    <2> QED BY <2>2, <2>3, <2>8, <2>9, SavedStep
  <1>8. CASE \E t \in Threads : SaveFailed(t)
    <2>1. PICK t \in Threads : SaveFailed(t)
      BY <1>8
    <2>2. UNCHANGED <<kind, stored, job>> /\ missed' = missed \cup {thread[t].s} /\ thread[t].s \in Services
      BY <2>1 DEF SaveFailed, Inv, Phases, Phase
    <2>3. JobShown' = JobShown
      BY <1>4, <2>1, <2>2
    <2>4. thread[t].s \in Due /\ Due' \in {Due, Due \ {thread[t].s}}
      BY <2>1, EndedDue
    <2> QED BY <2>2, <2>3, <2>4, SettledStep
  <1>9. CASE (\E s \in Services, f \in Fields : CacheExpired(s, f)) \/ UNCHANGED vars
    <2>1. UNCHANGED <<kind, stored, job, missed, lock, left, thread>>
      BY <1>9 DEF CacheExpired, vars
    <2> QED BY <2>1 DEF Promise!vars, JobShown, Complete, Due, Saving
  <1>10. CASE Crash
    <2>1. Due' = Services /\ missed' = {} /\ UNCHANGED <<kind, stored>>
      BY <1>10 DEF Crash, Due
    <2>2. JobShown' = [s \in Services |-> Null]
      BY <1>10 DEF Crash, JobShown
    <2> QED BY <2>1, <2>2 DEF Promise!Next, Promise!Restarted
  <1> QED BY <1>1, <1>2, <1>3, <1>5, <1>6, <1>7, <1>8, <1>9, <1>10 DEF Next, Continued

-----------------------------------------------------------------------------
(* The theorems *)

Reads == Inv /\ ReadAsStored /\ LoadedFresh /\ SchedulesFollow /\ StaleOnlyByRace

LEMMA ReadsInvariant == Spec => []Reads
  <1>1. Init => Reads
    <2>1. Init => StaleOnlyByRace
      BY DEF Init, StaleOnlyByRace, Unread
    <2> QED BY <2>1, InitTyped, InitReads, InitFollows DEF Reads, Inv
  <1>2. Reads /\ [Next]_vars => Reads'
    BY InvStep, ReadAsStoredStep, FollowsStep, StaleStep DEF Reads
  <1> QED BY <1>1, <1>2, PTL DEF Spec

LEMMA BoundedStep == Bounded /\ [Next]_vars => Bounded'
  <1> SUFFICES ASSUME Bounded, [Next]_vars PROVE Bounded'
    OBVIOUS
  <1>1. CASE \E t \in Threads, s \in Services, new \in Configs : SaveBegan(t, s, new)
    BY <1>1, BoundsAssumption DEF SaveBegan, Bounded
  <1>2. CASE Crash
    BY <1>2, BoundsAssumption DEF Crash, Bounded
  <1>3. CASE UNCHANGED <<saves, crashes>>
    BY <1>3 DEF Bounded
  <1>4. \A t \in Threads : Continued(t) => UNCHANGED <<saves, crashes>>
    BY DEF Continued, CacheHit, CacheMissed, CacheFilled, ReadFailed, KeySaved, Invalidated,
           SaveFailed, KeysSaved, JobRemoved, JobAdded, JobRan
  <1>5. \A t \in Threads : Locked(t) \/ StartBegan(t) \/ (\E s \in Services : JobFired(t, s))
            => UNCHANGED <<saves, crashes>>
    BY DEF Locked, StartBegan, JobFired
  <1> QED BY <1>1, <1>2, <1>3, <1>4, <1>5 DEF Next, CacheExpired, vars

\* The types, for any number of services, plans and threads.
THEOREM JobsTyped == Spec => []TypeOK
  <1>1. Init => Bounded
    BY BoundsAssumption DEF Init, Bounded
  <1>2. Reads /\ Bounded => TypeOK
    BY DEF Reads, Inv, Typed, Holding, Bounded, TypeOK
  <1> QED BY <1>1, <1>2, BoundedStep, ReadsInvariant, PTL DEF Spec

\* Jobs follow the stored settings once no change is due, unless the last
\* change was missed (settings_save, the reschedule functions).
THEOREM JobsFollow == Spec => []SchedulesFollow
  <1>1. Reads => SchedulesFollow
    BY DEF Reads
  <1> QED BY <1>1, ReadsInvariant, PTL

\* A cached setting differs from the stored one only by a race or a failure
\* (SettingsCache).
THEOREM CacheStaleOnlyByRace == Spec => []StaleOnlyByRace
  <1>1. Reads => StaleOnlyByRace
    BY DEF Reads
  <1> QED BY <1>1, ReadsInvariant, PTL

\* Settings, cache and lock together implement the abstract scheduler, in which
\* a job changes only while a change of its service is due, and a change is only
\* settled with the job as stored or counted as missed.
THEOREM JobsImplementSchedule == Spec => ScheduleKept
  <1>1. Reads /\ Reads' /\ [Next]_vars => [Promise!Next]_(Promise!vars)
    BY PromiseStep DEF Reads
  <1> QED BY <1>1, InitPromise, ReadsInvariant, PTL DEF Spec, ScheduleKept, Promise!Spec
==============================================================================
